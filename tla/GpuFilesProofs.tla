--------------------------- MODULE GpuFilesProofs ---------------------------
(***************************************************************************)
(* Proofs about the GPU files and the NVMe files behind them, for every    *)
(* number of devices, files and starts, and every crash.                   *)
(***************************************************************************)
EXTENDS GpuFiles, SequenceFacts

-----------------------------------------------------------------------------
(* Invariants *)

\* What a record in a log or in its buffer will be once it is flushed.
Eff(l, i) == IF i = l.buf.slot THEN l.buf.rec ELSE l.recs[i]

\* Records in the file where the bitmap in the file says so; nothing but
\* records is buffered; and a slot in use has its record, except those that
\* are reserved.
WellWritten(l, reserved) ==
    /\ \A i \in l.disk : l.recs[i] # NoRec
    /\ l.buf.slot \in Slots => l.buf.rec # NoRec
    /\ \A i \in l.bits : i \in reserved \/ Eff(l, i) # NoRec

\* Slots of createGPUFiles whose records are still to be written.
Reserved == {slots[k] : k \in {j \in DOMAIN slots : j > done}}

\* A log over records R with at most n slots used, in memory or on disk.
LogOk(R, l, reserved, n) ==
    /\ l \in LogsOf(R)
    /\ WellWritten(l, reserved)
    /\ Cardinality(l.bits) <= n
    /\ Cardinality(l.disk) <= n

\* Starts whose files may be in the logs.
Rounds == IF phase \in {"new_log", "reset", "reset_rest", "check"} THEN starts - 1 ELSE starts

GpuLogInv == LogOk(Record \cup {Empty}, glog, Reserved, NumFiles * Rounds)

\* While files are created, the slots used are those of earlier starts and
\* those of this one.
NvmeLogInv ==
    /\ DOMAIN nlog = Devices
    /\ nlog = [d \in Devices |-> nlog[d]]
    /\ \A d \in Devices :
          /\ LogOk({Valid}, nlog[d], {}, NumFiles * Rounds)
          /\ at[d] \in {"record", "file"} =>
                Cardinality(nlog[d].bits) <= NumFiles * (starts - 1) + Len(todo[d])

OtherTypes ==
    /\ phase \in Phases
    /\ shape \in Shapes
    /\ reset \in BOOLEAN
    /\ starts \in 0 .. MaxStarts
    /\ header \in {"none", "empty", "valid"}
    /\ desc \in [Slots -> Record \cup {NoRec}]
    /\ slots \in Seq(Slots)
    /\ done \in 0 .. NumFiles
    /\ free_list \in Seq(Slots)
    /\ opened \subseteq Slots
    /\ fds \in [Devices -> [Slots -> Slots \cup {NoRec}]]
    /\ files \in [Devices -> SUBSET Slots]
    /\ at \in [Devices -> {"idle", "remove", "unlinked", "purge", "purged", "record",
                            "file", "created", "close"}]
    /\ todo \in [Devices -> Seq(Slots)]
    /\ deleting \in Slots \cup {-1}
    /\ lossy \in BOOLEAN
    /\ io_failed \in BOOLEAN

Deleting == phase = "reset" /\ deleting # -1

\* The step a device is at, and how far it has come.
StepOf(d) ==
    /\ at[d] \in {"record", "file", "created"} => phase = "create"
    /\ at[d] \in {"remove", "unlinked"} => phase = "create" \/ Deleting
    /\ at[d] \in {"purge", "purged"} => phase = "reset_rest"
    /\ at[d] = "close" => phase = "closing"
    /\ at[d] = "idle" => phase # "create" /\ ~Deleting
    /\ at[d] = "record" => Len(todo[d]) < Len(slots)
    /\ at[d] = "file" => todo[d] # << >> /\ Len(todo[d]) <= Len(slots)
    /\ at[d] = "created" => Len(todo[d]) = Len(slots)
    /\ at[d] \in {"unlinked", "purged"} => todo[d] # << >>

Control ==
    /\ phase \in {"create", "records"} => Len(slots) \in 1 .. NumFiles
    /\ phase \notin {"create", "records"} => slots = << >>
    /\ phase = "create" => done = 0
    /\ phase = "records" => done <= Len(slots) /\ \A d \in Devices : Len(todo[d]) = Len(slots)
    /\ phase # "reset" => deleting = -1
    /\ deleting # -1 => desc[deleting] # NoRec
    /\ phase # "down" => starts >= 1
    /\ \A d \in Devices : StepOf(d)

LogInv == OtherTypes /\ Control /\ GpuLogInv /\ NvmeLogInv

-----------------------------------------------------------------------------
(* Operations on a log. *)

LEMMA NoSlot == -1 \notin Slots /\ Slots \subseteq Nat
BY SlotsAssumption

LEMMA FlushedLog ==
    ASSUME NEW R, NEW l \in LogsOf(R)
    PROVE  /\ Flushed(l) \in LogsOf(R)
           /\ Flushed(l).bits = l.bits /\ Flushed(l).disk = l.disk
           /\ Flushed(l).pending = l.pending /\ Flushed(l).buf = NoBuf
           /\ \A i \in Slots : Flushed(l).recs[i] = Eff(l, i) /\ Eff(Flushed(l), i) = Eff(l, i)
<1>1. NoBuf \in [slot : Slots \cup {-1}, rec : R \cup {NoRec}] /\ NoBuf.slot = -1
    BY DEF NoBuf
<1>2. [s \in Slots |-> IF s = l.buf.slot THEN l.buf.rec ELSE l.recs[s]] \in [Slots -> R \cup {NoRec}]
    BY DEF LogsOf
<1>3. /\ Flushed(l) \in LogsOf(R)
      /\ Flushed(l).bits = l.bits /\ Flushed(l).disk = l.disk
      /\ Flushed(l).pending = l.pending /\ Flushed(l).buf = NoBuf
      /\ \A i \in Slots : Flushed(l).recs[i] = Eff(l, i)
    BY <1>1, <1>2 DEF LogsOf, Flushed, Eff
<1> QED BY <1>1, <1>3, NoSlot DEF Eff

LEMMA WrittenLog ==
    ASSUME NEW R, NEW l \in LogsOf(R), NEW s \in Slots, NEW r \in R
    PROVE  LET w == writeRecordToSlot(l, s, r)
           IN  /\ w \in LogsOf(R) /\ w.bits = l.bits /\ w.disk = l.disk /\ w.pending = l.pending
               /\ w.buf.slot = s /\ w.buf.rec = r
               /\ \A i \in Slots : /\ w.recs[i] = Eff(l, i)
                                   /\ Eff(w, i) = IF i = s THEN r ELSE Eff(l, i)
<1> DEFINE f == Flushed(l)
           w == writeRecordToSlot(l, s, r)
<1>1. /\ f \in LogsOf(R) /\ f.bits = l.bits /\ f.disk = l.disk /\ f.pending = l.pending
      /\ \A i \in Slots : f.recs[i] = Eff(l, i)
    BY FlushedLog
<1>2. w = [f EXCEPT !.buf = [slot |-> s, rec |-> r]]
    BY DEF writeRecordToSlot
<1> HIDE DEF f, w
<1>3. /\ w \in LogsOf(R) /\ w.bits = l.bits /\ w.disk = l.disk /\ w.pending = l.pending
      /\ w.buf = [slot |-> s, rec |-> r] /\ w.recs = f.recs
    BY <1>1, <1>2 DEF LogsOf
<1>4. \A i \in Slots : /\ w.recs[i] = Eff(l, i)
                       /\ Eff(w, i) = IF i = s THEN r ELSE Eff(l, i)
    BY <1>1, <1>3 DEF Eff
<1> QED BY <1>3, <1>4 DEF w

LEMMA PersistedLog ==
    ASSUME NEW R, NEW l \in LogsOf(R)
    PROVE  LET p == persistBitmap(l)
           IN  /\ p \in LogsOf(R) /\ p.bits = l.bits /\ p.disk = l.bits /\ p.pending = 0
               /\ p.buf = NoBuf
               /\ \A i \in Slots : p.recs[i] = Eff(l, i) /\ Eff(p, i) = Eff(l, i)
<1> DEFINE f == Flushed(l)
           p == persistBitmap(l)
<1>1. /\ f \in LogsOf(R) /\ f.bits = l.bits /\ f.buf = NoBuf
      /\ \A i \in Slots : f.recs[i] = Eff(l, i) /\ Eff(f, i) = Eff(l, i)
    BY FlushedLog
<1>2. p = [f EXCEPT !.disk = l.bits, !.pending = 0, !.stale = FALSE]
    BY DEF persistBitmap
<1>3. 0 \in 0 .. Threshold - 1 /\ l.bits \in SUBSET Slots
    BY ThresholdAssumption DEF LogsOf
<1> HIDE DEF f, p
<1>4. /\ p \in LogsOf(R) /\ p.bits = l.bits /\ p.disk = l.bits /\ p.pending = 0
      /\ p.buf = NoBuf /\ p.recs = f.recs
    BY <1>1, <1>2, <1>3 DEF LogsOf
<1>5. \A i \in Slots : p.recs[i] = Eff(l, i) /\ Eff(p, i) = Eff(l, i)
    BY <1>1, <1>4 DEF Eff
<1> QED BY <1>4, <1>5 DEF p

\* Counting changes persists the bitmap or leaves the file alone.
LEMMA CountedLog ==
    ASSUME NEW R, NEW l \in LogsOf(R), NEW n \in Nat
    PROVE  LET c == Count(l, n)
           IN  /\ c \in LogsOf(R) /\ c.bits = l.bits
               /\ \A i \in Slots : Eff(c, i) = Eff(l, i)
               /\ \/ c = persistBitmap(l)
                  \/ /\ c.disk = l.disk /\ c.recs = l.recs /\ c.buf = l.buf
                     /\ c.pending = l.pending + n
<1> DEFINE c == Count(l, n)
<1>1. l.pending \in 0 .. Threshold - 1 /\ Threshold \in Nat
    BY ThresholdAssumption DEF LogsOf
<1>2. CASE l.pending + n >= Threshold
  <2>1. c = persistBitmap(l)
      BY <1>2 DEF Count
  <2> HIDE DEF c
  <2> QED BY <2>1, PersistedLog DEF c
<1>3. CASE ~(l.pending + n >= Threshold)
  <2>1. c = [l EXCEPT !.pending = l.pending + n] /\ l.pending + n \in 0 .. Threshold - 1
      BY <1>1, <1>3 DEF Count
  <2> HIDE DEF c
  <2>2. /\ c \in LogsOf(R) /\ c.bits = l.bits /\ c.disk = l.disk /\ c.recs = l.recs
        /\ c.buf = l.buf /\ c.pending = l.pending + n
      BY <2>1 DEF LogsOf
  <2> QED BY <2>2 DEF Eff, c
<1> QED BY <1>2, <1>3

LEMMA ForcedLog ==
    ASSUME NEW R, NEW l \in LogsOf(R)
    PROVE  LET c == ForcePersist(l)
           IN  /\ c \in LogsOf(R) /\ c.bits = l.bits /\ c.pending = 0
               /\ \A i \in Slots : Eff(c, i) = Eff(l, i)
               /\ c = persistBitmap(l) \/ (c = l /\ l.pending = 0)
<1>1. l.pending \in 0 .. Threshold - 1 /\ Threshold \in Nat
    BY ThresholdAssumption DEF LogsOf
<1>2. CASE l.pending > 0
  <2>1. ForcePersist(l) = persistBitmap(l)
      BY <1>2 DEF ForcePersist
  <2> QED BY <2>1, PersistedLog
<1>3. CASE ~(l.pending > 0)
  <2>1. ForcePersist(l) = l
      BY <1>3 DEF ForcePersist
  <2> QED BY <1>1, <1>3, <2>1
<1> QED BY <1>2, <1>3

\* What is left of a log when the process is gone.
LEMMA KilledLog ==
    ASSUME NEW R, NEW l \in LogsOf(R), NEW w \in BOOLEAN
    PROVE  LET k == Killed(l, w)
           IN  /\ k \in LogsOf(R) /\ k.bits = {} /\ k.disk = l.disk /\ k.buf = NoBuf
               /\ k.pending = 0
               /\ (\A i \in Slots : k.recs[i] = Eff(l, i)) \/ (~w /\ k.recs = l.recs)
<1> DEFINE f == IF w THEN Flushed(l) ELSE l
           k == Killed(l, w)
<1>1. /\ f \in LogsOf(R) /\ f.disk = l.disk
      /\ (\A i \in Slots : f.recs[i] = Eff(l, i)) \/ (~w /\ f.recs = l.recs)
    BY FlushedLog
<1>2. k = [f EXCEPT !.bits = {}, !.buf = NoBuf, !.pending = 0]
    BY DEF Killed
<1>3. 0 \in 0 .. Threshold - 1 /\ NoBuf \in [slot : Slots \cup {-1}, rec : R \cup {NoRec}]
    BY ThresholdAssumption DEF NoBuf
<1> HIDE DEF f, k
<1>4. /\ k \in LogsOf(R) /\ k.bits = {} /\ k.disk = f.disk /\ k.buf = NoBuf
      /\ k.pending = 0 /\ k.recs = f.recs
    BY <1>1, <1>2, <1>3 DEF LogsOf
<1> QED BY <1>1, <1>4 DEF k

LEMMA BitsLog ==
    ASSUME NEW R, NEW l \in LogsOf(R), NEW S \in SUBSET Slots
    PROVE  LET b == [l EXCEPT !.bits = S]
           IN  /\ b \in LogsOf(R) /\ b.bits = S /\ b.disk = l.disk /\ b.recs = l.recs
               /\ b.buf = l.buf /\ b.pending = l.pending
               /\ \A i \in Slots : Eff(b, i) = Eff(l, i)
<1> DEFINE b == [l EXCEPT !.bits = S]
<1>1. /\ b \in LogsOf(R) /\ b.bits = S /\ b.disk = l.disk /\ b.recs = l.recs
      /\ b.buf = l.buf /\ b.pending = l.pending
    BY DEF LogsOf
<1> HIDE DEF b
<1> QED BY <1>1 DEF Eff, b

-----------------------------------------------------------------------------
(* Records before bits. *)

LEMMA EffWritten ==
    ASSUME NEW R, NEW l \in LogsOf(R), NEW res, WellWritten(l, res)
    PROVE  \A i \in l.disk : Eff(l, i) # NoRec
BY DEF WellWritten, Eff, LogsOf

LEMMA WellWrite ==
    ASSUME NEW R, NEW l \in LogsOf(R), NEW s \in Slots, NEW r \in R, r # NoRec,
           NEW res, WellWritten(l, res)
    PROVE  WellWritten(writeRecordToSlot(l, s, r), res \ {s})
<1> DEFINE w == writeRecordToSlot(l, s, r)
<1>1. /\ w \in LogsOf(R) /\ w.bits = l.bits /\ w.disk = l.disk
      /\ w.buf.slot = s /\ w.buf.rec = r
      /\ \A i \in Slots : w.recs[i] = Eff(l, i) /\ Eff(w, i) = IF i = s THEN r ELSE Eff(l, i)
    BY WrittenLog
<1> HIDE DEF w
<1>2. l.bits \subseteq Slots /\ l.disk \subseteq Slots
    BY DEF LogsOf
<1>3. \A i \in l.disk : Eff(l, i) # NoRec
    BY EffWritten
<1> QED BY <1>1, <1>2, <1>3 DEF WellWritten, w

LEMMA WellPersist ==
    ASSUME NEW R, NEW l \in LogsOf(R), WellWritten(l, {})
    PROVE  WellWritten(persistBitmap(l), {})
<1> DEFINE p == persistBitmap(l)
<1>1. /\ p.bits = l.bits /\ p.disk = l.bits /\ p.buf = NoBuf
      /\ \A i \in Slots : p.recs[i] = Eff(l, i) /\ Eff(p, i) = Eff(l, i)
    BY PersistedLog
<1> HIDE DEF p
<1>2. l.bits \subseteq Slots /\ NoBuf.slot = -1
    BY DEF LogsOf, NoBuf
<1> QED BY <1>1, <1>2, NoSlot DEF WellWritten, p

LEMMA WellCount ==
    ASSUME NEW R, NEW l \in LogsOf(R), NEW n \in Nat, WellWritten(l, {})
    PROVE  WellWritten(Count(l, n), {})
<1> DEFINE c == Count(l, n)
<1>1. /\ c.bits = l.bits
      /\ \A i \in Slots : Eff(c, i) = Eff(l, i)
      /\ \/ c = persistBitmap(l)
         \/ c.disk = l.disk /\ c.recs = l.recs /\ c.buf = l.buf
    BY CountedLog
<1> HIDE DEF c
<1>2. CASE c = persistBitmap(l)
    BY <1>2, WellPersist DEF c
<1>3. CASE c.disk = l.disk /\ c.recs = l.recs /\ c.buf = l.buf
  <2>1. l.bits \subseteq Slots
      BY DEF LogsOf
  <2> QED BY <1>1, <1>3, <2>1 DEF WellWritten, c
<1> QED BY <1>1, <1>2, <1>3

LEMMA WellForce ==
    ASSUME NEW R, NEW l \in LogsOf(R), WellWritten(l, {})
    PROVE  WellWritten(ForcePersist(l), {})
BY WellPersist DEF ForcePersist

LEMMA WellFlush ==
    ASSUME NEW R, NEW l \in LogsOf(R), NEW res, WellWritten(l, res)
    PROVE  WellWritten(Flushed(l), res)
<1> DEFINE f == Flushed(l)
<1>1. /\ f.bits = l.bits /\ f.disk = l.disk /\ f.buf = NoBuf
      /\ \A i \in Slots : f.recs[i] = Eff(l, i) /\ Eff(f, i) = Eff(l, i)
    BY FlushedLog
<1> HIDE DEF f
<1>2. l.bits \subseteq Slots /\ l.disk \subseteq Slots /\ NoBuf.slot = -1
    BY DEF LogsOf, NoBuf
<1>3. \A i \in l.disk : Eff(l, i) # NoRec
    BY EffWritten
<1> QED BY <1>1, <1>2, <1>3, NoSlot DEF WellWritten, f

LEMMA WellKilled ==
    ASSUME NEW R, NEW l \in LogsOf(R), NEW w \in BOOLEAN, NEW res, WellWritten(l, res)
    PROVE  WellWritten(Killed(l, w), {})
<1> DEFINE k == Killed(l, w)
<1>1. /\ k.bits = {} /\ k.disk = l.disk /\ k.buf = NoBuf
      /\ (\A i \in Slots : k.recs[i] = Eff(l, i)) \/ k.recs = l.recs
    BY KilledLog
<1> HIDE DEF k
<1>2. l.disk \subseteq Slots /\ NoBuf.slot = -1
    BY DEF LogsOf, NoBuf
<1>3. \A i \in l.disk : Eff(l, i) # NoRec /\ l.recs[i] # NoRec
    BY EffWritten DEF WellWritten
<1> QED BY <1>1, <1>2, <1>3, NoSlot DEF WellWritten, k

-----------------------------------------------------------------------------
(* Operations keep a log in order. *)

LEMMA SlotCount == IsFiniteSet(Slots) /\ Cardinality(Slots) = NumFiles * MaxStarts
<1>1. NumFiles * MaxStarts \in Nat
    BY SlotsAssumption
<1>2. Slots = 0 .. NumFiles * MaxStarts - 1
    BY SlotsAssumption
<1> QED BY <1>1, <1>2, FS_Interval

LEMMA Smaller ==
    ASSUME NEW B \in SUBSET Slots, NEW A \in SUBSET B
    PROVE  /\ IsFiniteSet(A) /\ Cardinality(A) \in Nat /\ Cardinality(B) \in Nat
           /\ Cardinality(A) <= Cardinality(B)
<1>1. IsFiniteSet(B)
    BY SlotCount, FS_Subset
<1> QED BY <1>1, FS_Subset, FS_CardinalityType

LEMMA OkPersist ==
    ASSUME NEW R, NEW l, NEW n, LogOk(R, l, {}, n)
    PROVE  LogOk(R, persistBitmap(l), {}, n)
BY PersistedLog, WellPersist DEF LogOk

LEMMA OkCount ==
    ASSUME NEW R, NEW l, NEW n, NEW m \in Nat, LogOk(R, l, {}, n)
    PROVE  LogOk(R, Count(l, m), {}, n)
<1>1. /\ Count(l, m) \in LogsOf(R) /\ Count(l, m).bits = l.bits
      /\ Count(l, m) = persistBitmap(l) \/ Count(l, m).disk = l.disk
    BY CountedLog DEF LogOk
<1>2. Count(l, m).disk \in {l.disk, l.bits}
    BY <1>1, PersistedLog DEF LogOk
<1> QED BY <1>1, <1>2, WellCount DEF LogOk

LEMMA OkForce ==
    ASSUME NEW R, NEW l, NEW n, LogOk(R, l, {}, n)
    PROVE  LogOk(R, ForcePersist(l), {}, n)
BY OkPersist DEF ForcePersist

LEMMA OkFlush ==
    ASSUME NEW R, NEW l, NEW res, NEW n, LogOk(R, l, res, n)
    PROVE  LogOk(R, Flushed(l), res, n)
BY FlushedLog, WellFlush DEF LogOk

LEMMA OkKilled ==
    ASSUME NEW R, NEW l, NEW res, NEW n \in Nat, NEW w \in BOOLEAN, LogOk(R, l, res, n)
    PROVE  LogOk(R, Killed(l, w), {}, n)
<1>1. l \in LogsOf(R) /\ WellWritten(l, res) /\ Cardinality(l.disk) <= n
    BY DEF LogOk
<1>2. Killed(l, w) \in LogsOf(R) /\ Killed(l, w).bits = {} /\ Killed(l, w).disk = l.disk
    BY <1>1, KilledLog
<1>3. WellWritten(Killed(l, w), {})
    BY <1>1, WellKilled
<1>4. Cardinality({}) <= n
    BY FS_EmptySet
<1> QED BY <1>1, <1>2, <1>3, <1>4 DEF LogOk

LEMMA OkWrite ==
    ASSUME NEW R, NEW l, NEW res, NEW n, NEW s \in Slots, NEW r \in R, r # NoRec,
           LogOk(R, l, res, n)
    PROVE  LogOk(R, writeRecordToSlot(l, s, r), res \ {s}, n)
BY WrittenLog, WellWrite DEF LogOk

\* The bitmap in memory becomes S.
LEMMA OkBits ==
    ASSUME NEW R, NEW l, NEW res, NEW res2, NEW n, NEW m, NEW S \in SUBSET Slots,
           LogOk(R, l, res, n), Cardinality(S) <= m, Cardinality(l.disk) <= m,
           \A i \in S : i \in res2 \/ (i \in l.bits /\ i \notin res) \/ i \in l.disk
    PROVE  LogOk(R, [l EXCEPT !.bits = S], res2, m)
<1> DEFINE b == [l EXCEPT !.bits = S]
<1>1. l \in LogsOf(R) /\ WellWritten(l, res)
    BY DEF LogOk
<1>2. /\ b \in LogsOf(R) /\ b.bits = S /\ b.disk = l.disk /\ b.recs = l.recs /\ b.buf = l.buf
      /\ \A i \in Slots : Eff(b, i) = Eff(l, i)
    BY <1>1, BitsLog
<1> HIDE DEF b
<1>3. \A i \in l.disk : Eff(l, i) # NoRec
    BY <1>1, EffWritten
<1>4. WellWritten(b, res2)
    BY <1>1, <1>2, <1>3 DEF WellWritten
<1> QED BY <1>2, <1>4 DEF LogOk, b

LEMMA OkMore ==
    ASSUME NEW R, NEW l, NEW res, NEW n \in Int, NEW m \in Int, n <= m, LogOk(R, l, res, n)
    PROVE  LogOk(R, l, res, m)
<1>1. l.bits \in SUBSET Slots /\ l.disk \in SUBSET Slots
    BY DEF LogOk, LogsOf
<1>2. Cardinality(l.bits) \in Nat /\ Cardinality(l.disk) \in Nat
    BY <1>1, Smaller
<1> QED BY <1>2 DEF LogOk

\* A slot given back.
LEMMA OkLess ==
    ASSUME NEW R, NEW l, NEW n \in Int, NEW x, LogOk(R, l, {}, n)
    PROVE  LogOk(R, [l EXCEPT !.bits = @ \ {x}], {}, n)
<1> DEFINE S == l.bits \ {x}
<1>1. l.bits \in SUBSET Slots /\ l.disk \in SUBSET Slots /\ S \in SUBSET l.bits /\ l \in LogsOf(R)
    BY DEF LogOk, LogsOf
<1>2. [l EXCEPT !.bits = @ \ {x}] = [l EXCEPT !.bits = S]
    OBVIOUS
<1> HIDE DEF S
<1>3. Cardinality(S) <= n
  <2>1. Cardinality(S) \in Nat /\ Cardinality(l.bits) \in Nat /\ Cardinality(S) <= Cardinality(l.bits)
      BY <1>1, Smaller
  <2> QED BY <2>1 DEF LogOk
<1>4. LogOk(R, [l EXCEPT !.bits = S], {}, n)
  <2>1. S \in SUBSET Slots /\ Cardinality(l.disk) <= n
      BY <1>1 DEF LogOk
  <2> QED BY <1>1, <1>3, <2>1, OkBits
<1> QED BY <1>2, <1>4

LEMMA OkDelete ==
    ASSUME NEW R, NEW l, NEW n \in Int, NEW x, LogOk(R, l, {}, n)
    PROVE  LogOk(R, deleteFile(l, x), {}, n)
BY OkLess, OkCount DEF deleteFile

\* FileManager::createFile: a record and a bit.
LEMMA OkNewFile ==
    ASSUME NEW l, NEW n \in Int, NEW m \in Int, NEW x \in Slots, LogOk({Valid}, l, {}, n), n <= m,
           Cardinality(l.bits) < m
    PROVE  /\ LogOk({Valid}, NewFile(l, x), {}, m)
           /\ NewFile(l, x).bits = l.bits \cup {x}
<1> DEFINE w == writeRecordToSlot(l, x, Valid)
           b == [w EXCEPT !.bits = l.bits \cup {x}]
<1>1. /\ l \in LogsOf({Valid}) /\ Valid \in {Valid} /\ Valid # NoRec
      /\ l.bits \in SUBSET Slots /\ l.disk \in SUBSET Slots
    BY RecordAssumption DEF LogOk, LogsOf
<1>2. /\ w \in LogsOf({Valid}) /\ w.bits = l.bits /\ w.disk = l.disk
      /\ \A i \in Slots : Eff(w, i) = IF i = x THEN Valid ELSE Eff(l, i)
    BY <1>1, WrittenLog
<1>3. LogOk({Valid}, w, {} \ {x}, n) /\ {} \ {x} = {}
    BY <1>1, OkWrite
<1>4. LogOk({Valid}, w, {}, n)
    BY <1>3
<1>5. NewFile(l, x) = Count(b, 1)
    BY <1>2 DEF NewFile
<1> HIDE DEF w
<1>6. b \in LogsOf({Valid}) /\ b.bits = l.bits \cup {x} /\ b.disk = l.disk
      /\ b.buf = w.buf /\ b.recs = w.recs /\ \A i \in Slots : Eff(b, i) = Eff(w, i)
    BY <1>1, <1>2, BitsLog
<1> HIDE DEF b
<1>7. WellWritten(b, {})
  <2>1. \A i \in l.disk : w.recs[i] # NoRec
      BY <1>2, <1>4 DEF LogOk, WellWritten
  <2>2. w.buf.slot \in Slots => w.buf.rec # NoRec
      BY <1>4 DEF LogOk, WellWritten
  <2>3. \A i \in l.bits : Eff(w, i) # NoRec
      BY <1>2, <1>4 DEF LogOk, WellWritten
  <2>4. Eff(w, x) # NoRec
      BY <1>1, <1>2
  <2> QED BY <1>1, <1>6, <2>1, <2>2, <2>3, <2>4 DEF WellWritten
<1>8. Cardinality(b.bits) <= m /\ Cardinality(b.disk) <= m
  <2>1. IsFiniteSet(l.bits) /\ Cardinality(l.bits) \in Nat /\ Cardinality(l.disk) \in Nat
      BY <1>1, Smaller
  <2>2. Cardinality(l.bits \cup {x}) <= Cardinality(l.bits) + 1
      BY <2>1, FS_AddElement
  <2>3. Cardinality(l.bits \cup {x}) \in Nat
      BY <1>1, Smaller, l.bits \cup {x} \in SUBSET Slots
  <2>4. Cardinality(l.disk) <= n
      BY DEF LogOk
  <2> QED BY <1>6, <2>1, <2>2, <2>3, <2>4
<1>9. LogOk({Valid}, b, {}, m)
    BY <1>6, <1>7, <1>8 DEF LogOk
<1>10. Count(b, 1).bits = b.bits
    BY <1>6, CountedLog
<1> QED BY <1>5, <1>6, <1>9, <1>10, OkCount

\* A device's log as FileManager loads it: every bit has its record.
LEMMA OkLoaded ==
    ASSUME NEW l, NEW n \in Nat, LogOk({Valid}, l, {}, n)
    PROVE  /\ NvmeLoaded(l).bits = l.disk /\ NvmeLoaded(l).disk = l.disk
           /\ LogOk({Valid}, NvmeLoaded(l), {}, n)
<1> DEFINE bad == {i \in l.disk : l.recs[i] # Valid}
           b == [l EXCEPT !.bits = l.disk]
<1>1. /\ l \in LogsOf({Valid}) /\ l.disk \in SUBSET Slots /\ l.recs \in [Slots -> {Valid, NoRec}]
      /\ \A i \in l.disk : l.recs[i] # NoRec
    BY DEF LogOk, LogsOf, WellWritten
<1>2. bad = {}
    BY <1>1
<1>3. PICK p \in {0, 1} : p = IF l.stale \/ bad # {} THEN 1 ELSE 0
    OBVIOUS
<1>4. Cardinality(bad) = 0 /\ 0 + p = p /\ p \in 0 .. Threshold - 1
    BY <1>2, <1>3, FS_EmptySet, ThresholdAssumption
<1>5. NvmeLoaded(l) = [l EXCEPT !.bits = l.disk \ bad, !.pending = Cardinality(bad) + p]
    BY <1>3 DEF NvmeLoaded
<1>6. Cardinality(l.disk) <= n
    BY DEF LogOk
<1>7. LogOk({Valid}, b, {}, n)
    BY <1>1, <1>6, OkBits
<1>8. NvmeLoaded(l) = [b EXCEPT !.pending = p] /\ b.bits = l.disk /\ b.disk = l.disk
    BY <1>1, <1>2, <1>4, <1>5 DEF LogsOf
<1> HIDE DEF b, bad
<1>9. /\ NvmeLoaded(l) \in LogsOf({Valid}) /\ NvmeLoaded(l).bits = b.bits
      /\ NvmeLoaded(l).disk = b.disk /\ NvmeLoaded(l).recs = b.recs /\ NvmeLoaded(l).buf = b.buf
    BY <1>4, <1>7, <1>8 DEF LogOk, LogsOf
<1> QED BY <1>7, <1>8, <1>9 DEF LogOk, WellWritten, Eff

-----------------------------------------------------------------------------
(* Free slots. *)

\* The bounds on a log leave room for the files of this start.
LEMMA Products ==
    ASSUME NEW a \in Nat, NEW b \in Nat, a < b
    PROVE  /\ NumFiles * a \in Nat /\ NumFiles * b \in Nat /\ NumFiles \in Nat \ {0}
           /\ NumFiles * (a + 1) = NumFiles * a + NumFiles
           /\ NumFiles * a + NumFiles <= NumFiles * b
<1>1. NumFiles \in Nat \ {0}
    BY SlotsAssumption
<1>2. PICK d \in Nat : b = a + 1 + d
  <2>1. b - a - 1 \in Nat /\ b = a + 1 + (b - a - 1)
      OBVIOUS
  <2> QED BY <2>1
<1>3. /\ NumFiles * b = NumFiles * a + NumFiles + NumFiles * d /\ NumFiles * d \in Nat
      /\ NumFiles * a \in Nat /\ NumFiles * b \in Nat
      /\ NumFiles * (a + 1) = NumFiles * a + NumFiles
    BY <1>1, <1>2
<1> QED BY <1>1, <1>3

LEMMA FreeSlots ==
    ASSUME NEW R, glog \in LogsOf(R), NEW n \in Nat,
           Cardinality(glog.bits) + n <= NumFiles * MaxStarts
    PROVE  /\ findMultipleFreeSlots(n) \in Seq(Slots)
           /\ Len(findMultipleFreeSlots(n)) = n
           /\ DOMAIN findMultipleFreeSlots(n) = 1 .. n
           /\ Injective(findMultipleFreeSlots(n))
           /\ \A k \in 1 .. n :
                 /\ findMultipleFreeSlots(n)[k] \in Slots \ glog.bits
                 /\ Cardinality({x \in Slots \ glog.bits : x < findMultipleFreeSlots(n)[k]}) = k - 1
<1> DEFINE free == Slots \ glog.bits
           f == findMultipleFreeSlots(n)
<1>1. glog.bits \in SUBSET Slots /\ free \in SUBSET Slots /\ free \in SUBSET Nat
    BY NoSlot DEF LogsOf
<1>2. /\ IsFiniteSet(free) /\ Cardinality(free) \in Nat /\ Cardinality(glog.bits) \in Nat
      /\ IsFiniteSet(glog.bits)
    BY <1>1, Smaller
<1>3. n <= Cardinality(free)
  <2>1. free \cup glog.bits = Slots
      BY <1>1
  <2>2. Cardinality(Slots) <= Cardinality(free) + Cardinality(glog.bits)
    <3> HIDE DEF free
    <3> QED BY <1>2, <2>1, UnionBound
  <2>3. NumFiles * MaxStarts \in Nat
      BY SlotsAssumption
  <2> QED BY <1>2, <2>2, <2>3, SlotCount
<1>4. f = [k \in 1 .. n |-> CHOOSE s \in free : Cardinality({x \in free : x < s}) = k - 1]
    BY DEF findMultipleFreeSlots
<1> HIDE DEF f, free
<1>5. ASSUME NEW k \in 1 .. n
      PROVE  f[k] \in free /\ Cardinality({x \in free : x < f[k]}) = k - 1
  <2>1. k \in 1 .. Cardinality(free)
      BY <1>2, <1>3
  <2>2. \E s \in free : Cardinality({x \in free : x < s}) = k - 1
      BY <1>1, <1>2, <2>1, KthLeast
  <2>3. f[k] = CHOOSE s \in free : Cardinality({x \in free : x < s}) = k - 1
      BY <1>4
  <2> QED BY <2>2, <2>3
<1>6. f \in [1 .. n -> Slots]
    BY <1>1, <1>4, <1>5
<1>7. f \in Seq(Slots) /\ Len(f) = n /\ DOMAIN f = 1 .. n
    BY <1>6, FunctionSeq
<1>8. Injective(f)
  <2> SUFFICES ASSUME NEW i \in 1 .. n, NEW j \in 1 .. n, f[i] = f[j] PROVE i = j
      BY <1>7 DEF Injective
  <2>1. i - 1 = j - 1
      BY <1>5
  <2> QED BY <2>1
<1> QED BY <1>5, <1>7, <1>8 DEF f, free

LEMMA NextFreeSlot ==
    ASSUME NEW R, NEW l \in LogsOf(R), Cardinality(l.bits) < NumFiles * MaxStarts
    PROVE  findNextFreeSlot(l) \in Slots \ l.bits
<1> DEFINE free == Slots \ l.bits
<1>1. l.bits \in SUBSET Slots /\ free \subseteq Nat
    BY NoSlot DEF LogsOf
<1>2. free # {}
  <2> SUFFICES ASSUME free = {} PROVE FALSE
      OBVIOUS
  <2>1. l.bits = Slots
      BY <1>1
  <2>2. Cardinality(l.bits) = NumFiles * MaxStarts /\ NumFiles * MaxStarts \in Nat
      BY <2>1, SlotCount, SlotsAssumption
  <2> QED BY <2>2
<1>3. findNextFreeSlot(l) = CHOOSE s \in free : \A x \in free : s <= x
    BY DEF findNextFreeSlot
<1> HIDE DEF free
<1>4. \E s \in free : \A x \in free : s <= x
    BY <1>1, <1>2, NatMin
<1> QED BY <1>3, <1>4 DEF free

LEMMA SetSeq ==
    ASSUME NEW S \in SUBSET Slots
    PROVE  SetToSeq(S) \in Seq(Slots)
<1>1. IsFiniteSet(S) /\ Cardinality(S) \in Nat
    BY Smaller
<1>2. ExistsBijection(1 .. Cardinality(S), S)
    BY <1>1, FS_CardinalityType
<1>3. PICK f : f \in Bijection(1 .. Cardinality(S), S)
    BY <1>2 DEF ExistsBijection
<1>4. f \in [1 .. Cardinality(S) -> S] /\ IsInjective(f)
    BY <1>3 DEF Bijection, Injection, IsInjective
<1>5. SetToSeq(S) \in [1 .. Cardinality(S) -> S]
    BY <1>4 DEF SetToSeq
<1>6. SetToSeq(S) \in [1 .. Cardinality(S) -> Slots]
    BY <1>5
<1> QED BY <1>1, <1>6, FunctionSeq

-----------------------------------------------------------------------------
(* What a step leaves alone. *)

LEMMA RoundsNat ==
    ASSUME LogInv
    PROVE  /\ Rounds \in Nat /\ starts \in Nat /\ NumFiles * Rounds \in Nat
           /\ NumFiles * starts \in Nat /\ Rounds <= starts /\ starts <= MaxStarts
           /\ MaxStarts \in Nat /\ NumFiles \in Nat \ {0}
<1>1. MaxStarts \in Nat /\ NumFiles \in Nat \ {0}
    BY SlotsAssumption
<1>2. starts \in 0 .. MaxStarts /\ (phase # "down" => starts >= 1)
    BY DEF LogInv, OtherTypes, Control
<1>3. Rounds \in Nat /\ Rounds <= starts
    BY <1>1, <1>2 DEF Rounds
<1>4. \A a \in Nat : NumFiles * a \in Nat
    BY <1>1
<1> QED BY <1>1, <1>2, <1>3, <1>4

LEMMA KeepGpuLog ==
    ASSUME GpuLogInv, glog' = glog, Reserved' = Reserved, Rounds' = Rounds
    PROVE  GpuLogInv'
BY DEF GpuLogInv

LEMMA KeepNvmeLogs ==
    ASSUME NvmeLogInv, nlog' = nlog, Rounds' = Rounds, starts' = starts,
           \A d \in Devices : at'[d] \in {"record", "file"} =>
               at[d] \in {"record", "file"} /\ todo'[d] = todo[d]
    PROVE  NvmeLogInv'
BY DEF NvmeLogInv

\* One device's log becomes l.
LEMMA StepNvmeLog ==
    ASSUME NvmeLogInv, NEW d \in Devices, NEW l,
           nlog' = [nlog EXCEPT ![d] = l], LogOk({Valid}, l, {}, NumFiles * Rounds),
           Rounds' = Rounds, starts' = starts,
           \A u \in Devices : u # d => at'[u] = at[u] /\ todo'[u] = todo[u],
           at'[d] \in {"record", "file"} =>
               Cardinality(l.bits) <= NumFiles * (starts - 1) + Len(todo'[d])
    PROVE  NvmeLogInv'
<1>1. DOMAIN nlog = Devices /\ nlog = [u \in Devices |-> nlog[u]]
    BY DEF NvmeLogInv
<1>2. nlog' = [u \in Devices |-> IF u = d THEN l ELSE nlog[u]]
    BY <1>1
<1>3. DOMAIN nlog' = Devices /\ nlog' = [u \in Devices |-> nlog'[u]]
    BY <1>2
<1>4. nlog'[d] = l /\ \A u \in Devices : u # d => nlog'[u] = nlog[u]
    BY <1>2
<1>5. ASSUME NEW u \in Devices
      PROVE  /\ LogOk({Valid}, nlog'[u], {}, NumFiles * Rounds')
             /\ at'[u] \in {"record", "file"} =>
                   Cardinality(nlog'[u].bits) <= NumFiles * (starts' - 1) + Len(todo'[u])
  <2>1. CASE u = d
      BY <1>4, <2>1
  <2>2. CASE u # d
      BY <1>4, <2>2 DEF NvmeLogInv
  <2> QED BY <2>1, <2>2
<1> QED BY <1>3, <1>5 DEF NvmeLogInv

\* Only the step and the list of device d change.
LEMMA StepControl ==
    ASSUME LogInv, NEW d \in Devices, UNCHANGED <<phase, slots, done, deleting, desc, starts>>,
           phase # "records",
           \A u \in Devices : u # d => at'[u] = at[u] /\ todo'[u] = todo[u],
           StepOf(d)'
    PROVE  Control'
<1>1. \A u \in Devices : u # d => StepOf(u)'
    BY DEF LogInv, Control, StepOf, Deleting
<1> QED BY <1>1 DEF LogInv, Control

-----------------------------------------------------------------------------
(* Start and removal of NVMe files. *)

LEMMA InitLog == Init => LogInv
<1> SUFFICES ASSUME Init PROVE LogInv
    OBVIOUS
<1>1. MaxStarts \in Nat /\ NumFiles \in Nat \ {0} /\ NumFiles * 0 = 0
    BY SlotsAssumption
<1>2. OtherTypes
  <2>1. desc \in [Slots -> Record \cup {NoRec}] /\ fds \in [Devices -> [Slots -> Slots \cup {NoRec}]]
      BY DEF Init, NoDesc, NoFds
  <2>2. files \in [Devices -> SUBSET Slots] /\ todo \in [Devices -> Seq(Slots)]
      BY DEF Init, All
  <2>3. at \in [Devices -> {"idle"}]
      BY DEF Init, All
  <2>4. starts \in 0 .. MaxStarts /\ done \in 0 .. NumFiles
      BY <1>1 DEF Init
  <2>5. slots \in Seq(Slots) /\ free_list \in Seq(Slots) /\ opened \subseteq Slots
      BY DEF Init
  <2>6. phase \in Phases /\ shape \in Shapes /\ header \in {"none", "empty", "valid"}
        /\ deleting \in Slots \cup {-1}
      BY DEF Init, Phases
  <2>7. reset \in BOOLEAN /\ lossy \in BOOLEAN /\ io_failed \in BOOLEAN
      BY DEF Init
  <2> QED BY <2>1, <2>2, <2>3, <2>4, <2>5, <2>6, <2>7 DEF OtherTypes
<1>3. Control
    BY DEF Init, Control, StepOf, Deleting, All
<1>4. ASSUME NEW R, NEW res PROVE LogOk(R, EmptyLog, res, 0)
  <2>1. EmptyLog \in LogsOf(R)
    <3>1. 0 \in 0 .. Threshold - 1
        BY ThresholdAssumption
    <3> QED BY <3>1 DEF EmptyLog, LogsOf, NoBuf
  <2>2. WellWritten(EmptyLog, res)
      BY NoSlot DEF EmptyLog, WellWritten, NoBuf
  <2> QED BY <2>1, <2>2, FS_EmptySet DEF LogOk, EmptyLog
<1>5. NumFiles * Rounds = 0
    BY <1>1 DEF Init, Rounds
<1>6. GpuLogInv
    BY <1>4, <1>5 DEF GpuLogInv, Init
<1>7. NvmeLogInv
    BY <1>4, <1>5 DEF NvmeLogInv, Init, All
<1> QED BY <1>2, <1>3, <1>6, <1>7 DEF LogInv

LEMMA StartLog ==
    ASSUME LogInv, NEW sh \in Shapes, NEW r \in BOOLEAN, Start(sh, r)
    PROVE  LogInv'
<1>1. /\ starts \in Nat /\ NumFiles * starts \in Nat /\ MaxStarts \in Nat /\ starts < MaxStarts
      /\ phase = "down" /\ slots = << >> /\ deleting = -1
      /\ \A d \in Devices : at[d] = "idle"
  <2>1. phase = "down" /\ starts < MaxStarts
      BY DEF Start
  <2>2. \A d \in Devices : at[d] = "idle"
      BY <2>1 DEF LogInv, OtherTypes, Control, StepOf, Deleting
  <2> QED BY <2>1, <2>2, RoundsNat DEF LogInv, Control
<1>2. /\ starts' = starts + 1 /\ phase' \in {"new_log", "reset", "check"}
      /\ UNCHANGED <<slots, done, free_list, opened, fds, files, at, todo, deleting, lossy>>
    BY DEF Start
<1>3. Rounds = starts /\ Rounds' = starts
    BY <1>1, <1>2 DEF Rounds
<1>4. Reserved = {} /\ Reserved' = {}
    BY <1>1, <1>2 DEF Reserved
<1>5. OtherTypes'
  <2>1. desc' \in [Slots -> Record \cup {NoRec}]
    <3>1. glog.recs \in [Slots -> Record \cup {Empty} \cup {NoRec}]
        BY DEF LogInv, GpuLogInv, LogOk, LogsOf
    <3>2. loadFromFile(glog) \in [Slots -> Record \cup {NoRec}]
        BY <3>1 DEF loadFromFile
    <3>3. NoDesc \in [Slots -> Record \cup {NoRec}] /\ desc \in [Slots -> Record \cup {NoRec}]
        BY DEF NoDesc, LogInv, OtherTypes
    <3> QED BY <3>2, <3>3 DEF Start
  <2>2. starts' \in 0 .. MaxStarts
      BY <1>1, <1>2
  <2>3. header' \in {"none", "empty", "valid"}
      BY DEF Start, LogInv, OtherTypes
  <2> QED BY <1>2, <2>1, <2>2, <2>3 DEF Start, LogInv, OtherTypes, Phases
<1>6. Control'
    BY <1>1, <1>2 DEF LogInv, Control, StepOf, Deleting
<1>7. GpuLogInv'
  <2>1. LogOk(Record \cup {Empty}, glog, {}, NumFiles * starts)
      BY <1>3, <1>4 DEF LogInv, GpuLogInv
  <2>2. CASE header = "none"
      BY <1>3, <1>4, <2>1, <2>2 DEF Start, GpuLogInv
  <2>3. CASE header # "none"
    <3> DEFINE S == IF header = "valid" THEN glog.disk ELSE {}
    <3>1. glog' = [glog EXCEPT !.bits = S]
        BY <2>3 DEF Start
    <3>2. /\ S \in SUBSET Slots /\ glog.disk \in SUBSET Slots /\ S \in SUBSET glog.disk
          /\ Cardinality(glog.disk) <= NumFiles * starts
        BY <2>1 DEF LogOk, LogsOf
    <3> HIDE DEF S
    <3>3. Cardinality(S) <= NumFiles * starts
      <4>1. Cardinality(S) \in Nat /\ Cardinality(glog.disk) \in Nat /\ Cardinality(S) <= Cardinality(glog.disk)
          BY <3>2, Smaller
      <4> QED BY <1>1, <3>2, <4>1
    <3>4. LogOk(Record \cup {Empty}, glog', {}, NumFiles * starts)
        BY <2>1, <3>1, <3>2, <3>3, OkBits
    <3> QED BY <1>3, <1>4, <3>4 DEF GpuLogInv
  <2> QED BY <2>2, <2>3
<1>8. NvmeLogInv'
  <2>1. nlog' = [d \in Devices |-> NvmeLoaded(nlog[d])]
      BY DEF Start
  <2>2. \A d \in Devices : LogOk({Valid}, nlog[d], {}, NumFiles * starts)
      BY <1>3 DEF LogInv, NvmeLogInv
  <2>3. \A d \in Devices : LogOk({Valid}, nlog'[d], {}, NumFiles * starts)
      BY <1>1, <2>1, <2>2, OkLoaded
  <2> QED BY <1>1, <1>2, <1>3, <2>1, <2>3 DEF NvmeLogInv
<1> QED BY <1>5, <1>6, <1>7, <1>8 DEF LogInv

LEMMA InitializeLog == ASSUME LogInv, initializeLogFile PROVE LogInv'
<1>1. Rounds' = Rounds /\ Reserved' = Reserved
    BY DEF initializeLogFile, Rounds, Reserved, gpuVars
<1>2. OtherTypes'
    BY DEF LogInv, OtherTypes, initializeLogFile, gpuVars, nvmeVars, history, Phases
<1>3. Control'
    BY DEF LogInv, Control, StepOf, Deleting, initializeLogFile, gpuVars, nvmeVars
<1>4. GpuLogInv'
    BY <1>1, KeepGpuLog DEF LogInv, initializeLogFile, gpuVars
<1>5. NvmeLogInv'
    BY <1>1, KeepNvmeLogs DEF LogInv, initializeLogFile, nvmeVars
<1> QED BY <1>2, <1>3, <1>4, <1>5 DEF LogInv

\* Facts about a device's list.
LEMMA TodoTail ==
    ASSUME LogInv, NEW d \in Devices
    PROVE  /\ todo[d] \in Seq(Slots)
           /\ todo[d] # << >> =>
                /\ Head(todo[d]) \in Slots /\ Tail(todo[d]) \in Seq(Slots)
                /\ Last(todo[d]) \in Slots /\ Front(todo[d]) \in Seq(Slots)
                /\ Len(Tail(todo[d])) = Len(todo[d]) - 1
<1>1. todo[d] \in Seq(Slots)
    BY DEF LogInv, OtherTypes
<1>2. ASSUME todo[d] # << >>
      PROVE  Head(todo[d]) \in Slots /\ Tail(todo[d]) \in Seq(Slots)
             /\ Len(Tail(todo[d])) = Len(todo[d]) - 1
    BY <1>1, <1>2
<1>3. ASSUME todo[d] # << >>
      PROVE  Last(todo[d]) \in Slots /\ Front(todo[d]) \in Seq(Slots)
    BY <1>1, <1>3 DEF Last, Front
<1> QED BY <1>1, <1>2, <1>3

LEMMA UnlinkNextLog == ASSUME LogInv, NEW d \in Devices, UnlinkNext(d) PROVE LogInv'
<1>1. /\ UNCHANGED <<phase, starting, gpuVars, nlog, deleting, history>>
      /\ at[d] = "remove" /\ todo[d] # << >>
    BY DEF UnlinkNext
<1>2. at \in [Devices -> {"idle", "remove", "unlinked", "purge", "purged", "record",
                           "file", "created", "close"}]
      /\ todo \in [Devices -> Seq(Slots)] /\ files \in [Devices -> SUBSET Slots]
    BY DEF LogInv, OtherTypes
<1>3. /\ Rounds' = Rounds /\ Reserved' = Reserved
    BY <1>1 DEF Rounds, Reserved, gpuVars, starting
<1>4. phase \in {"create", "reset"} /\ (phase = "create" \/ Deleting)
    BY <1>1 DEF LogInv, Control, StepOf, Deleting
<1>5. CASE Head(todo[d]) \in nlog[d].bits
  <2>1. /\ files' = [files EXCEPT ![d] = @ \ {Head(todo[d])}]
        /\ at' = [at EXCEPT ![d] = "unlinked"] /\ todo' = todo
      BY <1>5 DEF UnlinkNext
  <2>2. OtherTypes'
      BY <1>1, <1>2, <2>1 DEF LogInv, OtherTypes, starting, gpuVars, history
  <2>3. at'[d] = "unlinked" /\ \A u \in Devices : u # d => at'[u] = at[u]
      BY <1>2, <2>1
  <2>4. StepOf(d)'
      BY <1>1, <1>4, <2>1, <2>3 DEF StepOf, Deleting
  <2>5. Control'
      BY <1>1, <1>4, <2>1, <2>3, <2>4, StepControl DEF starting, gpuVars
  <2>6. GpuLogInv' /\ NvmeLogInv'
      BY <1>1, <1>3, <2>1, <2>3, KeepGpuLog, KeepNvmeLogs DEF LogInv, starting, gpuVars
  <2> QED BY <2>2, <2>5, <2>6 DEF LogInv
<1>6. CASE Head(todo[d]) \notin nlog[d].bits
  <2>1. /\ todo' = [todo EXCEPT ![d] = Tail(@)] /\ UNCHANGED <<files, at>>
      BY <1>6 DEF UnlinkNext
  <2>2. todo' \in [Devices -> Seq(Slots)]
      BY <1>1, <1>2, <2>1, TodoTail
  <2>3. OtherTypes'
      BY <1>1, <1>2, <2>1, <2>2 DEF LogInv, OtherTypes, starting, gpuVars, history
  <2>4. \A u \in Devices : u # d => todo'[u] = todo[u]
      BY <1>2, <2>1
  <2>5. StepOf(d)'
      BY <1>1, <1>4, <2>1 DEF StepOf, Deleting
  <2>6. Control'
      BY <1>1, <1>4, <2>1, <2>4, <2>5, StepControl DEF starting, gpuVars
  <2>7. GpuLogInv' /\ NvmeLogInv'
      BY <1>1, <1>3, <2>1, <2>4, KeepGpuLog, KeepNvmeLogs DEF LogInv, starting, gpuVars
  <2> QED BY <2>3, <2>6, <2>7 DEF LogInv
<1> QED BY <1>5, <1>6

\* A removed file leaves the device's log and its list.
LEMMA ForgetLog ==
    ASSUME LogInv, NEW d \in Devices,
           \/ at[d] = "unlinked" /\ at' = [at EXCEPT ![d] = "remove"]
           \/ at[d] = "purged" /\ at' = [at EXCEPT ![d] = "purge"],
           LogOk({Valid}, nlog'[d], {}, NumFiles * Rounds),
           nlog' = [nlog EXCEPT ![d] = nlog'[d]],
           todo' = [todo EXCEPT ![d] = Tail(@)],
           UNCHANGED <<phase, starting, gpuVars, files, deleting, history>>
    PROVE  LogInv'
<1>1. at \in [Devices -> {"idle", "remove", "unlinked", "purge", "purged", "record",
                           "file", "created", "close"}]
      /\ todo \in [Devices -> Seq(Slots)]
    BY DEF LogInv, OtherTypes
<1>2. Rounds' = Rounds /\ Reserved' = Reserved
    BY DEF Rounds, Reserved, gpuVars, starting
<1>3. /\ at'[d] \notin {"record", "file"}
      /\ at'[d] = IF at[d] = "unlinked" THEN "remove" ELSE "purge"
      /\ \A u \in Devices : u # d => at'[u] = at[u] /\ todo'[u] = todo[u]
    BY <1>1
<1>4. OtherTypes'
  <2>1. todo[d] # << >>
      BY DEF LogInv, Control, StepOf
  <2>2. todo' \in [Devices -> Seq(Slots)]
      BY <1>1, <2>1, TodoTail
  <2> QED BY <1>1, <2>2 DEF LogInv, OtherTypes, starting, gpuVars, history
<1>5. Control'
  <2>1. phase # "records" /\ StepOf(d)'
      BY <1>3 DEF LogInv, Control, StepOf, Deleting
  <2> QED BY <1>3, <2>1, StepControl DEF starting, gpuVars
<1>6. GpuLogInv'
    BY <1>2, KeepGpuLog DEF LogInv, gpuVars
<1>7. NvmeLogInv'
    BY <1>2, <1>3, StepNvmeLog DEF LogInv, starting
<1> QED BY <1>4, <1>5, <1>6, <1>7 DEF LogInv

LEMMA NvmeOk ==
    ASSUME LogInv, NEW d \in Devices
    PROVE  LogOk({Valid}, nlog[d], {}, NumFiles * Rounds) /\ NumFiles * Rounds \in Int
<1>1. LogOk({Valid}, nlog[d], {}, NumFiles * Rounds)
    BY DEF LogInv, NvmeLogInv
<1>2. NumFiles * Rounds \in Nat
    BY RoundsNat
<1> HIDE DEF Rounds
<1> QED BY <1>1, <1>2

LEMMA ForgetUnlinkedLog == ASSUME LogInv, NEW d \in Devices, ForgetUnlinked(d) PROVE LogInv'
<1>1. /\ nlog'[d] = ForcePersist(deleteFile(nlog[d], Head(todo[d])))
      /\ nlog' = [nlog EXCEPT ![d] = nlog'[d]]
    BY DEF ForgetUnlinked, LogInv, NvmeLogInv
<1>2. LogOk({Valid}, nlog'[d], {}, NumFiles * Rounds)
    BY <1>1, NvmeOk, OkDelete, OkForce
<1> QED BY <1>1, <1>2, ForgetLog DEF ForgetUnlinked

LEMMA ForgetRestLog == ASSUME LogInv, NEW d \in Devices, ForgetRest(d) PROVE LogInv'
<1>1. /\ nlog'[d] = deleteFile(nlog[d], Head(todo[d]))
      /\ nlog' = [nlog EXCEPT ![d] = nlog'[d]]
    BY DEF ForgetRest, LogInv, NvmeLogInv
<1>2. LogOk({Valid}, nlog'[d], {}, NumFiles * Rounds)
  <2>1. LogOk({Valid}, deleteFile(nlog[d], Head(todo[d])), {}, NumFiles * Rounds)
      BY NvmeOk, OkDelete
  <2> QED BY <1>1, <2>1
<1> QED BY <1>1, <1>2, ForgetLog DEF ForgetRest

LEMMA UnlinkRestLog == ASSUME LogInv, NEW d \in Devices, UnlinkRest(d) PROVE LogInv'
<1>1. /\ UNCHANGED <<phase, starting, gpuVars, nlog, todo, deleting, history>>
      /\ at[d] = "purge" /\ todo[d] # << >>
      /\ files' = [files EXCEPT ![d] = @ \ {Head(todo[d])}]
      /\ at' = [at EXCEPT ![d] = "purged"]
    BY DEF UnlinkRest
<1>2. at \in [Devices -> {"idle", "remove", "unlinked", "purge", "purged", "record",
                           "file", "created", "close"}]
      /\ files \in [Devices -> SUBSET Slots]
    BY DEF LogInv, OtherTypes
<1>3. Rounds' = Rounds /\ Reserved' = Reserved
    BY <1>1 DEF Rounds, Reserved, gpuVars, starting
<1>4. at'[d] = "purged" /\ \A u \in Devices : u # d => at'[u] = at[u]
    BY <1>1, <1>2
<1>5. OtherTypes'
    BY <1>1, <1>2 DEF LogInv, OtherTypes, starting, gpuVars, history
<1>6. Control'
  <2>1. phase # "records" /\ StepOf(d)'
      BY <1>1, <1>4 DEF LogInv, Control, StepOf, Deleting
  <2> QED BY <1>1, <1>4, <2>1, StepControl DEF starting, gpuVars
<1>7. GpuLogInv' /\ NvmeLogInv'
    BY <1>1, <1>3, <1>4, KeepGpuLog, KeepNvmeLogs DEF LogInv, starting, gpuVars
<1> QED BY <1>5, <1>6, <1>7 DEF LogInv

\* A device's log is persisted and the device is idle.
LEMMA IdleLog ==
    ASSUME LogInv, NEW d \in Devices, phase \in {"reset_rest", "closing"},
           LogOk({Valid}, nlog'[d], {}, NumFiles * Rounds),
           nlog' = [nlog EXCEPT ![d] = nlog'[d]],
           at' = [at EXCEPT ![d] = "idle"],
           UNCHANGED <<phase, starting, gpuVars, files, todo, deleting, history>>
    PROVE  LogInv'
<1>1. at \in [Devices -> {"idle", "remove", "unlinked", "purge", "purged", "record",
                           "file", "created", "close"}]
    BY DEF LogInv, OtherTypes
<1>2. Rounds' = Rounds /\ Reserved' = Reserved
    BY DEF Rounds, Reserved, gpuVars, starting
<1>3. at'[d] = "idle" /\ \A u \in Devices : u # d => at'[u] = at[u]
    BY <1>1
<1>4. OtherTypes'
    BY <1>1 DEF LogInv, OtherTypes, starting, gpuVars, history
<1>5. Control'
  <2>1. phase # "records" /\ StepOf(d)'
      BY <1>3 DEF LogInv, Control, StepOf, Deleting
  <2> QED BY <1>3, <2>1, StepControl DEF starting, gpuVars
<1>6. GpuLogInv'
    BY <1>2, KeepGpuLog DEF LogInv, gpuVars
<1>7. NvmeLogInv'
    BY <1>2, <1>3, StepNvmeLog DEF LogInv, starting
<1> QED BY <1>4, <1>5, <1>6, <1>7 DEF LogInv

LEMMA FinishPurgeLog == ASSUME LogInv, NEW d \in Devices, FinishPurge(d) PROVE LogInv'
<1>1. /\ nlog'[d] = ForcePersist(nlog[d])
      /\ nlog' = [nlog EXCEPT ![d] = nlog'[d]] /\ phase = "reset_rest"
    BY DEF FinishPurge, LogInv, Control, StepOf, NvmeLogInv
<1>2. LogOk({Valid}, nlog'[d], {}, NumFiles * Rounds)
    BY <1>1, NvmeOk, OkForce
<1> QED BY <1>1, <1>2, IdleLog DEF FinishPurge

LEMMA CloseDeviceLog == ASSUME LogInv, NEW d \in Devices, CloseDevice(d) PROVE LogInv'
<1>1. /\ nlog'[d] = Flushed(ForcePersist(nlog[d]))
      /\ nlog' = [nlog EXCEPT ![d] = nlog'[d]] /\ phase = "closing"
    BY DEF CloseDevice, LogInv, NvmeLogInv
<1>2. LogOk({Valid}, nlog'[d], {}, NumFiles * Rounds)
    BY <1>1, NvmeOk, OkForce, OkFlush
<1> QED BY <1>1, <1>2, IdleLog DEF CloseDevice

-----------------------------------------------------------------------------
(* Reset. *)

LEMMA BeginDeleteLog == ASSUME LogInv, NEW i \in Slots, BeginDelete(i) PROVE LogInv'
<1>1. /\ phase = "reset" /\ desc[i] # NoRec /\ deleting' = i
      /\ todo' = [d \in Devices |-> <<desc[i].nvme[d]>>] /\ at' = All("remove")
      /\ UNCHANGED <<phase, starting, gpuVars, nlog, files, history>>
    BY DEF BeginDelete, Known
<1>2. \A d \in Devices : desc[i].nvme[d] \in Slots
    BY <1>1 DEF LogInv, OtherTypes, Record
<1>3. todo' \in [Devices -> Seq(Slots)]
    BY <1>1, <1>2
<1>4. Rounds' = Rounds /\ Reserved' = Reserved
    BY <1>1 DEF Rounds, Reserved, gpuVars, starting
<1>5. \A d \in Devices : at'[d] = "remove"
    BY <1>1 DEF All
<1>6. OtherTypes'
    BY <1>1, <1>3 DEF LogInv, OtherTypes, starting, gpuVars, history, All
<1>7. Control'
  <2>1. i # -1
      BY NoSlot
  <2> QED BY <1>1, <1>5, <2>1 DEF LogInv, Control, StepOf, Deleting, starting, gpuVars
<1>8. GpuLogInv' /\ NvmeLogInv'
    BY <1>1, <1>4, <1>5, KeepGpuLog, KeepNvmeLogs DEF LogInv, starting, gpuVars
<1> QED BY <1>6, <1>7, <1>8 DEF LogInv

LEMMA DeleteLog == ASSUME LogInv, deleteGPUFile PROVE LogInv'
<1> DEFINE R == Record \cup {Empty}
           b == [glog EXCEPT !.bits = @ \ {deleting}]
           w == writeRecordToSlot(b, deleting, Empty)
           n == NumFiles * Rounds
<1>1. /\ phase = "reset" /\ deleting \in Slots /\ slots = << >>
      /\ desc' = [desc EXCEPT ![deleting] = NoRec] /\ glog' = Count(w, 1)
      /\ deleting' = -1 /\ at' = All("idle")
      /\ UNCHANGED <<phase, starting, slots, done, free_list, opened, fds, nlog, files,
                     todo, history>>
    BY DEF deleteGPUFile, LogInv, OtherTypes, Control
<1>2. Rounds' = Rounds /\ Reserved = {} /\ Reserved' = {}
    BY <1>1 DEF Rounds, Reserved, starting
<1>3. \A d \in Devices : at'[d] = "idle"
    BY <1>1 DEF All
<1>4. OtherTypes'
    BY <1>1 DEF LogInv, OtherTypes, starting, history, All
<1>5. Control'
    BY <1>1, <1>3 DEF LogInv, Control, StepOf, Deleting, starting
<1>6. GpuLogInv'
  <2>1. LogOk(R, glog, {}, n) /\ n \in Nat
      BY <1>2, RoundsNat DEF LogInv, GpuLogInv
  <2>3. Empty \in R /\ Empty # NoRec
      BY RecordAssumption
  <2> HIDE DEF n, R
  <2>6. n \in Int
      BY <2>1
  <2>2. LogOk(R, b, {}, n)
      BY <2>1, <2>6, OkLess
  <2> HIDE DEF b
  <2>4. LogOk(R, w, {} \ {deleting}, n) /\ {} \ {deleting} = {}
      BY <1>1, <2>2, <2>3, OkWrite
  <2> HIDE DEF w
  <2>5. LogOk(R, Count(w, 1), {}, n)
      BY <2>4, OkCount
  <2> QED BY <1>1, <1>2, <2>5 DEF GpuLogInv, n, R
<1>7. NvmeLogInv'
    BY <1>1, <1>2, <1>3, KeepNvmeLogs DEF LogInv, starting
<1> QED BY <1>4, <1>5, <1>6, <1>7 DEF LogInv

LEMMA ResetRestLog == ASSUME LogInv, ResetRest PROVE LogInv'
<1>1. /\ phase = "reset" /\ phase' = "reset_rest"
      /\ at' = [d \in Devices |-> IF nlog[d].bits = {} THEN "idle" ELSE "purge"]
      /\ todo' = [d \in Devices |-> SetToSeq(nlog[d].bits)]
      /\ UNCHANGED <<starting, gpuVars, nlog, files, deleting, history>>
    BY DEF ResetRest
<1>2. todo' \in [Devices -> Seq(Slots)]
  <2>1. \A d \in Devices : nlog[d].bits \in SUBSET Slots
      BY DEF LogInv, NvmeLogInv, LogOk, LogsOf
  <2> QED BY <1>1, <2>1, SetSeq
<1>3. Rounds' = Rounds /\ Reserved' = Reserved
    BY <1>1 DEF Rounds, Reserved, gpuVars, starting
<1>4. \A d \in Devices : at'[d] \in {"idle", "purge"}
    BY <1>1
<1>5. OtherTypes'
    BY <1>1, <1>2 DEF LogInv, OtherTypes, starting, gpuVars, history, Phases
<1>6. Control'
  <2>1. deleting = -1
      BY DEF ResetRest, Known, LogInv, Control, OtherTypes
  <2> QED BY <1>1, <1>4, <2>1 DEF LogInv, Control, StepOf, Deleting, starting, gpuVars
<1>7. GpuLogInv' /\ NvmeLogInv'
    BY <1>1, <1>3, <1>4, KeepGpuLog, KeepNvmeLogs DEF LogInv, starting, gpuVars
<1> QED BY <1>5, <1>6, <1>7 DEF LogInv

LEMMA FinishResetLog == ASSUME LogInv, FinishReset PROVE LogInv'
<1>1. /\ phase = "reset_rest" /\ phase' = "check" /\ glog' = persistBitmap(glog) /\ slots = << >>
      /\ UNCHANGED <<starting, desc, slots, done, free_list, opened, fds, nvmeVars,
                     deleting, history>>
      /\ \A d \in Devices : at[d] = "idle"
    BY DEF FinishReset, LogInv, Control, All
<1>2. Rounds' = Rounds /\ Reserved = {} /\ Reserved' = {}
    BY <1>1 DEF Rounds, Reserved, starting
<1>3. OtherTypes'
    BY <1>1 DEF LogInv, OtherTypes, starting, nvmeVars, history, Phases
<1>4. Control'
    BY <1>1 DEF LogInv, Control, StepOf, Deleting, starting, nvmeVars
<1>5. GpuLogInv'
  <2>1. LogOk(Record \cup {Empty}, glog, {}, NumFiles * Rounds)
      BY <1>2 DEF LogInv, GpuLogInv
  <2>2. LogOk(Record \cup {Empty}, persistBitmap(glog), {}, NumFiles * Rounds)
      BY <2>1, OkPersist
  <2> QED BY <1>1, <1>2, <2>2 DEF GpuLogInv
<1>6. NvmeLogInv'
    BY <1>1, <1>2, KeepNvmeLogs DEF LogInv, starting, nvmeVars
<1> QED BY <1>3, <1>4, <1>5, <1>6 DEF LogInv

-----------------------------------------------------------------------------
(* Creation. *)

LEMMA CreateCount ==
    ASSUME LogInv, NEW sample
    PROVE  ToCreate(sample) \in 0 .. NumFiles
<1>1. Known \in SUBSET Slots
    BY DEF Known
<1>2. Cardinality(Known) \in Nat /\ NumFiles \in Nat
    BY <1>1, Smaller, SlotsAssumption
<1> HIDE DEF Known
<1> QED BY <1>2 DEF ToCreate

\* At a check, the lowest n free slots are there.
LEMMA CheckSlots ==
    ASSUME LogInv, phase = "check", NEW n \in 0 .. NumFiles
    PROVE  /\ findMultipleFreeSlots(n) \in Seq(Slots)
           /\ Len(findMultipleFreeSlots(n)) = n
           /\ DOMAIN findMultipleFreeSlots(n) = 1 .. n
           /\ Injective(findMultipleFreeSlots(n))
           /\ \A k \in 1 .. n :
                 /\ findMultipleFreeSlots(n)[k] \in Slots \ glog.bits
                 /\ Cardinality({x \in Slots \ glog.bits : x < findMultipleFreeSlots(n)[k]}) = k - 1
           /\ Cardinality(glog.bits) + n <= NumFiles * starts
           /\ Cardinality(glog.bits) \in Nat
<1>1. /\ starts \in Nat /\ starts >= 1 /\ starts <= MaxStarts /\ MaxStarts \in Nat
      /\ NumFiles \in Nat /\ Rounds = starts - 1 /\ Rounds \in Nat
    BY RoundsNat DEF LogInv, Control, Rounds
<1>2. glog \in LogsOf(Record \cup {Empty}) /\ glog.bits \in SUBSET Slots
      /\ Cardinality(glog.bits) <= NumFiles * Rounds
    BY DEF LogInv, GpuLogInv, LogOk, LogsOf
<1>3. Cardinality(glog.bits) \in Nat
    BY <1>2, Smaller
<1>4. /\ NumFiles * Rounds \in Nat /\ NumFiles * Rounds + NumFiles <= NumFiles * MaxStarts
      /\ NumFiles * Rounds + NumFiles <= NumFiles * starts
      /\ NumFiles * MaxStarts \in Nat /\ NumFiles * starts \in Nat
    BY <1>1, Products
<1> HIDE DEF Rounds
<1>5. Cardinality(glog.bits) + n <= NumFiles * starts
      /\ Cardinality(glog.bits) + n <= NumFiles * MaxStarts /\ n \in Nat
    BY <1>1, <1>2, <1>3, <1>4
<1> QED BY <1>2, <1>3, <1>5, FreeSlots

LEMMA CheckExistingLog == ASSUME LogInv, CheckExisting PROVE LogInv'
<1>1. PICK sample : LET n == ToCreate(sample)
                    IN  /\ slots' = findMultipleFreeSlots(n)
                        /\ glog' = [glog EXCEPT !.bits = @ \cup Range(slots')]
                        /\ phase' = IF n = 0 THEN "init" ELSE "create"
                        /\ at' = All(IF n = 0 THEN "idle" ELSE "record")
    BY DEF CheckExisting
<1>2. PICK n \in 0 .. NumFiles : n = ToCreate(sample)
    BY CreateCount
<1>3. /\ phase = "check" /\ todo' = All(<< >>) /\ done' = 0
      /\ UNCHANGED <<starting, desc, free_list, opened, fds, nlog, files, deleting, history>>
    BY DEF CheckExisting
<1>4. /\ slots' \in Seq(Slots) /\ Len(slots') = n /\ DOMAIN slots' = 1 .. n
      /\ \A k \in 1 .. n : slots'[k] \in Slots \ glog.bits
      /\ Cardinality(glog.bits) + n <= NumFiles * starts /\ Cardinality(glog.bits) \in Nat
    BY <1>1, <1>2, <1>3, CheckSlots
<1>5. /\ starts \in Nat /\ starts >= 1 /\ NumFiles \in Nat \ {0} /\ slots = << >>
      /\ Rounds = starts - 1 /\ Rounds' = starts /\ Rounds \in Nat
      /\ NumFiles * Rounds \in Nat /\ NumFiles * starts \in Nat
      /\ NumFiles * Rounds <= NumFiles * starts /\ starts' = starts
  <2>1. /\ starts \in Nat /\ starts >= 1 /\ NumFiles \in Nat \ {0} /\ slots = << >>
        /\ Rounds = starts - 1 /\ Rounds' = starts /\ Rounds \in Nat /\ starts' = starts
      BY <1>1, <1>2, <1>3, RoundsNat DEF LogInv, Control, Rounds, starting
  <2>2. /\ NumFiles * Rounds \in Nat /\ NumFiles * starts \in Nat
        /\ NumFiles * Rounds + NumFiles <= NumFiles * starts
      BY <2>1, Products
  <2> QED BY <2>1, <2>2
<1>6. OtherTypes'
  <2>1. at' \in [Devices -> {"idle", "record"}] /\ todo' \in [Devices -> Seq(Slots)]
      BY <1>1, <1>2, <1>3 DEF All
  <2>2. phase' \in Phases
      BY <1>1 DEF Phases
  <2>3. done' \in 0 .. NumFiles
      BY <1>3, <1>5
  <2> QED BY <1>3, <1>4, <2>1, <2>2, <2>3 DEF LogInv, OtherTypes, starting, history
<1>7. Control'
  <2>1. \A d \in Devices : at'[d] = (IF n = 0 THEN "idle" ELSE "record") /\ todo'[d] = << >>
      BY <1>1, <1>2, <1>3 DEF All
  <2>2. \A d \in Devices : Len(todo'[d]) = 0
      BY <2>1
  <2>3. phase' = (IF n = 0 THEN "init" ELSE "create") /\ deleting = -1 /\ deleting' = -1
      BY <1>1, <1>2, <1>3 DEF LogInv, Control
  <2>4. n = 0 => slots' = << >>
      BY <1>4
  <2>5. \A d \in Devices : StepOf(d)'
      BY <1>4, <2>1, <2>2, <2>3 DEF StepOf, Deleting
  <2> QED BY <1>3, <1>4, <1>5, <2>3, <2>4, <2>5 DEF Control
<1>8. GpuLogInv'
  <2> DEFINE S == glog.bits \cup Range(slots')
  <2>1. LogOk(Record \cup {Empty}, glog, {}, NumFiles * Rounds)
    <3>1. Reserved = {}
        BY <1>5 DEF Reserved
    <3> QED BY <3>1 DEF LogInv, GpuLogInv
  <2>2. /\ glog.bits \in SUBSET Slots /\ glog.disk \in SUBSET Slots
        /\ Cardinality(glog.disk) <= NumFiles * Rounds
      BY <2>1 DEF LogOk, LogsOf
  <2>3. Reserved' = Range(slots')
      BY <1>3, <1>4 DEF Reserved, Range
  <2>4. S \in SUBSET Slots
      BY <1>4, <2>2 DEF Range
  <2>5. Cardinality(S) <= NumFiles * starts /\ Cardinality(glog.disk) <= NumFiles * starts
    <3>1. IsFiniteSet(glog.bits) /\ Cardinality(glog.disk) \in Nat
        BY <2>2, Smaller
    <3>2. IsFiniteSet(Range(slots')) /\ Cardinality(Range(slots')) <= n
        BY <1>4, RangeLen
    <3>3. Cardinality(S) <= Cardinality(glog.bits) + Cardinality(Range(slots'))
        BY <3>1, <3>2, UnionBound
    <3>4. Cardinality(S) \in Nat /\ Cardinality(Range(slots')) \in Nat
        BY <2>4, <3>2, Smaller, FS_CardinalityType
    <3>5. PICK m \in Nat : m = NumFiles * starts
        BY <1>5
    <3>6. PICK r \in Nat : r = NumFiles * Rounds
        BY <1>5
    <3>7. r <= m /\ Cardinality(glog.disk) <= r /\ Cardinality(glog.bits) + n <= m
        BY <1>4, <1>5, <2>2, <3>5, <3>6
    <3> HIDE DEF S, Rounds
    <3>8. Cardinality(glog.disk) <= m
        BY <3>1, <3>5, <3>6, <3>7
    <3>9. Cardinality(S) <= m
        BY <1>4, <3>2, <3>3, <3>4, <3>5, <3>7
    <3> QED BY <3>5, <3>8, <3>9
  <2>6. glog' = [glog EXCEPT !.bits = S]
      BY <1>1
  <2>7. \A i \in S : i \in Range(slots') \/ i \in glog.bits
      OBVIOUS
  <2> HIDE DEF S, Rounds
  <2>8. LogOk(Record \cup {Empty}, [glog EXCEPT !.bits = S], Range(slots'), NumFiles * starts)
      BY <2>1, <2>4, <2>5, <2>7, OkBits
  <2> QED BY <1>5, <2>3, <2>6, <2>8 DEF GpuLogInv
<1>9. NvmeLogInv'
  <2>1. \A d \in Devices : LogOk({Valid}, nlog[d], {}, NumFiles * Rounds)
      BY DEF LogInv, NvmeLogInv
  <2>2. \A d \in Devices : LogOk({Valid}, nlog[d], {}, NumFiles * starts)
    <3> HIDE DEF Rounds
    <3>1. NumFiles * Rounds \in Int /\ NumFiles * starts \in Int
        BY <1>5
    <3> QED BY <1>5, <2>1, <3>1, OkMore
  <2>3. \A d \in Devices : Cardinality(nlog[d].bits) <= NumFiles * (starts - 1) + 0
    <3>1. NumFiles * (starts - 1) + 0 = NumFiles * Rounds
        BY <1>5
    <3> QED BY <2>1, <3>1 DEF LogOk
  <2>4. \A d \in Devices : Len(todo'[d]) = 0
      BY <1>3 DEF All
  <2> QED BY <1>3, <1>5, <2>2, <2>3, <2>4 DEF LogInv, NvmeLogInv
<1> QED BY <1>6, <1>7, <1>8, <1>9 DEF LogInv

\* While a device creates files, its log has room for the next one.
LEMMA RoomOnDevice ==
    ASSUME LogInv, NEW d \in Devices, at[d] = "record"
    PROVE  /\ phase = "create" /\ Rounds = starts
           /\ Cardinality(nlog[d].bits) \in Nat /\ NumFiles * starts \in Nat
           /\ Len(todo[d]) \in Nat /\ Len(todo[d]) < Len(slots) /\ Len(slots) <= NumFiles
           /\ Cardinality(nlog[d].bits) <= NumFiles * (starts - 1) + Len(todo[d])
           /\ NumFiles * (starts - 1) \in Nat
           /\ Cardinality(nlog[d].bits) < NumFiles * starts
           /\ NumFiles * starts <= NumFiles * MaxStarts /\ NumFiles * MaxStarts \in Nat
<1>1. /\ phase = "create" /\ Rounds = starts /\ starts \in Nat /\ starts >= 1 /\ starts <= MaxStarts
      /\ MaxStarts \in Nat /\ NumFiles \in Nat \ {0}
      /\ Len(todo[d]) \in Nat /\ Len(todo[d]) < Len(slots) /\ Len(slots) \in 1 .. NumFiles
    BY RoundsNat DEF LogInv, Control, StepOf, Rounds, OtherTypes
<1>2. /\ NumFiles * (starts - 1) \in Nat /\ NumFiles * starts \in Nat /\ NumFiles * MaxStarts \in Nat
      /\ NumFiles * (starts - 1) + NumFiles <= NumFiles * starts
    BY <1>1, Products, starts - 1 \in Nat
<1>3. NumFiles * starts <= NumFiles * MaxStarts
  <2>1. CASE starts = MaxStarts
      BY <1>2, <2>1
  <2>2. CASE starts < MaxStarts
    <3>1. NumFiles * starts + NumFiles <= NumFiles * MaxStarts
        BY <1>1, <2>2, Products
    <3> QED BY <1>1, <1>2, <3>1
  <2> QED BY <1>1, <2>1, <2>2
<1>4. Cardinality(nlog[d].bits) <= NumFiles * (starts - 1) + Len(todo[d])
    BY DEF LogInv, NvmeLogInv
<1>5. Cardinality(nlog[d].bits) \in Nat
    BY Smaller DEF LogInv, NvmeLogInv, LogOk, LogsOf
<1>6. Cardinality(nlog[d].bits) < NumFiles * starts
  <2>1. PICK m \in Nat : m = NumFiles * starts
      BY <1>2
  <2>2. PICK r \in Nat : r = NumFiles * (starts - 1)
      BY <1>2
  <2>3. r + NumFiles <= m /\ Cardinality(nlog[d].bits) <= r + Len(todo[d])
      BY <1>2, <1>4, <2>1, <2>2
  <2>4. Len(todo[d]) < NumFiles
      BY <1>1
  <2>5. PICK c \in Nat : c = Cardinality(nlog[d].bits)
      BY <1>5
  <2>6. /\ m \in Nat /\ r \in Nat /\ c \in Nat /\ Len(todo[d]) \in Nat /\ NumFiles \in Nat
        /\ c <= r + Len(todo[d])
      BY <1>1, <2>3, <2>5
  <2>7. c < m
      BY <2>3, <2>4, <2>6
  <2> QED BY <2>1, <2>5, <2>7
<1>7. Len(slots) <= NumFiles
    BY <1>1
<1> HIDE DEF Rounds
<1> QED BY <1>1, <1>2, <1>3, <1>4, <1>5, <1>6, <1>7

LEMMA CreateFileLog == ASSUME LogInv, NEW d \in Devices, createFile(d) PROVE LogInv'
<1>1. PICK id : id = findNextFreeSlot(nlog[d])
    OBVIOUS
<1>2. /\ at[d] = "record" /\ nlog' = [nlog EXCEPT ![d] = NewFile(@, id)]
      /\ todo' = [todo EXCEPT ![d] = Append(@, id)] /\ at' = [at EXCEPT ![d] = "file"]
      /\ UNCHANGED <<phase, starting, gpuVars, files, deleting, history>>
    BY <1>1 DEF createFile
<1>3. /\ phase = "create" /\ Rounds = starts
      /\ Cardinality(nlog[d].bits) \in Nat /\ NumFiles * starts \in Nat
      /\ Len(todo[d]) \in Nat /\ Len(todo[d]) < Len(slots) /\ Len(slots) <= NumFiles
      /\ Cardinality(nlog[d].bits) <= NumFiles * (starts - 1) + Len(todo[d])
      /\ NumFiles * (starts - 1) \in Nat
      /\ Cardinality(nlog[d].bits) < NumFiles * starts
      /\ NumFiles * starts <= NumFiles * MaxStarts /\ NumFiles * MaxStarts \in Nat
    BY <1>2, RoomOnDevice
<1>4. nlog[d] \in LogsOf({Valid}) /\ LogOk({Valid}, nlog[d], {}, NumFiles * starts)
      /\ nlog[d].bits \in SUBSET Slots
    BY <1>3 DEF LogInv, NvmeLogInv, LogOk, LogsOf
<1>5. id \in Slots /\ id \notin nlog[d].bits
  <2>1. Cardinality(nlog[d].bits) < NumFiles * MaxStarts
      BY <1>3
  <2> QED BY <1>1, <1>4, <2>1, NextFreeSlot
<1>6. /\ LogOk({Valid}, NewFile(nlog[d], id), {}, NumFiles * starts)
      /\ NewFile(nlog[d], id).bits = nlog[d].bits \cup {id}
  <2>1. PICK m \in Int : m = NumFiles * starts
      BY <1>3
  <2>2. LogOk({Valid}, nlog[d], {}, m) /\ Cardinality(nlog[d].bits) < m
      BY <1>3, <1>4, <2>1
  <2>4. m <= m
      OBVIOUS
  <2>3. /\ LogOk({Valid}, NewFile(nlog[d], id), {}, m)
        /\ NewFile(nlog[d], id).bits = nlog[d].bits \cup {id}
      BY <1>5, <2>2, <2>4, OkNewFile
  <2> QED BY <2>1, <2>3
<1>7. /\ at \in [Devices -> {"idle", "remove", "unlinked", "purge", "purged", "record",
                             "file", "created", "close"}]
      /\ todo \in [Devices -> Seq(Slots)] /\ DOMAIN nlog = Devices
    BY DEF LogInv, OtherTypes, NvmeLogInv
<1>8. /\ at'[d] = "file" /\ todo'[d] = Append(todo[d], id) /\ nlog'[d] = NewFile(nlog[d], id)
      /\ \A u \in Devices : u # d => at'[u] = at[u] /\ todo'[u] = todo[u]
      /\ nlog' = [nlog EXCEPT ![d] = nlog'[d]]
    BY <1>2, <1>7
<1>9. todo'[d] \in Seq(Slots) /\ Len(todo'[d]) = Len(todo[d]) + 1 /\ todo'[d] # << >>
    BY <1>5, <1>7, <1>8
<1>10. Rounds' = Rounds /\ Reserved' = Reserved
    BY <1>2 DEF Rounds, Reserved, gpuVars, starting
<1>11. OtherTypes'
  <2>1. todo' \in [Devices -> Seq(Slots)]
      BY <1>2, <1>7, <1>8, <1>9
  <2> QED BY <1>2, <1>7, <2>1 DEF LogInv, OtherTypes, starting, gpuVars, history
<1>12. Control'
  <2>1. Len(slots) \in Nat /\ slots' = slots
      BY <1>2 DEF LogInv, OtherTypes, gpuVars
  <2>2. StepOf(d)'
      BY <1>2, <1>3, <1>8, <1>9, <2>1 DEF StepOf, Deleting
  <2> QED BY <1>2, <1>3, <1>8, <2>2, StepControl DEF starting, gpuVars
<1>13. GpuLogInv'
    BY <1>2, <1>10, KeepGpuLog DEF LogInv, gpuVars
<1>14. NvmeLogInv'
  <2>1. Cardinality(nlog'[d].bits) <= NumFiles * (starts - 1) + Len(todo'[d])
    <3>1. IsFiniteSet(nlog[d].bits)
        BY <1>4, Smaller
    <3>2. Cardinality(nlog[d].bits \cup {id}) = Cardinality(nlog[d].bits) + 1
        BY <1>5, <3>1, FS_AddElement
    <3>3. nlog'[d].bits = nlog[d].bits \cup {id}
        BY <1>6, <1>8
    <3>4. PICK r \in Nat : r = NumFiles * (starts - 1)
        BY <1>3
    <3>5. PICK c \in Nat : c = Cardinality(nlog[d].bits)
        BY <1>3
    <3>6. c <= r + Len(todo[d])
        BY <1>3, <3>4, <3>5
    <3>7. c + 1 <= r + (Len(todo[d]) + 1)
        BY <1>3, <3>4, <3>5, <3>6
    <3> QED BY <1>9, <3>2, <3>3, <3>4, <3>5, <3>7
  <2>2. LogOk({Valid}, nlog'[d], {}, NumFiles * Rounds)
      BY <1>3, <1>6, <1>8
  <2> QED BY <1>2, <1>8, <1>10, <2>1, <2>2, StepNvmeLog DEF LogInv, starting
<1> QED BY <1>11, <1>12, <1>13, <1>14 DEF LogInv

LEMMA CreateOnDiskLog == ASSUME LogInv, NEW d \in Devices, CreateOnDisk(d) PROVE LogInv'
<1>1. /\ at[d] = "file" /\ files' = [files EXCEPT ![d] = @ \cup {Last(todo[d])}]
      /\ at' = [at EXCEPT ![d] = IF Len(todo[d]) = Len(slots) THEN "created" ELSE "record"]
      /\ UNCHANGED <<phase, starting, gpuVars, nlog, todo, deleting, history>>
      /\ phase = "create" /\ todo[d] # << >> /\ Len(todo[d]) <= Len(slots)
      /\ Len(todo[d]) \in Nat /\ Len(slots) \in Nat
    BY DEF CreateOnDisk, LogInv, Control, StepOf, OtherTypes
<1>2. /\ at \in [Devices -> {"idle", "remove", "unlinked", "purge", "purged", "record",
                             "file", "created", "close"}]
      /\ files \in [Devices -> SUBSET Slots] /\ Last(todo[d]) \in Slots
    BY <1>1, TodoTail DEF LogInv, OtherTypes
<1>3. /\ at'[d] = IF Len(todo[d]) = Len(slots) THEN "created" ELSE "record"
      /\ \A u \in Devices : u # d => at'[u] = at[u]
    BY <1>1, <1>2
<1>4. Rounds' = Rounds /\ Reserved' = Reserved
    BY <1>1 DEF Rounds, Reserved, gpuVars, starting
<1>5. OtherTypes'
    BY <1>1, <1>2 DEF LogInv, OtherTypes, starting, gpuVars, history
<1>6. Control'
  <2>1. StepOf(d)'
      BY <1>1, <1>3 DEF StepOf, Deleting, gpuVars
  <2> QED BY <1>1, <1>3, <2>1, StepControl DEF starting, gpuVars
<1>7. GpuLogInv' /\ NvmeLogInv'
    BY <1>1, <1>3, <1>4, KeepGpuLog, KeepNvmeLogs DEF LogInv, starting, gpuVars
<1> QED BY <1>5, <1>6, <1>7 DEF LogInv

LEMMA CreateFailsLog == ASSUME LogInv, NEW d \in Devices, CreateFails(d) PROVE LogInv'
<1>1. /\ at[d] = "file" /\ nlog' = [nlog EXCEPT ![d] = deleteFile(@, Last(todo[d]))]
      /\ todo' = [todo EXCEPT ![d] = Front(@)] /\ at' = [at EXCEPT ![d] = "remove"]
      /\ io_failed' = TRUE /\ UNCHANGED <<phase, starting, gpuVars, deleting, lossy>>
      /\ phase = "create" /\ todo[d] # << >>
    BY DEF CreateFails, LogInv, Control, StepOf
<1>2. /\ at \in [Devices -> {"idle", "remove", "unlinked", "purge", "purged", "record",
                             "file", "created", "close"}]
      /\ todo \in [Devices -> Seq(Slots)] /\ DOMAIN nlog = Devices
      /\ files \in [Devices -> SUBSET Slots] /\ Last(todo[d]) \in Slots
      /\ Front(todo[d]) \in Seq(Slots)
    BY <1>1, TodoTail DEF LogInv, OtherTypes, NvmeLogInv
<1>3. /\ at'[d] = "remove" /\ nlog'[d] = deleteFile(nlog[d], Last(todo[d]))
      /\ \A u \in Devices : u # d => at'[u] = at[u] /\ todo'[u] = todo[u]
      /\ nlog' = [nlog EXCEPT ![d] = nlog'[d]]
    BY <1>1, <1>2
<1>4. Rounds' = Rounds /\ Reserved' = Reserved
    BY <1>1 DEF Rounds, Reserved, gpuVars, starting
<1>5. OtherTypes'
  <2>1. files' \in [Devices -> SUBSET Slots]
      BY <1>2 DEF CreateFails
  <2>2. todo' \in [Devices -> Seq(Slots)]
      BY <1>1, <1>2
  <2> QED BY <1>1, <1>2, <2>1, <2>2 DEF LogInv, OtherTypes, starting, gpuVars
<1>6. Control'
  <2>1. StepOf(d)'
      BY <1>1, <1>3 DEF StepOf, Deleting
  <2> QED BY <1>1, <1>3, <2>1, StepControl DEF starting, gpuVars
<1>7. GpuLogInv'
    BY <1>1, <1>4, KeepGpuLog DEF LogInv, gpuVars
<1>8. NvmeLogInv'
  <2>1. LogOk({Valid}, deleteFile(nlog[d], Last(todo[d])), {}, NumFiles * Rounds)
      BY NvmeOk, OkDelete
  <2>2. LogOk({Valid}, nlog'[d], {}, NumFiles * Rounds)
      BY <1>3, <2>1
  <2> QED BY <1>1, <1>3, <1>4, <2>2, StepNvmeLog DEF LogInv, starting
<1> QED BY <1>5, <1>6, <1>7, <1>8 DEF LogInv

\* Every device becomes idle and none is at a step that its log could disturb.
LEMMA AllIdle ==
    ASSUME LogInv, nlog' = nlog, Rounds' = Rounds, starts' = starts, at' = All("idle")
    PROVE  NvmeLogInv'
<1>1. \A d \in Devices : at'[d] = "idle"
    BY DEF All
<1> QED BY <1>1, KeepNvmeLogs DEF LogInv

LEMMA GatherResultsLog == ASSUME LogInv, GatherResults PROVE LogInv'
<1>1. /\ phase = "create" /\ at' = All("idle") /\ done = 0 /\ deleting = -1
      /\ UNCHANGED <<starting, desc, done, free_list, opened, fds, nlog, files, deleting, history>>
      /\ phase' \in {"failed", "records"} /\ Len(slots) \in 1 .. NumFiles
      /\ slots \in Seq(Slots) /\ starts' = starts
    BY DEF GatherResults, LogInv, Control, OtherTypes, starting
<1>2. Rounds = starts /\ Rounds' = Rounds
    BY <1>1 DEF Rounds
<1>3. NvmeLogInv'
    BY <1>1, <1>2, AllIdle
<1>4. \A d \in Devices : at'[d] = "idle"
    BY <1>1 DEF All
<1>5. CASE \E d \in Devices : at[d] = "remove"
  <2>1. /\ glog' = [glog EXCEPT !.bits = @ \ Range(slots)] /\ slots' = << >>
        /\ todo' = All(<< >>) /\ phase' = "failed"
      BY <1>5 DEF GatherResults
  <2>2. OtherTypes'
      BY <1>1, <2>1 DEF LogInv, OtherTypes, All, starting, history, Phases
  <2>3. Control'
      BY <1>1, <1>4, <2>1 DEF LogInv, Control, StepOf, Deleting
  <2>4. GpuLogInv'
    <3> DEFINE S == glog.bits \ Range(slots)
               R == Record \cup {Empty}
    <3>1. Reserved = Range(slots) /\ Reserved' = {}
        BY <1>1, <2>1 DEF Reserved, Range
    <3>2. LogOk(R, glog, Range(slots), NumFiles * Rounds)
        BY <3>1 DEF LogInv, GpuLogInv
    <3>3. glog' = [glog EXCEPT !.bits = S]
        BY <2>1
    <3>4. /\ glog.bits \in SUBSET Slots /\ S \in SUBSET glog.bits /\ S \in SUBSET Slots
          /\ Cardinality(glog.bits) <= NumFiles * Rounds
          /\ Cardinality(glog.disk) <= NumFiles * Rounds
        BY <3>2 DEF LogOk, LogsOf
    <3>5. \A i \in S : i \in glog.bits /\ i \notin Range(slots)
        OBVIOUS
    <3>6. PICK n \in Nat : n = NumFiles * Rounds
        BY RoundsNat
    <3> HIDE DEF S, R, Rounds
    <3>7. Cardinality(S) <= n
      <4>1. Cardinality(S) \in Nat /\ Cardinality(glog.bits) \in Nat
            /\ Cardinality(S) <= Cardinality(glog.bits) /\ Cardinality(glog.bits) <= n
          BY <3>4, <3>6, Smaller
      <4> QED BY <4>1, <3>6
    <3>8. LogOk(R, glog, Range(slots), n) /\ Cardinality(glog.disk) <= n
        BY <3>2, <3>4, <3>6
    <3>9. LogOk(R, [glog EXCEPT !.bits = S], {}, n)
        BY <3>4, <3>5, <3>7, <3>8, OkBits
    <3> QED BY <1>2, <3>1, <3>3, <3>6, <3>9 DEF GpuLogInv, R
  <2> QED BY <1>3, <2>2, <2>3, <2>4 DEF LogInv
<1>6. CASE ~ \E d \in Devices : at[d] = "remove"
  <2>1. phase' = "records" /\ glog' = glog /\ slots' = slots /\ todo' = todo
      BY <1>6 DEF GatherResults
  <2>2. OtherTypes'
      BY <1>1, <2>1 DEF LogInv, OtherTypes, All, starting, history, Phases
  <2>3. \A d \in Devices : Len(todo[d]) = Len(slots)
      BY <1>6 DEF GatherResults, LogInv, Control, StepOf
  <2>4. Control'
      BY <1>1, <1>4, <2>1, <2>3 DEF LogInv, Control, StepOf, Deleting
  <2>5. Reserved' = Reserved
      BY <1>1, <2>1 DEF Reserved
  <2>6. GpuLogInv'
      BY <1>2, <2>1, <2>5, KeepGpuLog DEF LogInv
  <2> QED BY <1>3, <2>2, <2>4, <2>6 DEF LogInv
<1> QED BY <1>5, <1>6

LEMMA OkReserved ==
    ASSUME NEW R, NEW l, NEW res, NEW res2, NEW n, LogOk(R, l, res, n),
           \A x \in res : x \in res2
    PROVE  LogOk(R, l, res2, n)
BY DEF LogOk, WellWritten

\* The records that createGPUFiles writes.
LEMMA RecordType ==
    ASSUME LogInv, phase = "records", NEW k \in 1 .. Len(slots)
    PROVE  NewRecord(k) \in Record
<1>1. /\ \A d \in Devices : todo[d] \in Seq(Slots) /\ Len(todo[d]) = Len(slots)
      /\ shape \in Shapes
    BY DEF LogInv, OtherTypes, Control
<1>2. \A d \in Devices : todo[d][k] \in Slots
    BY <1>1
<1> QED BY <1>1, <1>2 DEF NewRecord, Record

LEMMA WriteRecordLog == ASSUME LogInv, WriteRecord PROVE LogInv'
<1>1. /\ phase = "records" /\ done < Len(slots) /\ done' = done + 1
      /\ glog' = writeRecordToSlot(glog, slots[done + 1], NewRecord(done + 1))
      /\ UNCHANGED <<phase, starting, desc, slots, free_list, opened, fds, nvmeVars,
                     deleting, history>>
    BY DEF WriteRecord
<1>2. /\ slots \in Seq(Slots) /\ Len(slots) \in 1 .. NumFiles /\ done \in 0 .. NumFiles
      /\ NumFiles \in Nat
    BY <1>1, SlotsAssumption DEF LogInv, OtherTypes, Control
<1>3. /\ done + 1 \in 1 .. Len(slots) /\ slots[done + 1] \in Slots /\ done' \in 0 .. NumFiles
      /\ done' <= Len(slots)
    BY <1>1, <1>2
<1>4. NewRecord(done + 1) \in Record
    BY <1>1, <1>3, RecordType
<1>5. Rounds' = Rounds
    BY <1>1 DEF Rounds, starting
<1>6. OtherTypes'
    BY <1>1, <1>3 DEF LogInv, OtherTypes, starting, nvmeVars, history
<1>7. Control'
    BY <1>1, <1>3 DEF LogInv, Control, StepOf, Deleting, starting, nvmeVars
<1>8. GpuLogInv'
  <2>1. PICK s \in Slots : s = slots[done + 1]
      BY <1>3
  <2>2. PICK r \in Record \cup {Empty} : r = NewRecord(done + 1)
      BY <1>4
  <2>3. r # NoRec
      BY <1>4, <2>2, RecordAssumption
  <2>4. LogOk(Record \cup {Empty}, glog, Reserved, NumFiles * Rounds)
      BY DEF LogInv, GpuLogInv
  <2>5. LogOk(Record \cup {Empty}, writeRecordToSlot(glog, s, r), Reserved \ {s}, NumFiles * Rounds)
      BY <2>3, <2>4, OkWrite
  <2>6. \A x \in Reserved \ {s} : x \in Reserved'
    <3> SUFFICES ASSUME NEW k \in DOMAIN slots, k > done, slots[k] # s
                 PROVE  slots[k] \in Reserved'
        BY DEF Reserved
    <3>1. k # done + 1 /\ k \in 1 .. Len(slots)
        BY <1>2, <2>1
    <3>2. k > done'
        BY <1>1, <1>2, <3>1
    <3> QED BY <1>1, <3>2 DEF Reserved
  <2>7. LogOk(Record \cup {Empty}, writeRecordToSlot(glog, s, r), Reserved', NumFiles * Rounds)
      BY <2>5, <2>6, OkReserved
  <2> QED BY <1>1, <1>5, <2>1, <2>2, <2>7 DEF GpuLogInv
<1>9. NvmeLogInv'
    BY <1>1, <1>5, KeepNvmeLogs DEF LogInv, starting, nvmeVars
<1> QED BY <1>6, <1>7, <1>8, <1>9 DEF LogInv

LEMMA CreateGpuLog == ASSUME LogInv, createGPUFiles PROVE LogInv'
<1>1. /\ phase = "records" /\ done = Len(slots) /\ glog' = Count(glog, Len(slots))
      /\ slots' = << >> /\ todo' = All(<< >>) /\ done' = 0 /\ phase' = "init"
      /\ UNCHANGED <<starting, free_list, opened, fds, nlog, files, at, deleting, history>>
      /\ slots \in Seq(Slots) /\ Len(slots) \in Nat /\ DOMAIN slots = 1 .. Len(slots)
      /\ deleting = -1
    BY DEF createGPUFiles, LogInv, OtherTypes, Control
<1>2. Rounds' = Rounds /\ Reserved = {} /\ Reserved' = {}
    BY <1>1 DEF Rounds, Reserved, starting
<1>3. \A d \in Devices : at[d] = "idle"
    BY <1>1 DEF LogInv, OtherTypes, Control, StepOf, Deleting
<1>4. OtherTypes'
  <2>1. desc' \in [Slots -> Record \cup {NoRec}]
    <3>1. desc \in [Slots -> Record \cup {NoRec}]
        BY DEF LogInv, OtherTypes
    <3>2. \A k \in DOMAIN slots : NewRecord(k) \in Record
        BY <1>1, RecordType
    <3>3. ASSUME NEW i \in Slots, \E k \in DOMAIN slots : slots[k] = i
          PROVE  NewRecord(CHOOSE k \in DOMAIN slots : slots[k] = i) \in Record
        BY <3>2, <3>3
    <3> QED BY <3>1, <3>3 DEF createGPUFiles
  <2>2. done' \in 0 .. NumFiles
      BY <1>1, SlotsAssumption
  <2> QED BY <1>1, <2>1, <2>2 DEF LogInv, OtherTypes, All, starting, history, Phases
<1>5. Control'
    BY <1>1, <1>3 DEF LogInv, Control, StepOf, Deleting, starting
<1>6. GpuLogInv'
  <2>1. LogOk(Record \cup {Empty}, glog, {}, NumFiles * Rounds)
      BY <1>2 DEF LogInv, GpuLogInv
  <2>2. LogOk(Record \cup {Empty}, Count(glog, Len(slots)), {}, NumFiles * Rounds)
      BY <1>1, <2>1, OkCount
  <2> QED BY <1>1, <1>2, <2>2 DEF GpuLogInv
<1>7. NvmeLogInv'
    BY <1>1, <1>2, <1>3, KeepNvmeLogs DEF LogInv, starting
<1> QED BY <1>4, <1>5, <1>6, <1>7 DEF LogInv

-----------------------------------------------------------------------------
(* Use, shutdown and crash. *)

\* A step that changes neither logs nor devices, in a phase without either.
LEMMA QuietLog ==
    ASSUME LogInv, OtherTypes', UNCHANGED <<starts, glog, desc, slots, nvmeVars, deleting>>,
           phase \in {"init", "ready"}, phase' \in {"init", "ready", "failed"}
    PROVE  LogInv'
<1>1. slots = << >> /\ \A d \in Devices : at[d] = "idle"
    BY DEF LogInv, OtherTypes, Control, StepOf, Deleting
<1>2. Rounds' = Rounds /\ Reserved' = {} /\ Reserved = {}
    BY <1>1 DEF Rounds, Reserved
<1>3. Control'
    BY <1>1 DEF LogInv, Control, StepOf, Deleting, nvmeVars
<1> QED BY <1>2, <1>3, KeepGpuLog, KeepNvmeLogs DEF LogInv, nvmeVars

LEMMA InitGpuFileLog == ASSUME LogInv, initGPUFile PROVE LogInv'
<1>1. /\ phase = "init" /\ done < NumFiles /\ done \in Slots /\ desc[done] # NoRec
      /\ free_list' = Append(free_list, done) /\ done' = done + 1
      /\ UNCHANGED <<phase, starting, glog, desc, slots, opened, nvmeVars, deleting, history>>
    BY DEF initGPUFile, Known
<1>2. PICK f \in [Devices -> Slots] :
          fds' = [d \in Devices |-> [fds[d] EXCEPT ![desc[done].nvme[d]] = f[d]]]
    BY DEF initGPUFile
<1>3. /\ fds \in [Devices -> [Slots -> Slots \cup {NoRec}]] /\ free_list \in Seq(Slots)
      /\ done \in 0 .. NumFiles /\ NumFiles \in Nat
    BY SlotsAssumption DEF LogInv, OtherTypes
<1>4. fds' \in [Devices -> [Slots -> Slots \cup {NoRec}]]
    BY <1>2, <1>3
<1>5. free_list' \in Seq(Slots) /\ done' \in 0 .. NumFiles
    BY <1>1, <1>3
<1>6. OtherTypes'
    BY <1>1, <1>4, <1>5 DEF LogInv, OtherTypes, starting, nvmeVars, history
<1> QED BY <1>1, <1>6, QuietLog DEF starting

LEMMA InitFailsLog == ASSUME LogInv, initFails PROVE LogInv'
<1>1. /\ phase = "init" /\ phase' = "failed" /\ io_failed' \in BOOLEAN
      /\ UNCHANGED <<starting, gpuVars, nvmeVars, deleting, lossy>>
    BY DEF initFails, LogInv, OtherTypes
<1>2. OtherTypes'
    BY <1>1 DEF LogInv, OtherTypes, starting, gpuVars, nvmeVars, Phases
<1> QED BY <1>1, <1>2, QuietLog DEF starting, gpuVars

LEMMA FinishInitLog == ASSUME LogInv, FinishInit PROVE LogInv'
<1>1. /\ phase = "init" /\ phase' = "ready"
      /\ UNCHANGED <<starting, gpuVars, nvmeVars, deleting, history>>
    BY DEF FinishInit
<1>2. OtherTypes'
    BY <1>1 DEF LogInv, OtherTypes, starting, gpuVars, nvmeVars, history, Phases
<1> QED BY <1>1, <1>2, QuietLog DEF starting, gpuVars

LEMMA OpenGpuFileLog == ASSUME LogInv, openGPUFile PROVE LogInv'
<1>1. /\ phase = "ready" /\ free_list # << >> /\ free_list \in Seq(Slots)
      /\ opened' = opened \cup {Last(free_list)} /\ free_list' = Front(free_list)
      /\ UNCHANGED <<phase, starting, glog, desc, slots, done, fds, nvmeVars, deleting, history>>
    BY DEF openGPUFile, LogInv, OtherTypes
<1>2. Last(free_list) \in Slots /\ free_list' \in Seq(Slots)
    BY <1>1 DEF Last, Front
<1>3. OtherTypes'
    BY <1>1, <1>2 DEF LogInv, OtherTypes, starting, nvmeVars, history
<1> QED BY <1>1, <1>3, QuietLog DEF starting

\* The free list with an element put in its place.
LEMMA InsertedFree ==
    ASSUME NEW i \in Slots, free_list \in Seq(Slots)
    PROVE  \E b \in 0 .. Len(free_list) :
              /\ b = Cardinality({k \in DOMAIN free_list : free_list[k] < i})
              /\ Inserted(InsertFree(i), Slots, free_list, b, i)
<1> DEFINE B == {k \in DOMAIN free_list : free_list[k] < i}
<1>1. Len(free_list) \in Nat /\ DOMAIN free_list = 1 .. Len(free_list)
    OBVIOUS
<1>2. PICK N : N = 1 .. Len(free_list)
    OBVIOUS
<1>3. IsFiniteSet(N) /\ Cardinality(N) = Len(free_list)
    BY <1>1, <1>2, FS_Interval
<1>4. B \in SUBSET N
    BY <1>1, <1>2
<1>5. PICK b \in 0 .. Len(free_list) : b = Cardinality(B)
  <2> HIDE DEF B
  <2>1. Cardinality(B) \in Nat /\ Cardinality(B) <= Len(free_list)
      BY <1>3, <1>4, FS_Subset, FS_CardinalityType
  <2> QED BY <1>1, <2>1
<1>6. InsertFree(i) = InsertAt(free_list, b + 1, i)
    BY <1>5 DEF InsertFree
<1>7. Inserted(InsertAt(free_list, b + 1, i), Slots, free_list, b, i)
    BY InsertedAt
<1> QED BY <1>5, <1>6, <1>7

LEMMA CloseGpuFileLog == ASSUME LogInv, NEW i \in Slots, closeGPUFile(i) PROVE LogInv'
<1>1. /\ phase = "ready" /\ free_list \in Seq(Slots) /\ opened' = opened \ {i}
      /\ free_list' \in {free_list, InsertFree(i)}
      /\ UNCHANGED <<phase, starting, glog, desc, slots, done, fds, nvmeVars, deleting, history>>
    BY DEF closeGPUFile, LogInv, OtherTypes
<1>2. free_list' \in Seq(Slots)
    BY <1>1, InsertedFree DEF Inserted
<1>3. OtherTypes'
    BY <1>1, <1>2 DEF LogInv, OtherTypes, starting, nvmeVars, history
<1> QED BY <1>1, <1>3, QuietLog DEF starting

LEMMA CleanupLog == ASSUME LogInv, cleanup PROVE LogInv'
<1>1. /\ phase \in {"ready", "failed"} /\ glog' = persistBitmap(glog) /\ phase' = "closing"
      /\ at' = All("close") /\ slots = << >>
      /\ UNCHANGED <<starting, desc, slots, done, free_list, opened, fds, nlog, files,
                     todo, deleting, history>>
    BY DEF cleanup, LogInv, Control
<1>2. Rounds' = Rounds /\ Reserved = {} /\ Reserved' = {}
    BY <1>1 DEF Rounds, Reserved, starting
<1>3. \A d \in Devices : at'[d] = "close"
    BY <1>1 DEF All
<1>4. OtherTypes'
    BY <1>1 DEF LogInv, OtherTypes, All, starting, history, Phases
<1>5. Control'
    BY <1>1, <1>3 DEF LogInv, Control, StepOf, Deleting, starting
<1>6. GpuLogInv'
  <2>1. LogOk(Record \cup {Empty}, glog, {}, NumFiles * Rounds)
      BY <1>2 DEF LogInv, GpuLogInv
  <2>2. LogOk(Record \cup {Empty}, persistBitmap(glog), {}, NumFiles * Rounds)
      BY <2>1, OkPersist
  <2> QED BY <1>1, <1>2, <2>2 DEF GpuLogInv
<1>7. NvmeLogInv'
    BY <1>1, <1>2, <1>3, KeepNvmeLogs DEF LogInv, starting
<1> QED BY <1>4, <1>5, <1>6, <1>7 DEF LogInv

\* The log that a kill between header and bitmap leaves.
LEMMA OkKilledAtHeader ==
    ASSUME NEW R, NEW l, NEW res, NEW n \in Nat, NEW m \in BOOLEAN, LogOk(R, l, res, n)
    PROVE  LogOk(R, KilledAtHeader(l, m), {}, n)
<1>1. PICK k : k = Killed(l, TRUE)
    OBVIOUS
<1>2. LogOk(R, k, {}, n)
    BY <1>1, OkKilled
<1>3. KilledAtHeader(l, m) = [k EXCEPT !.stale = m]
    BY <1>1 DEF KilledAtHeader
<1>4. /\ KilledAtHeader(l, m) \in LogsOf(R) /\ KilledAtHeader(l, m).bits = k.bits
      /\ KilledAtHeader(l, m).disk = k.disk /\ KilledAtHeader(l, m).recs = k.recs
      /\ KilledAtHeader(l, m).buf = k.buf
    BY <1>2, <1>3 DEF LogOk, LogsOf
<1> QED BY <1>2, <1>4 DEF LogOk, WellWritten, Eff

\* Wherever a kill falls, it leaves the GPU log in order.
LEMMA GpuLeft ==
    ASSUME LogInv, NEW n \in Nat, n = NumFiles * Rounds, NEW gl \in GpuLogsLeft
    PROVE  LogOk(Record \cup {Empty}, gl, {}, n) /\ gl.buf = NoBuf
<1>1. PICK R : R = Record \cup {Empty}
    OBVIOUS
<1>2. LogOk(R, glog, Reserved, n) /\ glog \in LogsOf(R)
    BY <1>1 DEF LogInv, GpuLogInv, LogOk
<1>3. ASSUME NEW w \in BOOLEAN, gl = Killed(glog, w) PROVE LogOk(R, gl, {}, n) /\ gl.buf = NoBuf
  <2>1. LogOk(R, Killed(glog, w), {}, n)
      BY <1>2, OkKilled
  <2>2. Killed(glog, w).buf = NoBuf
      BY <1>2, KilledLog
  <2> QED BY <1>3, <2>1, <2>2
<1>4. ASSUME NEW i \in Slots, gl = Killed(writeRecordToSlot(glog, i, Empty), TRUE)
      PROVE  LogOk(R, gl, {}, n) /\ gl.buf = NoBuf
  <2>1. PICK l : l = writeRecordToSlot(glog, i, Empty)
      OBVIOUS
  <2>2. Empty \in R /\ Empty # NoRec
      BY <1>1, RecordAssumption
  <2>3. LogOk(R, l, Reserved \ {i}, n)
      BY <1>2, <2>1, <2>2, OkWrite
  <2>4. l \in LogsOf(R) /\ TRUE \in BOOLEAN
      BY <2>3 DEF LogOk
  <2>5. LogOk(R, Killed(l, TRUE), {}, n)
      BY <2>3, <2>4, OkKilled
  <2>6. Killed(l, TRUE).buf = NoBuf
      BY <2>4, KilledLog
  <2> QED BY <1>4, <2>1, <2>5, <2>6
<1>5. \/ \E w \in BOOLEAN : gl = Killed(glog, w)
      \/ \E i \in Slots : gl = Killed(writeRecordToSlot(glog, i, Empty), TRUE)
    BY DEF GpuLogsLeft, LogInv, OtherTypes
<1> QED BY <1>1, <1>3, <1>4, <1>5

\* ... and a device's log.
LEMMA NvmeLeft ==
    ASSUME LogInv, NEW n \in Nat, n = NumFiles * Rounds, NEW d \in Devices,
           NEW l \in NvmeLogsLeft(d)
    PROVE  LogOk({Valid}, l, {}, n)
<1>1. PICK w : w = IF at[d] = "record"
                   THEN writeRecordToSlot(nlog[d], findNextFreeSlot(nlog[d]), Valid)
                   ELSE nlog[d]
    OBVIOUS
<1>2. LogOk({Valid}, nlog[d], {}, n) /\ nlog[d] \in LogsOf({Valid})
    BY DEF LogInv, NvmeLogInv, LogOk
<1>3. LogOk({Valid}, w, {}, n)
  <2>1. CASE at[d] = "record"
    <3>1. PICK id : id = findNextFreeSlot(nlog[d])
        OBVIOUS
    <3>2. Cardinality(nlog[d].bits) < NumFiles * MaxStarts
      <4>1. /\ Cardinality(nlog[d].bits) \in Nat /\ NumFiles * starts \in Nat
            /\ Cardinality(nlog[d].bits) < NumFiles * starts
            /\ NumFiles * starts <= NumFiles * MaxStarts /\ NumFiles * MaxStarts \in Nat
          BY <2>1, RoomOnDevice
      <4> QED BY <4>1
    <3>3. id \in Slots /\ Valid \in {Valid} /\ Valid # NoRec /\ {} \ {id} = {}
        BY <1>2, <3>1, <3>2, NextFreeSlot, RecordAssumption
    <3>4. LogOk({Valid}, writeRecordToSlot(nlog[d], id, Valid), {} \ {id}, n)
        BY <1>2, <3>3, OkWrite
    <3> QED BY <1>1, <2>1, <3>1, <3>3, <3>4
  <2>2. CASE at[d] # "record"
      BY <1>1, <1>2, <2>2
  <2> QED BY <2>1, <2>2
<1>4. \/ \E x \in BOOLEAN : l = Killed(nlog[d], x)
      \/ l = Killed(w, TRUE)
      \/ \E m \in BOOLEAN : l = KilledAtHeader(w, m)
    BY <1>1 DEF NvmeLogsLeft
<1>5. TRUE \in BOOLEAN
    OBVIOUS
<1> QED BY <1>2, <1>3, <1>4, <1>5, OkKilled, OkKilledAtHeader

\* Whatever ends the process leaves the logs in order.
LEMMA GoneLog ==
    ASSUME LogInv, NEW gl, NEW nl, Gone(gl, nl), lossy' \in BOOLEAN,
           gl \in GpuLogsLeft, nl = [d \in Devices |-> nl[d]],
           \A d \in Devices : nl[d] \in NvmeLogsLeft(d)
    PROVE  LogInv'
<1>1. /\ phase' = "down" /\ glog' = gl /\ nlog' = nl
      /\ desc' = NoDesc /\ slots' = << >> /\ done' = 0 /\ free_list' = << >> /\ opened' = {}
      /\ fds' = NoFds /\ at' = All("idle") /\ todo' = All(<< >>) /\ deleting' = -1
      /\ UNCHANGED <<starting, files, io_failed>>
    BY DEF Gone
<1>2. PICK n \in Nat : n = NumFiles * Rounds
    BY RoundsNat
<1>3. PICK m \in Nat : m = NumFiles * starts
    BY RoundsNat
<1>4. Rounds' = starts /\ Reserved' = {} /\ starts' = starts
    BY <1>1 DEF Rounds, Reserved, starting
<1>5. n <= m
  <2>1. Rounds \in Nat /\ starts \in Nat /\ Rounds <= starts /\ NumFiles \in Nat
      BY RoundsNat
  <2> HIDE DEF Rounds
  <2>2. CASE Rounds = starts
      BY <1>2, <1>3, <2>2
  <2>3. CASE Rounds < starts
    <3>1. NumFiles * Rounds + NumFiles <= NumFiles * starts
        BY <2>1, <2>3, Products
    <3>2. n + NumFiles <= m
        BY <1>2, <1>3, <3>1
    <3> QED BY <1>2, <1>3, <2>1, <3>2
  <2> QED BY <2>1, <2>2, <2>3
<1>6. \A d \in Devices : at'[d] = "idle" /\ todo'[d] = << >>
    BY <1>1 DEF All
<1>7. OtherTypes'
  <2>1. desc' \in [Slots -> Record \cup {NoRec}] /\ fds' \in [Devices -> [Slots -> Slots \cup {NoRec}]]
      BY <1>1 DEF NoDesc, NoFds
  <2>2. at' \in [Devices -> {"idle"}] /\ todo' \in [Devices -> Seq(Slots)]
      BY <1>1 DEF All
  <2>3. done' \in 0 .. NumFiles
      BY <1>1, SlotsAssumption
  <2> QED BY <1>1, <2>1, <2>2, <2>3 DEF LogInv, OtherTypes, starting, Phases
<1>8. Control'
    BY <1>1, <1>6 DEF Control, StepOf, Deleting
<1>9. n \in Int /\ m \in Int
    BY <1>2, <1>3
<1>10. GpuLogInv'
  <2>1. LogOk(Record \cup {Empty}, gl, {}, n)
      BY <1>2, GpuLeft
  <2>2. LogOk(Record \cup {Empty}, gl, {}, m)
      BY <1>5, <1>9, <2>1, OkMore
  <2> QED BY <1>1, <1>3, <1>4, <2>2 DEF GpuLogInv
<1>11. NvmeLogInv'
  <2>1. ASSUME NEW d \in Devices PROVE LogOk({Valid}, nlog'[d], {}, m)
    <3>1. LogOk({Valid}, nl[d], {}, n)
        BY <1>2, NvmeLeft
    <3>2. LogOk({Valid}, nl[d], {}, m)
        BY <1>5, <1>9, <3>1, OkMore
    <3> QED BY <1>1, <3>2
  <2>2. DOMAIN nlog' = Devices /\ nlog' = [d \in Devices |-> nlog'[d]]
      BY <1>1
  <2> QED BY <1>3, <1>4, <1>6, <2>1, <2>2 DEF NvmeLogInv
<1> QED BY <1>7, <1>8, <1>10, <1>11 DEF LogInv

LEMMA ExitLog == ASSUME LogInv, Exit PROVE LogInv'
<1>1. PICK nl : nl = [d \in Devices |-> Killed(nlog[d], TRUE)]
    OBVIOUS
<1>2. Gone(Killed(glog, TRUE), nl) /\ lossy' \in BOOLEAN
    BY <1>1 DEF Exit, LogInv, OtherTypes
<1>3. Killed(glog, TRUE) \in GpuLogsLeft
    BY DEF GpuLogsLeft
<1>4. nl = [d \in Devices |-> nl[d]] /\ \A d \in Devices : nl[d] \in NvmeLogsLeft(d)
    BY <1>1 DEF NvmeLogsLeft
<1> QED BY <1>2, <1>3, <1>4, GoneLog

LEMMA CrashLog == ASSUME LogInv, Crash PROVE LogInv'
<1>1. PICK gl \in GpuLogsLeft, nl \in [Devices -> UNION {NvmeLogsLeft(d) : d \in Devices}] :
          Gone(gl, nl) /\ \A d \in Devices : nl[d] \in NvmeLogsLeft(d)
    BY DEF Crash
<1>2. lossy' \in BOOLEAN /\ nl = [d \in Devices |-> nl[d]]
    BY DEF Crash, LogInv, OtherTypes
<1> QED BY <1>1, <1>2, GoneLog

LEMMA UnchangedLog == ASSUME LogInv, UNCHANGED vars PROVE LogInv'
<1>1. Rounds' = Rounds /\ Reserved' = Reserved
    BY DEF Rounds, Reserved, vars, starting, gpuVars
<1>2. OtherTypes'
    BY DEF LogInv, OtherTypes, vars, starting, gpuVars, nvmeVars, history
<1>3. Control'
    BY DEF LogInv, Control, StepOf, Deleting, vars, starting, gpuVars, nvmeVars
<1> QED BY <1>1, <1>2, <1>3, KeepGpuLog, KeepNvmeLogs DEF LogInv, vars, starting, gpuVars, nvmeVars

LEMMA WorkLog == ASSUME LogInv, Work PROVE LogInv'
<1>1. ASSUME NEW d \in Devices,
             \/ UnlinkNext(d) \/ ForgetUnlinked(d)
             \/ UnlinkRest(d) \/ ForgetRest(d) \/ FinishPurge(d)
             \/ createFile(d) \/ CreateOnDisk(d) \/ CreateFails(d) \/ CloseDevice(d)
      PROVE  LogInv'
    BY <1>1, UnlinkNextLog, ForgetUnlinkedLog, UnlinkRestLog, ForgetRestLog, FinishPurgeLog,
       CreateFileLog, CreateOnDiskLog, CreateFailsLog, CloseDeviceLog
<1> QED BY <1>1, InitializeLog, BeginDeleteLog, DeleteLog, ResetRestLog, FinishResetLog,
           CheckExistingLog, GatherResultsLog, WriteRecordLog, CreateGpuLog, InitGpuFileLog,
           InitFailsLog, FinishInitLog, ExitLog DEF Work

LEMMA NextLog == ASSUME LogInv, [Next]_vars PROVE LogInv'
BY StartLog, WorkLog, OpenGpuFileLog, CloseGpuFileLog, CleanupLog, CrashLog, UnchangedLog
   DEF Next, Done

\* The logs are in order in every reachable state: within their bounds, every
\* bit on disk with its record, and every slot in use with one on its way.
THEOREM LogsInOrder == Spec => []LogInv
<1>1. Init => LogInv
    BY InitLog
<1>2. LogInv /\ [Next]_vars => LogInv'
    BY NextLog
<1> QED BY <1>1, <1>2, PTL DEF Spec

\* The type invariant, for any number of devices, files and starts: slots never
\* run out, so that findMultipleFreeSlots and findNextFreeSlot find what they
\* look for, and the pending counts stay below the threshold.
THEOREM GpuFilesTypeOK == Spec => []TypeOK
<1>1. ASSUME LogInv PROVE TypeOK
  <2>1. glog \in LogsOf(Record \cup {Empty})
      BY <1>1 DEF LogInv, GpuLogInv, LogOk
  <2>2. nlog \in [Devices -> LogsOf({Valid})]
    <3>1. \A d \in Devices : nlog[d] \in LogsOf({Valid})
        BY <1>1 DEF LogInv, NvmeLogInv, LogOk
    <3>2. nlog = [d \in Devices |-> nlog[d]]
        BY <1>1 DEF LogInv, NvmeLogInv
    <3> QED BY <3>1, <3>2
  <2> QED BY <1>1, <2>1, <2>2 DEF LogInv, OtherTypes, TypeOK
<1> QED BY <1>1, LogsInOrder, PTL

\* A restart never trusts a slot nothing was written to: in the GPU log and in
\* every device's log, a bit on disk has its record on disk, wherever the
\* process was killed.
THEOREM GpuFilesRecordBeforeBit == Spec => []RecordBeforeBit
<1>1. ASSUME LogInv PROVE RecordBeforeBit
  <2>1. \A i \in glog.disk : glog.recs[i] # NoRec
      BY <1>1 DEF LogInv, GpuLogInv, LogOk, WellWritten
  <2>2. ASSUME NEW d \in Devices, NEW i \in nlog[d].disk
        PROVE  nlog[d].recs[i] = Valid
    <3>1. nlog[d] \in LogsOf({Valid}) /\ nlog[d].recs[i] # NoRec
        BY <1>1, <2>2 DEF LogInv, NvmeLogInv, LogOk, WellWritten
    <3> QED BY <3>1, <2>2 DEF LogsOf
  <2> QED BY <2>1, <2>2 DEF RecordBeforeBit
<1> QED BY <1>1, LogsInOrder, PTL

-----------------------------------------------------------------------------
(* The free list. *)

Sorted(s) == \A k, l \in DOMAIN s : k < l => s[k] < s[l]

\* The first n GPU files are known, with descriptors on every device.
FilesInit(n) == \A i \in 0 .. n - 1 : i \in Known /\ Unopened(i) = {}

\* initGPUFile has put the files below done on the free list, in order.
FreeInv ==
    /\ Sorted(free_list)
    /\ Range(free_list) \cap opened = {}
    /\ phase = "init" => opened = {} /\ Range(free_list) = 0 .. done - 1 /\ FilesInit(done)
    /\ phase = "ready" => Range(free_list) \cup opened = 0 .. NumFiles - 1 /\ FilesInit(NumFiles)
    /\ phase \notin {"init", "ready", "failed", "closing"} => free_list = << >> /\ opened = {}

LEMMA SortedAppend ==
    ASSUME NEW s \in Seq(Nat), NEW n \in Nat, Sorted(s), Range(s) = 0 .. n - 1
    PROVE  Sorted(Append(s, n)) /\ Range(Append(s, n)) = 0 .. n
<1> DEFINE t == Append(s, n)
<1>1. /\ Len(s) \in Nat /\ DOMAIN s = 1 .. Len(s) /\ DOMAIN t = 1 .. Len(s) + 1
      /\ t[Len(s) + 1] = n /\ \A k \in 1 .. Len(s) : t[k] = s[k] /\ s[k] \in Nat
    OBVIOUS
<1> HIDE DEF t
<1>2. \A k \in 1 .. Len(s) : s[k] < n
  <2>1. \A k \in 1 .. Len(s) : s[k] \in Range(s)
      BY <1>1 DEF Range
  <2> QED BY <2>1
<1>3. Sorted(t)
  <2> SUFFICES ASSUME NEW k \in 1 .. Len(s) + 1, NEW l \in 1 .. Len(s) + 1, k < l
               PROVE  t[k] < t[l]
      BY <1>1 DEF Sorted
  <2>1. k \in 1 .. Len(s)
      BY <1>1
  <2>2. CASE l = Len(s) + 1
      BY <1>1, <1>2, <2>1, <2>2
  <2>3. CASE l # Len(s) + 1
    <3>0. Len(s) \in Nat
        BY <1>1
    <3>1. l \in 1 .. Len(s)
        BY <2>3, <3>0
    <3> QED BY <1>1, <2>1, <3>1 DEF Sorted
  <2> QED BY <2>2, <2>3
<1>4. Range(t) = 0 .. n
  <2>1. Range(t) = Range(s) \cup {n}
      BY AppendRange DEF t
  <2>2. 0 .. n = (0 .. n - 1) \cup {n}
      OBVIOUS
  <2> QED BY <2>1, <2>2
<1> QED BY <1>3, <1>4 DEF t

LEMMA SortedFront ==
    ASSUME NEW s \in Seq(Nat), s # << >>, Sorted(s)
    PROVE  /\ Sorted(Front(s)) /\ Last(s) \in Range(s)
           /\ \A x : x \in Range(Front(s)) <=> x \in Range(s) /\ x # Last(s)
<1> DEFINE t == Front(s)
<1>0. PICK n \in Nat : n = Len(s) /\ n >= 1
    OBVIOUS
<1>1. /\ DOMAIN s = 1 .. n /\ DOMAIN t = 1 .. n - 1
      /\ Last(s) = s[n] /\ \A k \in 1 .. n - 1 : t[k] = s[k]
      /\ \A k \in 1 .. n : s[k] \in Nat
    BY <1>0 DEF Last, Front
<1>2. \A k, l \in 1 .. n : k < l => s[k] < s[l]
    BY <1>1 DEF Sorted
<1> HIDE DEF t
<1>3. Sorted(t)
  <2> SUFFICES ASSUME NEW k \in 1 .. n - 1, NEW l \in 1 .. n - 1, k < l PROVE t[k] < t[l]
      BY <1>1 DEF Sorted
  <2>1. k \in 1 .. n /\ l \in 1 .. n
      BY <1>0
  <2> QED BY <1>1, <1>2, <2>1
<1>4. Last(s) \in Range(s)
    BY <1>0, <1>1, n \in 1 .. n DEF Range
<1>5. \A k \in 1 .. n : s[k] = Last(s) <=> k = n
  <2>1. ASSUME NEW k \in 1 .. n, k # n PROVE s[k] < s[n]
    <3>1. n \in 1 .. n /\ k < n
        BY <1>0, <2>1
    <3> QED BY <1>2, <3>1
  <2>2. n \in 1 .. n
      BY <1>0
  <2>3. ASSUME NEW k \in 1 .. n, k # n PROVE s[k] # s[n]
    <3>1. s[k] \in Nat /\ s[n] \in Nat /\ s[k] < s[n]
        BY <1>1, <2>1, <2>2, <2>3
    <3> QED BY <3>1
  <2> QED BY <1>1, <2>3
<1>6. ASSUME NEW x PROVE x \in Range(t) <=> x \in Range(s) /\ x # Last(s)
  <2>1. ASSUME x \in Range(t) PROVE x \in Range(s) /\ x # Last(s)
    <3>1. PICK k \in 1 .. n - 1 : x = t[k]
        BY <1>1, <2>1 DEF Range
    <3>2. k \in 1 .. n /\ k # n
        BY <1>0
    <3>3. x = s[k]
        BY <1>1, <3>1
    <3> QED BY <1>1, <1>5, <3>2, <3>3 DEF Range
  <2>2. ASSUME x \in Range(s), x # Last(s) PROVE x \in Range(t)
    <3>1. PICK k \in 1 .. n : x = s[k]
        BY <1>1, <2>2 DEF Range
    <3>2. k # n
        BY <1>5, <2>2, <3>1
    <3>3. k \in 1 .. n - 1
        BY <1>0, <3>2
    <3> QED BY <1>1, <3>1, <3>3 DEF Range
  <2> QED BY <2>1, <2>2
<1> QED BY <1>3, <1>4, <1>6 DEF t

\* In a sorted sequence the elements below i are the first ones.
LEMMA SortedBelow ==
    ASSUME NEW s \in Seq(Nat), Sorted(s), NEW i \in Nat,
           NEW b \in Nat, b = Cardinality({k \in DOMAIN s : s[k] < i})
    PROVE  \A k \in 1 .. Len(s) : s[k] < i <=> k <= b
<1> DEFINE B == {k \in 1 .. Len(s) : s[k] < i}
           T == {k \in 1 .. Len(s) + 1 : k \notin B}
<1>1. /\ Len(s) \in Nat /\ DOMAIN s = 1 .. Len(s) /\ \A k \in 1 .. Len(s) : s[k] \in Nat
    OBVIOUS
<1>2. b = Cardinality(B)
    BY <1>1
<1>3. T \subseteq Nat /\ T # {}
  <2>1. Len(s) + 1 \in T
      BY <1>1
  <2> QED BY <1>1, <2>1
<1>4. PICK m \in T : \A y \in T : m <= y
  <2> HIDE DEF T
  <2> QED BY <1>3, NatMin
<1>5. m \in 1 .. Len(s) + 1 /\ m \notin B
    BY <1>4
<1>6. \A k \in 1 .. Len(s) : k < m => k \in B
    BY <1>1, <1>4, <1>5
<1>7. \A k \in 1 .. Len(s) : k \in B => k < m
  <2> SUFFICES ASSUME NEW k \in 1 .. Len(s), s[k] < i, ~(k < m) PROVE FALSE
      OBVIOUS
  <2>1. m \in 1 .. Len(s) /\ s[m] \in Nat /\ ~(s[m] < i)
      BY <1>1, <1>5
  <2>2. \A u, v \in 1 .. Len(s) : u < v => s[u] < s[v]
      BY <1>1 DEF Sorted
  <2>3. m = k \/ m < k
      BY <1>1, <2>1
  <2>4. m = k \/ s[m] < s[k]
      BY <2>1, <2>2, <2>3
  <2>5. s[k] \in Nat /\ s[m] \in Nat
      BY <1>1, <2>1
  <2>6. CASE m = k
      BY <2>1, <2>6
  <2>7. CASE s[m] < s[k]
      BY <2>1, <2>5, <2>7
  <2> QED BY <2>4, <2>6, <2>7
<1>8. B = 1 .. m - 1
    BY <1>1, <1>5, <1>6, <1>7
<1>9. b = m - 1
  <2>1. m - 1 \in Nat
      BY <1>1, <1>5
  <2>2. Cardinality(1 .. m - 1) = m - 1
      BY <2>1, FS_Interval
  <2> QED BY <1>2, <1>8, <2>2
<1> QED BY <1>1, <1>5, <1>8, <1>9

LEMMA SortedInsert ==
    ASSUME NEW s \in Seq(Slots), Sorted(s), NEW i \in Slots, i \notin Range(s),
           NEW b \in 0 .. Len(s), b = Cardinality({k \in DOMAIN s : s[k] < i}),
           NEW t, Inserted(t, Slots, s, b, i)
    PROVE  Sorted(t) /\ Range(t) = Range(s) \cup {i}
<1>1. /\ Len(s) \in Nat /\ DOMAIN s = 1 .. Len(s) /\ \A k \in 1 .. Len(s) : s[k] \in Nat /\ s[k] # i
      /\ i \in Nat /\ b \in Nat /\ s \in Seq(Nat)
  <2>1. Len(s) \in Nat /\ DOMAIN s = 1 .. Len(s) /\ \A k \in 1 .. Len(s) : s[k] \in Slots
      OBVIOUS
  <2>2. \A k \in 1 .. Len(s) : s[k] # i
      BY <2>1 DEF Range
  <2>3. \A x \in Slots : x \in Nat
      BY NoSlot
  <2>4. s \in [1 .. Len(s) -> Nat]
      BY <2>1, <2>3
  <2>5. s \in Seq(Nat)
      BY <2>1, <2>4, FunctionSeq
  <2> QED BY <2>1, <2>2, <2>3, <2>5
<1>2. \A k \in 1 .. Len(s) : s[k] < i <=> k <= b
    BY <1>1, SortedBelow
<1>3. /\ DOMAIN t = 1 .. Len(s) + 1 /\ t[b + 1] = i
      /\ \A k \in 1 .. b : t[k] = s[k]
      /\ \A k \in b + 2 .. Len(s) + 1 : t[k] = s[k - 1]
  <2>1. t \in Seq(Slots) /\ Len(t) = Len(s) + 1
      BY DEF Inserted
  <2>2. \A k \in 1 .. Len(s) + 1 : t[k] = IF k <= b THEN s[k] ELSE IF k = b + 1 THEN i ELSE s[k - 1]
      BY DEF Inserted
  <2>3. DOMAIN t = 1 .. Len(s) + 1
      BY <2>1
  <2>4. t[b + 1] = i
      BY <1>1, <2>2, b + 1 \in 1 .. Len(s) + 1, ~(b + 1 <= b)
  <2>5. \A k \in 1 .. b : t[k] = s[k]
      BY <1>1, <2>2, \A k \in 1 .. b : k \in 1 .. Len(s) + 1 /\ k <= b
  <2>6. \A k \in b + 2 .. Len(s) + 1 : t[k] = s[k - 1]
      BY <1>1, <2>2, \A k \in b + 2 .. Len(s) + 1 : k \in 1 .. Len(s) + 1 /\ ~(k <= b) /\ k # b + 1
  <2> QED BY <2>3, <2>4, <2>5, <2>6
<1>4. \A k, l \in 1 .. Len(s) : k < l => s[k] < s[l]
    BY <1>1 DEF Sorted
<1>5. Sorted(t)
  <2> SUFFICES ASSUME NEW k \in 1 .. Len(s) + 1, NEW l \in 1 .. Len(s) + 1, k < l
               PROVE  t[k] < t[l]
      BY <1>3 DEF Sorted
  <2>1. CASE l <= b
    <3>1. k \in 1 .. b /\ l \in 1 .. b /\ k \in 1 .. Len(s) /\ l \in 1 .. Len(s)
        BY <1>1, <2>1
    <3> QED BY <1>3, <1>4, <3>1
  <2>2. CASE l = b + 1
    <3>1. k \in 1 .. b /\ k \in 1 .. Len(s) /\ k <= b
        BY <1>1, <2>2
    <3> QED BY <1>2, <1>3, <2>2, <3>1
  <2>3. CASE l > b + 1
    <3>1. l \in b + 2 .. Len(s) + 1 /\ l - 1 \in 1 .. Len(s) /\ ~(l - 1 <= b)
        BY <1>1, <2>3
    <3>2. t[l] = s[l - 1] /\ s[l - 1] \in Nat /\ i < s[l - 1]
      <4>1. t[l] = s[l - 1] /\ s[l - 1] \in Nat /\ s[l - 1] # i /\ ~(s[l - 1] < i)
          BY <1>1, <1>2, <1>3, <3>1
      <4> QED BY <1>1, <4>1
    <3>3. CASE k <= b
      <4>1. k \in 1 .. b /\ k \in 1 .. Len(s)
          BY <1>1, <3>3
      <4>2. t[k] = s[k] /\ s[k] < i /\ s[k] \in Nat
          BY <1>1, <1>2, <1>3, <3>3, <4>1
      <4> QED BY <1>1, <3>2, <4>2
    <3>4. CASE k = b + 1
        BY <1>3, <3>2, <3>4
    <3>5. CASE k > b + 1
      <4>1. k \in b + 2 .. Len(s) + 1 /\ k - 1 \in 1 .. Len(s) /\ k - 1 < l - 1
          BY <1>1, <3>5
      <4>2. t[k] = s[k - 1]
          BY <1>3, <4>1
      <4> QED BY <1>4, <3>1, <3>2, <4>1, <4>2
    <3> QED BY <1>1, <3>3, <3>4, <3>5
  <2>4. l \in Nat /\ b \in Nat
      BY <1>1
  <2>5. l <= b \/ l = b + 1 \/ l > b + 1
      BY <2>4
  <2> QED BY <2>1, <2>2, <2>3, <2>5
<1>6. \A x : x \in Range(t) <=> x \in Range(s) \cup {i}
  <2> SUFFICES ASSUME NEW x PROVE x \in Range(t) <=> x \in Range(s) \cup {i}
      OBVIOUS
  <2>1. ASSUME x \in Range(t) PROVE x \in Range(s) \cup {i}
    <3>1. PICK k \in 1 .. Len(s) + 1 : x = t[k]
        BY <1>3, <2>1 DEF Range
    <3>2. CASE k <= b
        BY <1>1, <1>3, <3>1, <3>2, k \in 1 .. b, k \in 1 .. Len(s) DEF Range
    <3>3. CASE k = b + 1
        BY <1>3, <3>1, <3>3
    <3>4. CASE k > b + 1
        BY <1>1, <1>3, <3>1, <3>4, k \in b + 2 .. Len(s) + 1, k - 1 \in 1 .. Len(s) DEF Range
    <3> QED BY <1>1, <3>2, <3>3, <3>4
  <2>2. ASSUME x \in Range(s) PROVE x \in Range(t)
    <3>1. PICK k \in 1 .. Len(s) : x = s[k]
        BY <1>1, <2>2 DEF Range
    <3>2. CASE k <= b
      <4>1. k \in 1 .. b /\ k \in DOMAIN t
          BY <1>1, <1>3, <3>2
      <4> QED BY <1>3, <3>1, <4>1 DEF Range
    <3>3. CASE k > b
      <4>1. k + 1 \in b + 2 .. Len(s) + 1 /\ k + 1 \in DOMAIN t /\ (k + 1) - 1 = k
          BY <1>1, <1>3, <3>3
      <4>2. t[k + 1] = s[k]
          BY <1>3, <4>1
      <4> QED BY <3>1, <4>1, <4>2 DEF Range
    <3> QED BY <1>1, <3>2, <3>3
  <2>3. i \in Range(t)
      BY <1>1, <1>3, b + 1 \in 1 .. Len(s) + 1 DEF Range
  <2> QED BY <2>1, <2>2, <2>3
<1> QED BY <1>5, <1>6

\* A step that leaves the files handed out alone.
LEMMA KeepFree ==
    ASSUME FreeInv, UNCHANGED <<free_list, opened>>,
           \/ UNCHANGED <<phase, done, desc, fds>>
           \/ phase' \in {"failed", "closing"}
           \/ phase' \notin {"init", "ready"} /\ free_list = << >> /\ opened = {}
           \/ phase' = "init" /\ done' = 0 /\ free_list = << >> /\ opened = {}
    PROVE  FreeInv'
<1>1. CASE UNCHANGED <<phase, done, desc, fds>>
  <2>1. \A n : FilesInit(n)' <=> FilesInit(n)
      BY <1>1 DEF FilesInit, Known, Unopened
  <2> QED BY <1>1, <2>1 DEF FreeInv
<1>2. CASE phase' \in {"failed", "closing"}
    BY <1>2 DEF FreeInv
<1>3. CASE phase' \notin {"init", "ready"} /\ free_list = << >> /\ opened = {}
    BY <1>3 DEF FreeInv
<1>4. CASE phase' = "init" /\ done' = 0 /\ free_list = << >> /\ opened = {}
  <2>1. Range(free_list') = {} /\ 0 .. done' - 1 = {}
      BY <1>4 DEF Range
  <2>2. FilesInit(done)'
      BY <2>1 DEF FilesInit
  <2> QED BY <1>4, <2>1, <2>2 DEF FreeInv
<1> QED BY <1>1, <1>2, <1>3, <1>4

LEMMA InitFree == Init => FreeInv
BY DEF Init, FreeInv, Sorted, Range

LEMMA FreeNat == ASSUME LogInv PROVE free_list \in Seq(Nat)
<1>1. free_list \in Seq(Slots)
    BY DEF LogInv, OtherTypes
<1>2. PICK n \in Nat : n = Len(free_list)
    BY <1>1
<1>3. free_list \in [1 .. n -> Slots]
    BY <1>1, <1>2
<1>4. free_list \in [1 .. n -> Nat]
    BY <1>3, NoSlot
<1> QED BY <1>4, FunctionSeq

LEMMA InitGpuFileFree == ASSUME LogInv, FreeInv, initGPUFile PROVE FreeInv'
<1>1. /\ phase = "init" /\ phase' = "init" /\ done < NumFiles /\ done \in Known
      /\ free_list' = Append(free_list, done) /\ done' = done + 1
      /\ UNCHANGED <<desc, opened>>
    BY DEF initGPUFile
<1>2. PICK f \in [Devices -> Slots] :
          fds' = [d \in Devices |-> [fds[d] EXCEPT ![desc[done].nvme[d]] = f[d]]]
    BY DEF initGPUFile
<1>3. /\ done \in Nat /\ free_list \in Seq(Slots) /\ opened = {} /\ Sorted(free_list)
      /\ Range(free_list) = 0 .. done - 1 /\ FilesInit(done)
      /\ fds \in [Devices -> [Slots -> Slots \cup {NoRec}]]
      /\ desc \in [Slots -> Record \cup {NoRec}]
    BY <1>1, SlotsAssumption DEF FreeInv, LogInv, OtherTypes
<1>4. free_list \in Seq(Nat)
    BY FreeNat
<1>5. Sorted(free_list') /\ Range(free_list') = 0 .. done
    BY <1>1, <1>3, <1>4, SortedAppend
<1>7. done' - 1 = done /\ opened' = {}
    BY <1>1, <1>3
<1>6. FilesInit(done)'
  <2> SUFFICES ASSUME NEW i \in 0 .. done PROVE i \in Known' /\ Unopened(i)' = {}
      BY <1>7 DEF FilesInit
  <2>1. i = done \/ i \in 0 .. done - 1
      BY <1>3
  <2>2. i \in Known /\ i \in Slots /\ desc[i] \in Record
      BY <1>1, <1>3, <2>1 DEF FilesInit, Known
  <2>3. \A d \in Devices : desc[i].nvme[d] \in Slots /\ desc[done].nvme[d] \in Slots
      BY <1>1, <1>3, <2>2 DEF Record, Known
  <2>4. \A d \in Devices : fds'[d][desc[i].nvme[d]] =
            IF desc[i].nvme[d] = desc[done].nvme[d] THEN f[d] ELSE fds[d][desc[i].nvme[d]]
      BY <1>2, <1>3, <2>3
  <2>5. \A d \in Devices : f[d] # NoRec
      BY <1>2, RecordAssumption
  <2>6. i # done => \A d \in Devices : fds[d][desc[i].nvme[d]] # NoRec
      BY <1>3, <2>1 DEF FilesInit, Unopened
  <2>7. \A d \in Devices : fds'[d][desc'[i].nvme[d]] # NoRec
      BY <1>1, <2>4, <2>5, <2>6
  <2> QED BY <1>1, <2>2, <2>7 DEF Known, Unopened
<1> QED BY <1>1, <1>5, <1>6, <1>7 DEF FreeInv

LEMMA FinishInitFree == ASSUME LogInv, FreeInv, FinishInit PROVE FreeInv'
<1>1. /\ phase = "init" /\ phase' = "ready" /\ done = NumFiles
      /\ UNCHANGED <<free_list, opened, desc, fds>>
    BY DEF FinishInit, gpuVars
<1>2. FilesInit(NumFiles)'
    BY <1>1 DEF FreeInv, FilesInit, Known, Unopened
<1> QED BY <1>1, <1>2 DEF FreeInv

\* FilesInit depends on the tables alone.
LEMMA KeepInit ==
    ASSUME FreeInv, phase = "ready", UNCHANGED <<phase, desc, fds>>,
           Sorted(free_list)', Range(free_list') \cap opened' = {},
           Range(free_list') \cup opened' = Range(free_list) \cup opened
    PROVE  FreeInv'
<1>1. FilesInit(NumFiles)'
    BY DEF FreeInv, FilesInit, Known, Unopened
<1> QED BY <1>1 DEF FreeInv

LEMMA OpenFree == ASSUME LogInv, FreeInv, openGPUFile PROVE FreeInv'
<1>1. /\ phase = "ready" /\ free_list # << >> /\ opened' = opened \cup {Last(free_list)}
      /\ free_list' = Front(free_list) /\ UNCHANGED <<phase, desc, fds>>
    BY DEF openGPUFile
<1>2. Sorted(free_list) /\ Range(free_list) \cap opened = {}
    BY DEF FreeInv
<1>3. /\ Sorted(free_list') /\ Last(free_list) \in Range(free_list)
      /\ \A x : x \in Range(free_list') <=> x \in Range(free_list) /\ x # Last(free_list)
    BY <1>1, <1>2, FreeNat, SortedFront
<1>4. Range(free_list') \cap opened' = {}
    BY <1>1, <1>2, <1>3
<1>5. Range(free_list') \cup opened' = Range(free_list) \cup opened
    BY <1>1, <1>3
<1>6. Sorted(free_list)'
    BY <1>3
<1> QED BY <1>1, <1>4, <1>5, <1>6, KeepInit

LEMMA CloseFree == ASSUME LogInv, FreeInv, NEW i \in Slots, closeGPUFile(i) PROVE FreeInv'
<1>1. /\ phase = "ready" /\ i \in opened /\ opened' = opened \ {i}
      /\ UNCHANGED <<phase, desc, fds>>
    BY DEF closeGPUFile
<1>2. /\ Sorted(free_list) /\ Range(free_list) \cap opened = {} /\ i \notin Range(free_list)
      /\ free_list \in Seq(Slots)
    BY <1>1 DEF FreeInv, LogInv, OtherTypes
<1>3. free_list' = InsertFree(i)
    BY <1>2 DEF closeGPUFile
<1>4. PICK b \in 0 .. Len(free_list) :
          /\ b = Cardinality({k \in DOMAIN free_list : free_list[k] < i})
          /\ Inserted(InsertFree(i), Slots, free_list, b, i)
    BY <1>2, InsertedFree
<1>5. Sorted(InsertFree(i)) /\ Range(InsertFree(i)) = Range(free_list) \cup {i}
    BY <1>2, <1>4, SortedInsert
<1>6. Sorted(free_list)' /\ Range(free_list') = Range(free_list) \cup {i}
    BY <1>3, <1>5
<1>7. /\ Range(free_list') \cap opened' = {}
      /\ Range(free_list') \cup opened' = Range(free_list) \cup opened
    BY <1>1, <1>2, <1>6
<1> QED BY <1>1, <1>6, <1>7, KeepInit

LEMMA GoneFree == ASSUME NEW gl, NEW nl, Gone(gl, nl) PROVE FreeInv'
<1>1. phase' = "down" /\ free_list' = << >> /\ opened' = {}
    BY DEF Gone
<1> QED BY <1>1 DEF FreeInv, Sorted, Range

LEMMA WorkFree == ASSUME LogInv, FreeInv, Work PROVE FreeInv'
<1>1. ASSUME NEW d \in Devices,
             \/ UnlinkNext(d) \/ ForgetUnlinked(d)
             \/ UnlinkRest(d) \/ ForgetRest(d) \/ FinishPurge(d)
             \/ createFile(d) \/ CreateOnDisk(d) \/ CreateFails(d) \/ CloseDevice(d)
      PROVE  FreeInv'
  <2>1. UNCHANGED <<phase, gpuVars>>
      BY <1>1 DEF UnlinkNext, ForgetUnlinked, UnlinkRest, ForgetRest, FinishPurge, createFile,
                  CreateOnDisk, CreateFails, CloseDevice
  <2> QED BY <2>1, KeepFree DEF gpuVars
<1>2. ASSUME NEW i \in Slots, BeginDelete(i) PROVE FreeInv'
    BY <1>2, KeepFree DEF BeginDelete, gpuVars
<1>3. CASE initializeLogFile
    BY <1>3, KeepFree DEF initializeLogFile, gpuVars, FreeInv
<1>4. CASE deleteGPUFile
    BY <1>4, KeepFree DEF deleteGPUFile, FreeInv
<1>5. CASE ResetRest
    BY <1>5, KeepFree DEF ResetRest, gpuVars, FreeInv
<1>6. CASE FinishReset
    BY <1>6, KeepFree DEF FinishReset, FreeInv
<1>7. CASE CheckExisting
  <2>1. /\ phase = "check" /\ phase' \in {"init", "create"} /\ done' = 0
        /\ UNCHANGED <<free_list, opened>>
      BY <1>7 DEF CheckExisting
  <2>2. free_list = << >> /\ opened = {}
      BY <2>1 DEF FreeInv
  <2> QED BY <2>1, <2>2, KeepFree
<1>8. CASE GatherResults
  <2>1. phase = "create" /\ phase' \in {"failed", "records"} /\ UNCHANGED <<free_list, opened>>
      BY <1>8 DEF GatherResults
  <2>2. free_list = << >> /\ opened = {}
      BY <2>1 DEF FreeInv
  <2> QED BY <2>1, <2>2, KeepFree
<1>9. CASE WriteRecord
    BY <1>9, KeepFree DEF WriteRecord, FreeInv
<1>10. CASE createGPUFiles
    BY <1>10, KeepFree DEF createGPUFiles, FreeInv
<1>11. CASE initFails
    BY <1>11, KeepFree DEF initFails, gpuVars
<1>12. CASE Exit
    BY <1>12, GoneFree DEF Exit
<1> QED BY <1>1, <1>2, <1>3, <1>4, <1>5, <1>6, <1>7, <1>8, <1>9, <1>10, <1>11, <1>12,
           InitGpuFileFree, FinishInitFree DEF Work

LEMMA NextFree == ASSUME LogInv, FreeInv, [Next]_vars PROVE FreeInv'
<1>1. ASSUME NEW sh \in Shapes, NEW r \in BOOLEAN, Start(sh, r) PROVE FreeInv'
  <2>1. phase = "down" /\ phase' \in {"new_log", "reset", "check"} /\ UNCHANGED <<free_list, opened>>
      BY <1>1 DEF Start
  <2>2. free_list = << >> /\ opened = {}
      BY <2>1 DEF FreeInv
  <2> QED BY <2>1, <2>2, KeepFree
<1>2. CASE cleanup
    BY <1>2, KeepFree DEF cleanup
<1>3. CASE Crash
    BY <1>3, GoneFree DEF Crash
<1>4. CASE UNCHANGED vars
    BY <1>4, KeepFree DEF vars, gpuVars
<1> QED BY <1>1, <1>2, <1>3, <1>4, WorkFree, OpenFree, CloseFree DEF Next, Done

\* The free list stays sorted under open and close, so that the binary search
\* of closeGPUFile finds the right place; free and open files are apart and make
\* up the initialised ones, each with its descriptors.
THEOREM GpuFilesFreeListSound == Spec => []FreeListSound
<1>1. Init => FreeInv
    BY InitFree
<1>2. LogInv /\ FreeInv /\ [Next]_vars => FreeInv'
    BY NextFree
<1>3. FreeInv => FreeListSound
    BY DEF FreeInv, FreeListSound, Sorted, FilesInit
<1> QED BY <1>1, <1>2, <1>3, LogsInOrder, PTL DEF Spec

-----------------------------------------------------------------------------
(* Shapes after a reset. *)

\* Nothing of what was there before a reset is known when files are created.
ShapeInv ==
    /\ phase \in {"down", "new_log"} => Known = {}
    /\ reset /\ phase \in {"reset_rest", "check", "create", "records"} => Known = {}
    /\ reset /\ phase \in {"init", "ready"} => \A i \in Known : desc[i].shape = shape

\* Nothing new is known.
LEMMA KeepShape ==
    ASSUME ShapeInv, UNCHANGED <<shape, reset, desc>>,
           \/ UNCHANGED phase
           \/ phase' \in {"failed", "closing"}
           \/ phase \in {"new_log", "check", "create"} /\ phase' \notin {"down", "new_log"}
           \/ phase = "reset_rest" /\ phase' = "check"
           \/ phase = "init" /\ phase' = "ready"
    PROVE  ShapeInv'
<1>1. Known' = Known
    BY DEF Known
<1> QED BY <1>1 DEF ShapeInv

LEMMA CreateShape == ASSUME LogInv, ShapeInv, createGPUFiles PROVE ShapeInv'
<1>1. /\ phase = "records" /\ phase' = "init" /\ UNCHANGED <<shape, reset>>
      /\ desc' = [i \in Slots |-> IF \E k \in DOMAIN slots : slots[k] = i
                                 THEN NewRecord(CHOOSE k \in DOMAIN slots : slots[k] = i)
                                 ELSE desc[i]]
    BY DEF createGPUFiles, starting
<1>2. \A k : NewRecord(k).shape = shape
    BY DEF NewRecord
<1>3. ASSUME reset, NEW i \in Slots, desc'[i] # NoRec
      PROVE  desc'[i].shape = shape
  <2>1. desc[i] = NoRec
      BY <1>1, <1>3 DEF ShapeInv, Known
  <2> QED BY <1>1, <1>2, <1>3, <2>1
<1> QED BY <1>1, <1>3 DEF ShapeInv, Known

LEMMA WorkShape == ASSUME LogInv, ShapeInv, Work PROVE ShapeInv'
<1>1. ASSUME NEW d \in Devices,
             \/ UnlinkNext(d) \/ ForgetUnlinked(d)
             \/ UnlinkRest(d) \/ ForgetRest(d) \/ FinishPurge(d)
             \/ createFile(d) \/ CreateOnDisk(d) \/ CreateFails(d) \/ CloseDevice(d)
      PROVE  ShapeInv'
  <2>1. UNCHANGED <<phase, starting, gpuVars>>
      BY <1>1 DEF UnlinkNext, ForgetUnlinked, UnlinkRest, ForgetRest, FinishPurge, createFile,
                  CreateOnDisk, CreateFails, CloseDevice
  <2> QED BY <2>1, KeepShape DEF gpuVars, starting
<1>2. ASSUME NEW i \in Slots, BeginDelete(i) PROVE ShapeInv'
    BY <1>2, KeepShape DEF BeginDelete, gpuVars, starting
<1>3. CASE initializeLogFile
    BY <1>3, KeepShape DEF initializeLogFile, gpuVars
<1>4. CASE deleteGPUFile
    BY <1>4 DEF deleteGPUFile, starting, ShapeInv
<1>5. CASE ResetRest
    BY <1>5 DEF ResetRest, gpuVars, starting, ShapeInv, Known
<1>6. CASE FinishReset
    BY <1>6, KeepShape DEF FinishReset, starting
<1>7. CASE CheckExisting
  <2>1. phase = "check" /\ phase' \in {"init", "create"} /\ UNCHANGED <<shape, reset, desc>>
      BY <1>7 DEF CheckExisting, starting
  <2> QED BY <2>1, KeepShape
<1>8. CASE GatherResults
  <2>1. phase = "create" /\ phase' \in {"failed", "records"} /\ UNCHANGED <<shape, reset, desc>>
      BY <1>8 DEF GatherResults, starting
  <2> QED BY <2>1, KeepShape
<1>9. CASE WriteRecord
    BY <1>9, KeepShape DEF WriteRecord, starting
<1>10. CASE initFails
    BY <1>10, KeepShape DEF initFails, gpuVars, starting
<1>11. CASE initGPUFile
    BY <1>11, KeepShape DEF initGPUFile, starting
<1>12. CASE FinishInit
    BY <1>12, KeepShape DEF FinishInit, gpuVars, starting
<1>13. CASE Exit
    BY <1>13 DEF Exit, Gone, ShapeInv, Known, NoDesc
<1> QED BY <1>1, <1>2, <1>3, <1>4, <1>5, <1>6, <1>7, <1>8, <1>9, <1>10, <1>11, <1>12, <1>13,
           CreateShape DEF Work

LEMMA NextShape == ASSUME LogInv, ShapeInv, [Next]_vars PROVE ShapeInv'
<1>1. ASSUME NEW sh \in Shapes, NEW r \in BOOLEAN, Start(sh, r) PROVE ShapeInv'
  <2>1. CASE header = "none"
      BY <1>1, <2>1 DEF Start, ShapeInv, Known
  <2>2. CASE header # "none"
      BY <1>1, <2>2 DEF Start, ShapeInv
  <2> QED BY <2>1, <2>2
<1>2. CASE cleanup
    BY <1>2, KeepShape DEF cleanup, starting
<1>3. CASE Crash
    BY <1>3 DEF Crash, Gone, ShapeInv, Known, NoDesc
<1>4. CASE UNCHANGED vars
    BY <1>4, KeepShape DEF vars, gpuVars, starting
<1>5. CASE openGPUFile
    BY <1>5, KeepShape DEF openGPUFile, starting
<1>6. ASSUME NEW i \in Slots, closeGPUFile(i) PROVE ShapeInv'
    BY <1>6, KeepShape DEF closeGPUFile, starting
<1> QED BY <1>1, <1>2, <1>3, <1>4, <1>5, <1>6, WorkShape DEF Next, Done

\* After a confirmed reset every file handed out has the shape asked for,
\* whatever shapes were there before and however often init was interrupted.
THEOREM GpuFilesResetGivesShape == Spec => []ResetGivesShape
<1>1. Init => ShapeInv
    BY DEF Init, ShapeInv, Known, NoDesc
<1>2. LogInv /\ ShapeInv /\ [Next]_vars => ShapeInv'
    BY NextShape
<1>3. Init => FreeInv
    BY InitFree
<1>4. LogInv /\ FreeInv /\ [Next]_vars => FreeInv'
    BY NextFree
<1>5. FreeInv /\ ShapeInv => ResetGivesShape
    BY DEF FreeInv, FilesInit, ShapeInv, ResetGivesShape
<1> QED BY <1>1, <1>2, <1>3, <1>4, <1>5, LogsInOrder, PTL DEF Spec

-----------------------------------------------------------------------------
(* What is saved is on disk. *)

\* Nothing pending: the bitmap in the file is the one in memory, without the
\* reserved slots.
DiskMatches(l, reserved) ==
    l.pending = 0 => \A i \in Slots : i \in l.disk <=> i \in l.bits /\ i \notin reserved

GpuSaved ==
    /\ header = "none" => phase = "down" /\ glog = EmptyLog
    /\ phase = "new_log" => glog = EmptyLog
    /\ phase = "down" => glog.buf = NoBuf
    /\ phase # "down" /\ header = "valid" => DiskMatches(glog, Range(slots))
    /\ phase # "down" => \A i \in Known :
          i \in glog.bits /\ i \notin Range(slots) /\ Eff(glog, i) = desc[i]
    /\ Injective(slots) /\ Range(slots) \subseteq glog.bits
    /\ phase = "records" => \A k \in 1 .. done : Eff(glog, slots[k]) = NewRecord(k)

NvmeSaved == phase # "down" => \A d \in Devices : DiskMatches(nlog[d], {})

LEMMA MatchPersist ==
    ASSUME NEW R, NEW l \in LogsOf(R) PROVE DiskMatches(persistBitmap(l), {})
<1>1. persistBitmap(l).bits = l.bits /\ persistBitmap(l).disk = l.bits
    BY PersistedLog
<1> QED BY <1>1 DEF DiskMatches

LEMMA MatchCount ==
    ASSUME NEW R, NEW l \in LogsOf(R), NEW n \in Nat, n # 0 PROVE DiskMatches(Count(l, n), {})
<1>1. Count(l, n) = persistBitmap(l) \/ Count(l, n).pending = l.pending + n
    BY CountedLog
<1>2. l.pending \in Nat
    BY ThresholdAssumption DEF LogsOf
<1>3. CASE Count(l, n) = persistBitmap(l)
    BY <1>3, MatchPersist
<1>4. CASE Count(l, n).pending = l.pending + n
  <2>1. l.pending + n # 0
      BY <1>2
  <2> QED BY <1>4, <2>1 DEF DiskMatches
<1> QED BY <1>1, <1>3, <1>4

LEMMA MatchForce ==
    ASSUME NEW R, NEW l \in LogsOf(R), DiskMatches(l, {}) PROVE DiskMatches(ForcePersist(l), {})
BY MatchPersist DEF ForcePersist

LEMMA MatchFlush ==
    ASSUME NEW R, NEW l \in LogsOf(R), DiskMatches(l, {}) PROVE DiskMatches(Flushed(l), {})
<1>1. Flushed(l).bits = l.bits /\ Flushed(l).disk = l.disk /\ Flushed(l).pending = l.pending
    BY FlushedLog
<1> QED BY <1>1 DEF DiskMatches

LEMMA MatchDelete ==
    ASSUME NEW l \in LogsOf({Valid}), NEW x PROVE DiskMatches(deleteFile(l, x), {})
<1> DEFINE b == [l EXCEPT !.bits = @ \ {x}]
<1>1. b \in LogsOf({Valid})
    BY DEF LogsOf
<1> HIDE DEF b
<1>2. DiskMatches(Count(b, 1), {})
    BY <1>1, MatchCount
<1> QED BY <1>2 DEF deleteFile, b

\* One device's log changes and keeps matching.
LEMMA StepNvmeSaved ==
    ASSUME LogInv, NvmeSaved, NEW d \in Devices, phase' = phase,
           nlog' = [nlog EXCEPT ![d] = nlog'[d]],
           phase # "down" => DiskMatches(nlog'[d], {})
    PROVE  NvmeSaved'
<1>1. nlog = [u \in Devices |-> nlog[u]]
    BY DEF LogInv, NvmeLogInv
<1>2. \A u \in Devices : u # d => nlog'[u] = nlog[u]
    BY <1>1
<1> QED BY <1>2 DEF NvmeSaved

LEMMA NvmeLog == ASSUME LogInv, NEW d \in Devices PROVE nlog[d] \in LogsOf({Valid})
BY DEF LogInv, NvmeLogInv, LogOk

LEMMA GpuLog == ASSUME LogInv PROVE glog \in LogsOf(Record \cup {Empty})
BY DEF LogInv, GpuLogInv, LogOk

LEMMA KeepNvmeSaved ==
    ASSUME NvmeSaved, nlog' = nlog, phase # "down" \/ phase' = "down" PROVE NvmeSaved'
BY DEF NvmeSaved

LEMMA WorkNvmeSaved == ASSUME LogInv, NvmeSaved, Work PROVE NvmeSaved'
<1>1. ASSUME NEW d \in Devices, UnlinkNext(d) PROVE NvmeSaved'
    BY <1>1, KeepNvmeSaved DEF UnlinkNext
<1>2. ASSUME NEW d \in Devices, ForgetUnlinked(d) PROVE NvmeSaved'
  <2>1. /\ nlog'[d] = ForcePersist(deleteFile(nlog[d], Head(todo[d])))
        /\ nlog' = [nlog EXCEPT ![d] = nlog'[d]] /\ phase' = phase
      BY <1>2 DEF ForgetUnlinked, LogInv, NvmeLogInv
  <2>2. DiskMatches(deleteFile(nlog[d], Head(todo[d])), {})
      BY <1>2, NvmeLog, MatchDelete
  <2>3. deleteFile(nlog[d], Head(todo[d])) \in LogsOf({Valid})
      BY <1>2, NvmeOk, OkDelete DEF LogOk
  <2>4. DiskMatches(nlog'[d], {})
      BY <2>1, <2>2, <2>3, MatchForce
  <2> QED BY <1>2, <2>1, <2>4, StepNvmeSaved
<1>3. ASSUME NEW d \in Devices, UnlinkRest(d) PROVE NvmeSaved'
    BY <1>3, KeepNvmeSaved DEF UnlinkRest
<1>4. ASSUME NEW d \in Devices, ForgetRest(d) PROVE NvmeSaved'
  <2>1. /\ nlog'[d] = deleteFile(nlog[d], Head(todo[d]))
        /\ nlog' = [nlog EXCEPT ![d] = nlog'[d]] /\ phase' = phase
      BY <1>4 DEF ForgetRest, LogInv, NvmeLogInv
  <2>2. DiskMatches(nlog'[d], {})
      BY <1>4, <2>1, NvmeLog, MatchDelete
  <2> QED BY <1>4, <2>1, <2>2, StepNvmeSaved
<1>5. ASSUME NEW d \in Devices, FinishPurge(d) PROVE NvmeSaved'
  <2>1. /\ nlog'[d] = ForcePersist(nlog[d])
        /\ nlog' = [nlog EXCEPT ![d] = nlog'[d]] /\ phase' = phase
      BY <1>5 DEF FinishPurge, LogInv, NvmeLogInv
  <2>2. phase # "down" => DiskMatches(nlog'[d], {})
      BY <1>5, <2>1, NvmeLog, MatchForce DEF NvmeSaved
  <2> QED BY <1>5, <2>1, <2>2, StepNvmeSaved
<1>6. ASSUME NEW d \in Devices, createFile(d) PROVE NvmeSaved'
  <2>1. PICK id : id = findNextFreeSlot(nlog[d])
      OBVIOUS
  <2>2. /\ nlog'[d] = NewFile(nlog[d], id)
        /\ nlog' = [nlog EXCEPT ![d] = nlog'[d]] /\ phase' = phase
      BY <1>6, <2>1 DEF createFile, LogInv, NvmeLogInv
  <2>3. id \in Slots
    <3>1. Cardinality(nlog[d].bits) < NumFiles * MaxStarts
      <4>1. /\ Cardinality(nlog[d].bits) \in Nat /\ NumFiles * starts \in Nat
            /\ Cardinality(nlog[d].bits) < NumFiles * starts
            /\ NumFiles * starts <= NumFiles * MaxStarts /\ NumFiles * MaxStarts \in Nat
          BY <1>6, RoomOnDevice DEF createFile
      <4> QED BY <4>1
    <3> QED BY <1>6, <2>1, <3>1, NvmeLog, NextFreeSlot
  <2> DEFINE w == writeRecordToSlot(nlog[d], id, Valid)
             b == [w EXCEPT !.bits = @ \cup {id}]
  <2>4. w \in LogsOf({Valid})
      BY <1>6, <2>3, NvmeLog, WrittenLog
  <2> HIDE DEF w
  <2>5. b \in LogsOf({Valid})
      BY <2>3, <2>4 DEF LogsOf
  <2> HIDE DEF b
  <2>6. DiskMatches(Count(b, 1), {})
      BY <2>5, MatchCount
  <2>7. DiskMatches(nlog'[d], {})
      BY <2>2, <2>6 DEF NewFile, b, w
  <2> QED BY <1>6, <2>2, <2>7, StepNvmeSaved
<1>7. ASSUME NEW d \in Devices, CreateOnDisk(d) PROVE NvmeSaved'
    BY <1>7, KeepNvmeSaved DEF CreateOnDisk
<1>8. ASSUME NEW d \in Devices, CreateFails(d) PROVE NvmeSaved'
  <2>1. /\ nlog'[d] = deleteFile(nlog[d], Last(todo[d]))
        /\ nlog' = [nlog EXCEPT ![d] = nlog'[d]] /\ phase' = phase
      BY <1>8 DEF CreateFails, LogInv, NvmeLogInv
  <2>2. DiskMatches(nlog'[d], {})
      BY <1>8, <2>1, NvmeLog, MatchDelete
  <2> QED BY <1>8, <2>1, <2>2, StepNvmeSaved
<1>9. ASSUME NEW d \in Devices, CloseDevice(d) PROVE NvmeSaved'
  <2>1. /\ nlog'[d] = Flushed(ForcePersist(nlog[d])) /\ phase = "closing"
        /\ nlog' = [nlog EXCEPT ![d] = nlog'[d]] /\ phase' = phase
      BY <1>9 DEF CloseDevice, LogInv, NvmeLogInv
  <2>2. DiskMatches(ForcePersist(nlog[d]), {}) /\ ForcePersist(nlog[d]) \in LogsOf({Valid})
      BY <1>9, <2>1, NvmeLog, MatchForce, ForcedLog DEF NvmeSaved
  <2>3. DiskMatches(nlog'[d], {})
      BY <2>1, <2>2, MatchFlush
  <2> QED BY <1>9, <2>1, <2>3, StepNvmeSaved
<1>10. CASE Exit
    BY <1>10 DEF Exit, Gone, NvmeSaved
<1>11. ASSUME \/ initializeLogFile \/ (\E i \in Slots : BeginDelete(i)) \/ deleteGPUFile
              \/ ResetRest \/ FinishReset \/ CheckExisting \/ GatherResults \/ WriteRecord
              \/ createGPUFiles \/ initGPUFile \/ initFails \/ FinishInit
       PROVE  NvmeSaved'
  <2>1. nlog' = nlog /\ phase # "down"
      BY <1>11 DEF initializeLogFile, BeginDelete, deleteGPUFile, ResetRest, FinishReset,
                   CheckExisting, GatherResults, WriteRecord, createGPUFiles, initGPUFile,
                   initFails, FinishInit, nvmeVars
  <2> QED BY <2>1, KeepNvmeSaved
<1> QED BY <1>1, <1>2, <1>3, <1>4, <1>5, <1>6, <1>7, <1>8, <1>9, <1>10, <1>11 DEF Work

LEMMA NextNvmeSaved == ASSUME LogInv, NvmeSaved, [Next]_vars PROVE NvmeSaved'
<1>1. ASSUME NEW sh \in Shapes, NEW r \in BOOLEAN, Start(sh, r) PROVE NvmeSaved'
  <2>1. nlog' = [d \in Devices |-> NvmeLoaded(nlog[d])]
      BY <1>1 DEF Start
  <2>2. ASSUME NEW d \in Devices PROVE DiskMatches(nlog'[d], {})
    <3>1. PICK n \in Nat : n = NumFiles * Rounds
        BY RoundsNat
    <3>2. LogOk({Valid}, nlog[d], {}, n)
        BY <3>1, NvmeOk
    <3>3. NvmeLoaded(nlog[d]).bits = nlog[d].disk /\ NvmeLoaded(nlog[d]).disk = nlog[d].disk
        BY <3>2, OkLoaded
    <3> QED BY <2>1, <3>3 DEF DiskMatches
  <2> QED BY <2>2 DEF NvmeSaved
<1>2. CASE cleanup
    BY <1>2, KeepNvmeSaved DEF cleanup
<1>3. CASE Crash
    BY <1>3 DEF Crash, Gone, NvmeSaved
<1>4. CASE UNCHANGED vars
    BY <1>4 DEF vars, nvmeVars, NvmeSaved
<1>5. CASE openGPUFile
    BY <1>5, KeepNvmeSaved DEF openGPUFile, nvmeVars
<1>6. ASSUME NEW i \in Slots, closeGPUFile(i) PROVE NvmeSaved'
    BY <1>6, KeepNvmeSaved DEF closeGPUFile, nvmeVars
<1> QED BY <1>1, <1>2, <1>3, <1>4, <1>5, <1>6, WorkNvmeSaved DEF Next, Done

\* A step that leaves the GPU log and its table alone.
LEMMA KeepGpuSaved ==
    ASSUME GpuSaved, UNCHANGED <<glog, desc, slots, header>>,
           \/ phase' = phase /\ (phase = "records" => UNCHANGED <<done, todo, shape>>)
           \/ phase # "down" /\ phase' \notin {"down", "new_log", "records"}
    PROVE  GpuSaved'
<1>1. Known' = Known
    BY DEF Known
<1>2. phase' = phase \/ (phase # "down" /\ phase' \notin {"down", "new_log"})
    OBVIOUS
<1>3. ASSUME phase' = "records" PROVE \A k \in 1 .. done' : Eff(glog', slots'[k]) = NewRecord(k)'
    BY <1>3 DEF GpuSaved, NewRecord
<1>4. /\ header' = "none" => phase' = "down" /\ glog' = EmptyLog
      /\ phase' = "new_log" => glog' = EmptyLog
      /\ phase' = "down" => glog'.buf = NoBuf
      /\ phase' # "down" /\ header' = "valid" => DiskMatches(glog', Range(slots'))
    BY <1>2 DEF GpuSaved
<1>5. phase' # "down" => \A i \in Known' :
          i \in glog'.bits /\ i \notin Range(slots') /\ Eff(glog', i) = desc'[i]
    BY <1>1, <1>2 DEF GpuSaved
<1>6. Injective(slots') /\ Range(slots') \subseteq glog'.bits
    BY DEF GpuSaved
<1> QED BY <1>3, <1>4, <1>5, <1>6 DEF GpuSaved

\* A step of a running process after which no slots are reserved.
LEMMA UnreservedSaved ==
    ASSUME GpuSaved, phase # "down", phase' \notin {"down", "new_log", "records"},
           header' = header, slots' = << >>, DiskMatches(glog', {}),
           \A i \in Known' : i \in glog'.bits /\ Eff(glog', i) = desc'[i]
    PROVE  GpuSaved'
<1>1. Range(slots') = {} /\ Injective(slots')
    BY DEF Range, Injective
<1>2. header' # "none"
    BY DEF GpuSaved
<1> QED BY <1>1, <1>2 DEF GpuSaved

LEMMA PersistSaved ==
    ASSUME LogInv, GpuSaved, phase \in {"reset_rest", "ready", "failed"},
           phase' \notin {"down", "new_log", "records"},
           glog' = persistBitmap(glog), UNCHANGED <<header, slots, desc>>
    PROVE  GpuSaved'
<1>1. slots' = << >>
    BY DEF LogInv, Control
<1>2. /\ glog'.bits = glog.bits /\ DiskMatches(glog', {})
      /\ \A i \in Slots : Eff(glog', i) = Eff(glog, i)
    BY GpuLog, PersistedLog, MatchPersist
<1>3. \A i \in Known' : i \in glog'.bits /\ Eff(glog', i) = desc'[i]
    BY <1>2 DEF Known, GpuSaved
<1> QED BY <1>1, <1>2, <1>3, UnreservedSaved

LEMMA DeleteSaved == ASSUME LogInv, GpuSaved, deleteGPUFile PROVE GpuSaved'
<1> DEFINE b == [glog EXCEPT !.bits = @ \ {deleting}]
           w == writeRecordToSlot(b, deleting, Empty)
<1>1. /\ phase = "reset" /\ phase' = "reset" /\ deleting \in Slots /\ slots' = << >>
      /\ desc' = [desc EXCEPT ![deleting] = NoRec] /\ glog' = Count(w, 1) /\ header' = header
      /\ desc \in [Slots -> Record \cup {NoRec}]
    BY DEF deleteGPUFile, LogInv, OtherTypes, Control, starting
<1>2. glog.bits \ {deleting} \in SUBSET Slots
    BY GpuLog DEF LogsOf
<1>3. /\ b \in LogsOf(Record \cup {Empty}) /\ b.bits = glog.bits \ {deleting}
      /\ \A i \in Slots : Eff(b, i) = Eff(glog, i)
  <2>1. PICK S : S = glog.bits \ {deleting}
      OBVIOUS
  <2>2. b = [glog EXCEPT !.bits = S] /\ S \in SUBSET Slots
      BY <1>2, <2>1
  <2>3. /\ [glog EXCEPT !.bits = S] \in LogsOf(Record \cup {Empty})
        /\ [glog EXCEPT !.bits = S].bits = S
        /\ \A i \in Slots : Eff([glog EXCEPT !.bits = S], i) = Eff(glog, i)
      BY <2>2, GpuLog, BitsLog
  <2> HIDE DEF b
  <2> QED BY <2>1, <2>2, <2>3
<1> HIDE DEF b
<1>4. /\ w \in LogsOf(Record \cup {Empty}) /\ w.bits = glog.bits \ {deleting}
      /\ \A i \in Slots : Eff(w, i) = IF i = deleting THEN Empty ELSE Eff(glog, i)
    BY <1>1, <1>3, WrittenLog
<1> HIDE DEF w
<1>5. /\ DiskMatches(glog', {}) /\ glog'.bits = w.bits
      /\ \A i \in Slots : Eff(glog', i) = Eff(w, i)
    BY <1>1, <1>4, CountedLog, MatchCount
<1>6. ASSUME NEW i \in Known' PROVE i \in glog'.bits /\ Eff(glog', i) = desc'[i]
  <2>1. i \in Slots /\ i # deleting /\ desc'[i] = desc[i] /\ i \in Known
      BY <1>1, <1>6 DEF Known
  <2>2. i \in glog.bits /\ Eff(glog, i) = desc[i]
      BY <1>1, <2>1 DEF GpuSaved
  <2> QED BY <1>4, <1>5, <2>1, <2>2
<1> QED BY <1>1, <1>5, <1>6, UnreservedSaved

LEMMA CheckSaved == ASSUME LogInv, GpuSaved, CheckExisting PROVE GpuSaved'
<1>1. PICK sample : LET n == ToCreate(sample)
                    IN  /\ slots' = findMultipleFreeSlots(n)
                        /\ glog' = [glog EXCEPT !.bits = @ \cup Range(slots')]
                        /\ phase' = IF n = 0 THEN "init" ELSE "create"
    BY DEF CheckExisting
<1>2. PICK n \in 0 .. NumFiles : n = ToCreate(sample)
    BY CreateCount
<1>3. phase = "check" /\ phase' \in {"init", "create"} /\ UNCHANGED <<header, desc>> /\ slots = << >>
    BY <1>1 DEF CheckExisting, starting, LogInv, Control
<1>4. /\ slots' \in Seq(Slots) /\ DOMAIN slots' = 1 .. n /\ Injective(slots')
      /\ \A k \in 1 .. n : slots'[k] \in Slots \ glog.bits
    BY <1>1, <1>2, <1>3, CheckSlots
<1>5. \A x \in Range(slots') : x \in Slots /\ x \notin glog.bits
    BY <1>4 DEF Range
<1>6. PICK S : S = glog.bits \cup Range(slots')
    OBVIOUS
<1>7. S \in SUBSET Slots /\ glog' = [glog EXCEPT !.bits = S]
    BY <1>1, <1>5, <1>6, GpuLog DEF LogsOf
<1>8. /\ glog'.bits = S /\ glog'.disk = glog.disk /\ glog'.pending = glog.pending
      /\ \A i \in Slots : Eff(glog', i) = Eff(glog, i)
    BY <1>7, GpuLog, BitsLog
<1>9. Range(slots) = {}
    BY <1>3 DEF Range
<1>10. header' = "valid" => DiskMatches(glog', Range(slots'))
    BY <1>3, <1>5, <1>6, <1>8, <1>9 DEF GpuSaved, DiskMatches
<1>11. \A i \in Known' : i \in glog'.bits /\ i \notin Range(slots') /\ Eff(glog', i) = desc'[i]
    BY <1>3, <1>5, <1>6, <1>8 DEF GpuSaved, Known
<1>12. header' # "none"
    BY <1>3 DEF GpuSaved
<1> QED BY <1>3, <1>4, <1>6, <1>8, <1>10, <1>11, <1>12 DEF GpuSaved

LEMMA GatherSaved == ASSUME LogInv, GpuSaved, GatherResults PROVE GpuSaved'
<1>1. /\ phase = "create" /\ UNCHANGED <<header, desc, done>> /\ done = 0
    BY DEF GatherResults, starting, LogInv, Control
<1>2. CASE \E d \in Devices : at[d] = "remove"
  <2>1. glog' = [glog EXCEPT !.bits = @ \ Range(slots)] /\ slots' = << >> /\ phase' = "failed"
      BY <1>2 DEF GatherResults
  <2>2. PICK S : S = glog.bits \ Range(slots)
      OBVIOUS
  <2>3. S \in SUBSET Slots /\ glog' = [glog EXCEPT !.bits = S]
      BY <2>1, <2>2, GpuLog DEF LogsOf
  <2>4. /\ glog'.bits = S /\ glog'.disk = glog.disk /\ glog'.pending = glog.pending
        /\ \A i \in Slots : Eff(glog', i) = Eff(glog, i)
      BY <2>3, GpuLog, BitsLog
  <2>5. \A i \in Known' : i \in glog'.bits /\ Eff(glog', i) = desc'[i]
      BY <1>1, <2>2, <2>4 DEF GpuSaved, Known
  <2>6. header' = "valid" => DiskMatches(glog', {})
      BY <1>1, <2>2, <2>4 DEF GpuSaved, DiskMatches
  <2>7. Range(slots') = {} /\ Injective(slots') /\ header' # "none"
      BY <1>1, <2>1 DEF Range, Injective, GpuSaved
  <2> QED BY <1>1, <2>1, <2>5, <2>6, <2>7 DEF GpuSaved
<1>3. CASE ~ \E d \in Devices : at[d] = "remove"
  <2>1. phase' = "records" /\ glog' = glog /\ slots' = slots
      BY <1>3 DEF GatherResults
  <2>2. Known' = Known /\ 1 .. done' = {} /\ header' # "none"
      BY <1>1 DEF Known, GpuSaved
  <2> QED BY <1>1, <2>1, <2>2 DEF GpuSaved
<1> QED BY <1>2, <1>3

LEMMA WriteSaved == ASSUME LogInv, GpuSaved, WriteRecord PROVE GpuSaved'
<1>1. /\ phase = "records" /\ phase' = "records" /\ done < Len(slots) /\ done' = done + 1
      /\ glog' = writeRecordToSlot(glog, slots[done + 1], NewRecord(done + 1))
      /\ UNCHANGED <<header, shape, desc, slots, todo>>
      /\ slots \in Seq(Slots) /\ Len(slots) \in Nat /\ DOMAIN slots = 1 .. Len(slots) /\ done \in Nat
    BY SlotsAssumption DEF WriteRecord, starting, nvmeVars, LogInv, OtherTypes
<1>2. done + 1 \in 1 .. Len(slots) /\ slots[done + 1] \in Slots
    BY <1>1
<1>3. NewRecord(done + 1) \in Record \cup {Empty}
    BY <1>1, <1>2, RecordType
<1>4. PICK s \in Slots : s = slots[done + 1]
    BY <1>2
<1>5. /\ glog'.bits = glog.bits /\ glog'.disk = glog.disk /\ glog'.pending = glog.pending
      /\ \A i \in Slots : Eff(glog', i) = IF i = s THEN NewRecord(done + 1) ELSE Eff(glog, i)
    BY <1>1, <1>3, <1>4, GpuLog, WrittenLog
<1>6. Known' = Known /\ header' # "none"
    BY <1>1 DEF Known, GpuSaved
<1>7. s \in Range(slots)
    BY <1>1, <1>2, <1>4 DEF Range
<1>8. \A i \in Known' : i \in glog'.bits /\ i \notin Range(slots') /\ Eff(glog', i) = desc'[i]
  <2>1. \A i \in Known : i \in glog.bits /\ i \notin Range(slots) /\ Eff(glog, i) = desc[i] /\ i \in Slots
      BY <1>1 DEF GpuSaved, Known
  <2> QED BY <1>1, <1>5, <1>6, <1>7, <2>1
<1>9. ASSUME NEW k \in 1 .. done' PROVE Eff(glog', slots'[k]) = NewRecord(k)'
  <2>1. k \in 1 .. Len(slots) /\ slots[k] \in Slots
      BY <1>1
  <2>2. NewRecord(k)' = NewRecord(k)
      BY <1>1 DEF NewRecord
  <2>3. CASE k = done + 1
      BY <1>1, <1>4, <1>5, <2>1, <2>2, <2>3
  <2>4. CASE k # done + 1
    <3>1. k \in 1 .. done
        BY <1>1, <2>4
    <3>2. slots[k] # s
        BY <1>1, <1>2, <1>4, <2>1, <2>4 DEF GpuSaved, Injective
    <3>3. Eff(glog, slots[k]) = NewRecord(k)
        BY <1>1, <3>1 DEF GpuSaved
    <3> QED BY <1>1, <1>5, <2>1, <2>2, <3>2, <3>3
  <2> QED BY <2>3, <2>4
<1>10. header' = "valid" => DiskMatches(glog', Range(slots'))
    BY <1>1, <1>5 DEF GpuSaved, DiskMatches
<1>11. Injective(slots') /\ Range(slots') \subseteq glog'.bits
    BY <1>1, <1>5 DEF GpuSaved
<1> QED BY <1>1, <1>6, <1>8, <1>9, <1>10, <1>11 DEF GpuSaved

LEMMA CreateSaved == ASSUME LogInv, GpuSaved, createGPUFiles PROVE GpuSaved'
<1>1. /\ phase = "records" /\ phase' = "init" /\ done = Len(slots) /\ slots' = << >>
      /\ glog' = Count(glog, Len(slots)) /\ header' = header
      /\ slots \in Seq(Slots) /\ Len(slots) \in Nat /\ Len(slots) # 0 /\ DOMAIN slots = 1 .. Len(slots)
      /\ desc' = [i \in Slots |-> IF \E k \in DOMAIN slots : slots[k] = i
                                 THEN NewRecord(CHOOSE k \in DOMAIN slots : slots[k] = i)
                                 ELSE desc[i]]
    BY DEF createGPUFiles, starting, LogInv, OtherTypes, Control
<1>2. /\ glog'.bits = glog.bits /\ DiskMatches(glog', {})
      /\ \A i \in Slots : Eff(glog', i) = Eff(glog, i)
    BY <1>1, GpuLog, CountedLog, MatchCount
<1>3. ASSUME NEW i \in Known' PROVE i \in glog'.bits /\ Eff(glog', i) = desc'[i]
  <2>1. i \in Slots /\ desc'[i] # NoRec
      BY <1>3 DEF Known
  <2>2. CASE \E k \in DOMAIN slots : slots[k] = i
    <3>1. PICK k \in DOMAIN slots : slots[k] = i /\ desc'[i] = NewRecord(k)
      <4>1. desc'[i] = NewRecord(CHOOSE k \in DOMAIN slots : slots[k] = i)
          BY <1>1, <2>1, <2>2
      <4> QED BY <2>2, <4>1
    <3>2. Eff(glog, i) = NewRecord(k) /\ i \in glog.bits
        BY <1>1, <3>1 DEF GpuSaved, Range
    <3> QED BY <1>2, <2>1, <3>1, <3>2
  <2>3. CASE ~ \E k \in DOMAIN slots : slots[k] = i
    <3>1. desc'[i] = desc[i] /\ i \in Known
        BY <1>1, <2>1, <2>3 DEF Known
    <3> QED BY <1>1, <1>2, <2>1, <3>1 DEF GpuSaved
  <2> QED BY <2>2, <2>3
<1> QED BY <1>1, <1>2, <1>3, UnreservedSaved

LEMMA StartSaved ==
    ASSUME LogInv, GpuSaved, ShapeInv, NEW sh \in Shapes, NEW r \in BOOLEAN, Start(sh, r)
    PROVE  GpuSaved'
<1>1. /\ phase = "down" /\ slots = << >> /\ slots' = << >> /\ glog.buf = NoBuf
      /\ Range(slots') = {} /\ Injective(slots')
    BY DEF Start, LogInv, Control, GpuSaved, Range, Injective
<1>2. CASE header = "none"
  <2>1. /\ phase' = "new_log" /\ header' = "empty" /\ glog' = EmptyLog /\ Known' = {}
      BY <1>1, <1>2 DEF Start, GpuSaved, ShapeInv, Known
  <2> QED BY <1>1, <2>1 DEF GpuSaved
<1>3. CASE header # "none"
  <2>1. PICK S : S = IF header = "valid" THEN glog.disk ELSE {}
      OBVIOUS
  <2>2. /\ glog' = [glog EXCEPT !.bits = S] /\ header' = header /\ phase' \in {"reset", "check"}
        /\ desc' = IF header = "valid" THEN loadFromFile(glog) ELSE NoDesc
        /\ S \in SUBSET Slots
      BY <1>3, <2>1, GpuLog DEF Start, LogsOf
  <2>3. /\ glog'.bits = S /\ glog'.disk = glog.disk
        /\ \A i \in Slots : Eff(glog', i) = Eff(glog, i)
      BY <2>2, GpuLog, BitsLog
  <2>4. \A i \in Slots : Eff(glog, i) = glog.recs[i]
      BY <1>1, NoSlot DEF Eff, NoBuf
  <2>5. header' = "valid" => DiskMatches(glog', {})
      BY <2>1, <2>2, <2>3 DEF DiskMatches
  <2>6. ASSUME NEW i \in Known' PROVE i \in glog'.bits /\ Eff(glog', i) = desc'[i]
    <3>1. i \in Slots /\ desc'[i] # NoRec
        BY <2>6 DEF Known
    <3>2. header = "valid"
        BY <2>2, <3>1 DEF NoDesc
    <3>3. i \in glog.disk /\ desc'[i] = glog.recs[i]
        BY <2>2, <3>1, <3>2 DEF loadFromFile
    <3> QED BY <2>1, <2>3, <2>4, <3>1, <3>2, <3>3
  <2> QED BY <1>1, <1>3, <2>2, <2>5, <2>6 DEF GpuSaved
<1> QED BY <1>2, <1>3

LEMMA GoneSaved ==
    ASSUME LogInv, GpuSaved, phase # "down", NEW gl \in GpuLogsLeft, NEW nl, Gone(gl, nl)
    PROVE  GpuSaved'
<1>1. phase' = "down" /\ slots' = << >> /\ glog' = gl /\ header' = header
    BY DEF Gone, starting
<1>2. glog'.buf = NoBuf /\ header' # "none"
  <2>1. PICK n \in Nat : n = NumFiles * Rounds
      BY RoundsNat
  <2> QED BY <1>1, <2>1, GpuLeft DEF GpuSaved
<1>3. Range(slots') = {} /\ Injective(slots')
    BY <1>1 DEF Range, Injective
<1> QED BY <1>1, <1>2, <1>3 DEF GpuSaved

LEMMA WorkSaved == ASSUME LogInv, GpuSaved, Work PROVE GpuSaved'
<1>1. ASSUME NEW d \in Devices,
             \/ UnlinkNext(d) \/ ForgetUnlinked(d)
             \/ UnlinkRest(d) \/ ForgetRest(d) \/ FinishPurge(d)
             \/ createFile(d) \/ CreateOnDisk(d) \/ CreateFails(d) \/ CloseDevice(d)
      PROVE  GpuSaved'
  <2>1. UNCHANGED <<phase, starting, gpuVars>> /\ at[d] # "idle"
      BY <1>1 DEF UnlinkNext, ForgetUnlinked, UnlinkRest, ForgetRest, FinishPurge, createFile,
                  CreateOnDisk, CreateFails, CloseDevice
  <2>2. phase # "records"
      BY <2>1 DEF LogInv, OtherTypes, Control, StepOf, Deleting
  <2> QED BY <2>1, <2>2, KeepGpuSaved DEF gpuVars, starting
<1>2. ASSUME NEW i \in Slots, BeginDelete(i) PROVE GpuSaved'
    BY <1>2, KeepGpuSaved DEF BeginDelete, gpuVars, starting
<1>3. CASE initializeLogFile
  <2>1. /\ phase = "new_log" /\ phase' \in {"reset", "check"} /\ header' = "valid"
        /\ UNCHANGED <<glog, desc, slots>> /\ glog = EmptyLog
      BY <1>3 DEF initializeLogFile, gpuVars, GpuSaved
  <2>2. DiskMatches(glog', Range(slots'))
      BY <2>1 DEF DiskMatches, EmptyLog
  <2>3. Known' = Known
      BY <2>1 DEF Known
  <2> QED BY <2>1, <2>2, <2>3 DEF GpuSaved
<1>4. CASE ResetRest
    BY <1>4, KeepGpuSaved DEF ResetRest, gpuVars, starting
<1>5. CASE FinishReset
    BY <1>5, PersistSaved DEF FinishReset, starting
<1>6. CASE initGPUFile
    BY <1>6, KeepGpuSaved DEF initGPUFile, starting
<1>7. CASE initFails
    BY <1>7, KeepGpuSaved DEF initFails, gpuVars, starting
<1>8. CASE FinishInit
    BY <1>8, KeepGpuSaved DEF FinishInit, gpuVars, starting
<1>9. CASE Exit
  <2>1. Killed(glog, TRUE) \in GpuLogsLeft /\ phase # "down"
      BY <1>9 DEF Exit, GpuLogsLeft
  <2> QED BY <1>9, <2>1, GoneSaved DEF Exit
<1> QED BY <1>1, <1>2, <1>3, <1>4, <1>5, <1>6, <1>7, <1>8, <1>9, DeleteSaved, CheckSaved,
           GatherSaved, WriteSaved, CreateSaved DEF Work

LEMMA NextSaved == ASSUME LogInv, ShapeInv, GpuSaved, [Next]_vars PROVE GpuSaved'
<1>1. CASE cleanup
    BY <1>1, PersistSaved DEF cleanup, starting
<1>2. CASE Crash
  <2>1. PICK gl \in GpuLogsLeft : \E nl : Gone(gl, nl)
      BY <1>2 DEF Crash
  <2>2. phase # "down"
      BY <1>2 DEF Crash
  <2>3. PICK nl : Gone(gl, nl)
      BY <2>1
  <2> QED BY <2>2, <2>3, GoneSaved
<1>3. CASE UNCHANGED vars
    BY <1>3, KeepGpuSaved DEF vars, gpuVars, starting, nvmeVars
<1>4. CASE openGPUFile
    BY <1>4, KeepGpuSaved DEF openGPUFile, starting
<1>5. ASSUME NEW i \in Slots, closeGPUFile(i) PROVE GpuSaved'
    BY <1>5, KeepGpuSaved DEF closeGPUFile, starting
<1> QED BY <1>1, <1>2, <1>3, <1>4, <1>5, StartSaved, WorkSaved DEF Next, Done

\* What is held in memory, where nothing is pending or buffered, is what the
\* files hold: a crash there loses nothing.  The other phases are those in which
\* a call is under way that has not counted its changes yet.
THEOREM GpuFilesSavedIsDurable == Spec => []SavedIsDurable
<1>1. Init => ShapeInv /\ GpuSaved /\ NvmeSaved
  <2>1. Init => ShapeInv
      BY DEF Init, ShapeInv, Known, NoDesc
  <2>2. Init => GpuSaved
      BY DEF Init, GpuSaved, EmptyLog, Range, Injective
  <2> QED BY <2>1, <2>2 DEF Init, NvmeSaved
<1>2. LogInv /\ ShapeInv /\ GpuSaved /\ NvmeSaved /\ [Next]_vars
          => ShapeInv' /\ GpuSaved' /\ NvmeSaved'
    BY NextShape, NextSaved, NextNvmeSaved
<1>3. ASSUME LogInv, GpuSaved, NvmeSaved PROVE SavedIsDurable
  <2>1. ASSUME phase \in {"check", "init", "ready", "failed"}, header = "valid", Saved(glog)
        PROVE  glog.disk = glog.bits /\ \A i \in Known : glog.recs[i] = desc[i]
    <3>1. Range(slots) = {}
        BY <1>3, <2>1 DEF LogInv, Control, Range
    <3>2. glog.disk \subseteq Slots /\ glog.bits \subseteq Slots
        BY <1>3, GpuLog DEF LogsOf
    <3>3. \A i \in Slots : i \in glog.disk <=> i \in glog.bits
        BY <1>3, <2>1, <3>1 DEF GpuSaved, DiskMatches, Saved
    <3>4. \A i \in Slots : Eff(glog, i) = glog.recs[i]
        BY <2>1, NoSlot DEF Saved, NoBuf, Eff
    <3> QED BY <1>3, <2>1, <3>2, <3>3, <3>4 DEF GpuSaved, Known
  <2>2. ASSUME phase # "down", NEW d \in Devices, Saved(nlog[d])
        PROVE  nlog[d].disk = nlog[d].bits
    <3>1. nlog[d].disk \subseteq Slots /\ nlog[d].bits \subseteq Slots
        BY <1>3, NvmeLog DEF LogsOf
    <3>2. \A i \in Slots : i \in nlog[d].disk <=> i \in nlog[d].bits
        BY <1>3, <2>2 DEF NvmeSaved, DiskMatches, Saved
    <3> QED BY <3>1, <3>2
  <2> QED BY <2>1, <2>2 DEF SavedIsDurable
<1> QED BY <1>1, <1>2, <1>3, LogsInOrder, PTL DEF Spec

-----------------------------------------------------------------------------
(* NVMe files of their own. *)

\* While a GPU file is deleted only its own NVMe files are removed; the rest is
\* removed when no GPU file is left; a log that was closed is saved.
RemoveInv ==
    /\ Deleting => \A d \in Devices : \A x \in Range(todo[d]) : x = desc[deleting].nvme[d]
    /\ phase = "reset_rest" => Known = {}
    /\ phase = "closing" => Saved(glog) /\ \A d \in Devices : at[d] = "idle" => Saved(nlog[d])

\* No file, or at least as many as a start asks for, without gaps.
Full(S) == S = {} \/ \E m \in Nat : m >= NumFiles /\ S = 0 .. m - 1

Unique(D) ==
    \A d \in Devices : \A i, j \in Slots :
        D[i] # NoRec /\ D[j] # NoRec /\ D[i].nvme[d] = D[j].nvme[d] => i = j

\* The table that the next start will load.
Stored == IF header = "valid" THEN loadFromFile(glog) ELSE NoDesc

DownOwn ==
    phase = "down" =>
        /\ header # "empty"
        /\ \A i \in glog.disk : Stored[i] # NoRec
        /\ Full({i \in Slots : Stored[i] # NoRec})
        /\ Unique(Stored)
        /\ \A i \in Slots, d \in Devices :
              Stored[i] # NoRec => /\ Stored[i].nvme[d] \in nlog[d].disk
                                   /\ Stored[i].nvme[d] \in files[d]

\* The NVMe files on device d of the files that are not being deleted are
\* known and there.
OwnOn(d) ==
    \A i \in Slots : desc[i] # NoRec /\ i # deleting =>
        desc[i].nvme[d] \in nlog[d].bits /\ desc[i].nvme[d] \in files[d]

UpOwn ==
    phase # "down" =>
        /\ phase # "new_log" => header = "valid"
        /\ Unique(desc)
        /\ \A d \in Devices : OwnOn(d)
        /\ \A i \in glog.bits : i \in Range(slots) \/ desc[i] # NoRec

\* The NVMe files created on device d are new, different and, but for the one
\* whose file is still missing, there.
New(d) ==
    /\ \A i \in Slots : desc[i] # NoRec => desc[i].nvme[d] \notin Range(todo[d])
    /\ at[d] \notin {"remove", "unlinked"} =>
          /\ Injective(todo[d])
          /\ \A x \in Range(todo[d]) : x \in nlog[d].bits
          /\ \A k \in DOMAIN todo[d] :
                (k = Len(todo[d]) /\ at[d] = "file") \/ todo[d][k] \in files[d]

CreateOwn == phase \in {"create", "records"} => \A d \in Devices : New(d)

CountOwn ==
    /\ phase \in {"check", "init", "ready", "failed", "closing"} => Full(Known)
    /\ phase \in {"init", "ready"} => Known # {}
    /\ phase \in {"create", "records"} =>
          \E m \in Nat :
              /\ Known = 0 .. m - 1
              /\ (m = 0 /\ Len(slots) = NumFiles) \/ m >= NumFiles
              /\ \A k \in DOMAIN slots : slots[k] = m + k - 1

\* What failed could not be created or opened.
FailOwn ==
    /\ phase = "create" /\ (\E d \in Devices : at[d] \in {"remove", "unlinked"}) => io_failed
    /\ phase = "failed" => io_failed

Own == DownOwn /\ UpOwn /\ CreateOwn /\ CountOwn /\ FailOwn

OwnInv == ~lossy => Own

LEMMA RangeOfTail ==
    ASSUME NEW S, NEW s \in Seq(S), s # << >>
    PROVE  /\ Head(s) \in Range(s)
           /\ \A x \in Range(Tail(s)) : x \in Range(s)
<1>1. /\ Len(s) \in Nat \ {0} /\ DOMAIN s = 1 .. Len(s) /\ Head(s) = s[1]
      /\ DOMAIN Tail(s) = 1 .. Len(s) - 1
      /\ \A k \in 1 .. Len(s) - 1 : Tail(s)[k] = s[k + 1]
    OBVIOUS
<1>2. \A k \in 1 .. Len(s) - 1 : k + 1 \in 1 .. Len(s)
    BY <1>1
<1> QED BY <1>1, <1>2 DEF Range

LEMMA RangeOfFront ==
    ASSUME NEW S, NEW s \in Seq(S), s # << >>
    PROVE  /\ Last(s) \in Range(s)
           /\ \A x \in Range(Front(s)) : x \in Range(s)
<1>1. /\ Len(s) \in Nat \ {0} /\ DOMAIN s = 1 .. Len(s) /\ Last(s) = s[Len(s)]
      /\ DOMAIN Front(s) = 1 .. Len(s) - 1
      /\ \A k \in 1 .. Len(s) - 1 : Front(s)[k] = s[k]
    BY DEF Last, Front
<1>2. \A k \in 1 .. Len(s) - 1 : k \in 1 .. Len(s)
    BY <1>1
<1> QED BY <1>1, <1>2 DEF Range

LEMMA KeepRemove ==
    ASSUME RemoveInv, UNCHANGED <<phase, glog, desc, deleting, nlog, at, todo>>
    PROVE  RemoveInv'
<1>1. Known' = Known
    BY DEF Known
<1> QED BY <1>1 DEF RemoveInv, Deleting

\* Phases in which nothing is removed or closed.
LEMMA OtherRemove ==
    ASSUME phase' \notin {"reset", "reset_rest", "closing"} \/ (phase' = "reset" /\ deleting' = -1)
    PROVE  RemoveInv'
BY DEF RemoveInv, Deleting

\* A step of one device.
LEMMA DeviceRemove ==
    ASSUME LogInv, RemoveInv, NEW d \in Devices, UNCHANGED <<phase, gpuVars, deleting>>,
           \A u \in Devices : u # d => todo'[u] = todo[u] /\ nlog'[u] = nlog[u] /\ at'[u] = at[u],
           Deleting => \A x \in Range(todo'[d]) : x \in Range(todo[d]),
           phase = "closing" => (at'[d] = "idle" => Saved(nlog'[d]))
    PROVE  RemoveInv'
<1>1. Known' = Known /\ glog' = glog /\ desc' = desc
    BY DEF Known, gpuVars
<1>2. ASSUME Deleting, NEW u \in Devices, NEW x \in Range(todo'[u]) PROVE x = desc[deleting].nvme[u]
  <2>1. x \in Range(todo[u])
      BY <1>2
  <2> QED BY <1>2, <2>1 DEF RemoveInv
<1>3. ASSUME phase = "closing", NEW u \in Devices, at'[u] = "idle" PROVE Saved(nlog'[u])
    BY <1>3 DEF RemoveInv
<1> QED BY <1>1, <1>2, <1>3 DEF RemoveInv, Deleting

LEMMA DeviceSteps ==
    ASSUME LogInv, NEW d \in Devices
    PROVE  /\ UnlinkNext(d) \/ ForgetUnlinked(d) \/ UnlinkRest(d) \/ ForgetRest(d) \/ FinishPurge(d)
              \/ createFile(d) \/ CreateOnDisk(d) \/ CreateFails(d) \/ CloseDevice(d) =>
                 \A u \in Devices : u # d => /\ todo'[u] = todo[u] /\ nlog'[u] = nlog[u]
                                             /\ at'[u] = at[u] /\ files'[u] = files[u]
<1>1. /\ at \in [Devices -> {"idle", "remove", "unlinked", "purge", "purged", "record",
                             "file", "created", "close"}]
      /\ todo \in [Devices -> Seq(Slots)] /\ files \in [Devices -> SUBSET Slots]
      /\ nlog = [u \in Devices |-> nlog[u]]
    BY DEF LogInv, OtherTypes, NvmeLogInv
<1>2. ASSUME NEW u \in Devices, u # d, UnlinkNext(d) \/ ForgetUnlinked(d)
      PROVE  todo'[u] = todo[u] /\ nlog'[u] = nlog[u] /\ at'[u] = at[u] /\ files'[u] = files[u]
    BY <1>1, <1>2 DEF UnlinkNext, ForgetUnlinked
<1>3. ASSUME NEW u \in Devices, u # d, UnlinkRest(d) \/ ForgetRest(d) \/ FinishPurge(d)
      PROVE  todo'[u] = todo[u] /\ nlog'[u] = nlog[u] /\ at'[u] = at[u] /\ files'[u] = files[u]
    BY <1>1, <1>3 DEF UnlinkRest, ForgetRest, FinishPurge
<1>4. ASSUME NEW u \in Devices, u # d, createFile(d) \/ CreateOnDisk(d) \/ CloseDevice(d)
      PROVE  todo'[u] = todo[u] /\ nlog'[u] = nlog[u] /\ at'[u] = at[u] /\ files'[u] = files[u]
    BY <1>1, <1>4 DEF createFile, CreateOnDisk, CloseDevice
<1>5. ASSUME NEW u \in Devices, u # d, CreateFails(d)
      PROVE  todo'[u] = todo[u] /\ nlog'[u] = nlog[u] /\ at'[u] = at[u] /\ files'[u] = files[u]
    BY <1>1, <1>5 DEF CreateFails
<1> QED BY <1>2, <1>3, <1>4, <1>5

\* The list after the step of a device that removes files.
LEMMA TodoRange ==
    ASSUME LogInv, NEW d \in Devices, todo[d] # << >>
    PROVE  /\ Head(todo[d]) \in Range(todo[d]) /\ Last(todo[d]) \in Range(todo[d])
           /\ \A x \in Range(Tail(todo[d])) : x \in Range(todo[d])
           /\ \A x \in Range(Front(todo[d])) : x \in Range(todo[d])
BY TodoTail, RangeOfTail, RangeOfFront

LEMMA WorkRemove == ASSUME LogInv, RemoveInv, Work PROVE RemoveInv'
<1>1. ASSUME NEW d \in Devices, UnlinkNext(d) PROVE RemoveInv'
  <2>1. /\ UNCHANGED <<phase, gpuVars, deleting>> /\ todo[d] # << >>
        /\ todo \in [Devices -> Seq(Slots)] /\ at[d] = "remove"
        /\ todo' = todo \/ todo' = [todo EXCEPT ![d] = Tail(@)]
      BY <1>1 DEF UnlinkNext, LogInv, OtherTypes
  <2>2. \A x \in Range(todo'[d]) : x \in Range(todo[d])
      BY <1>1, <2>1, TodoRange
  <2>3. phase # "closing"
      BY <2>1 DEF LogInv, Control, StepOf, Deleting
  <2>4. \A u \in Devices : u # d => todo'[u] = todo[u] /\ nlog'[u] = nlog[u] /\ at'[u] = at[u]
      BY <1>1, DeviceSteps
  <2> QED BY <1>1, <2>1, <2>2, <2>3, <2>4, DeviceRemove
<1>2. ASSUME NEW d \in Devices, ForgetUnlinked(d) \/ ForgetRest(d) PROVE RemoveInv'
  <2>1. /\ UNCHANGED <<phase, gpuVars, deleting>> /\ todo[d] # << >> /\ phase # "closing"
        /\ todo \in [Devices -> Seq(Slots)] /\ todo' = [todo EXCEPT ![d] = Tail(@)]
      BY <1>2 DEF ForgetUnlinked, ForgetRest, LogInv, OtherTypes, Control, StepOf, Deleting
  <2>2. \A x \in Range(todo'[d]) : x \in Range(todo[d])
      BY <1>2, <2>1, TodoRange
  <2>4. \A u \in Devices : u # d => todo'[u] = todo[u] /\ nlog'[u] = nlog[u] /\ at'[u] = at[u]
      BY <1>2, DeviceSteps
  <2> QED BY <1>2, <2>1, <2>2, <2>4, DeviceRemove
<1>3. ASSUME NEW d \in Devices, UnlinkRest(d) \/ FinishPurge(d) PROVE RemoveInv'
  <2>1. UNCHANGED <<phase, gpuVars, deleting, todo>> /\ phase = "reset_rest"
      BY <1>3 DEF UnlinkRest, FinishPurge, LogInv, Control, StepOf
  <2>4. \A u \in Devices : u # d => todo'[u] = todo[u] /\ nlog'[u] = nlog[u] /\ at'[u] = at[u]
      BY <1>3, DeviceSteps
  <2> QED BY <1>3, <2>1, <2>4, DeviceRemove
<1>4. ASSUME NEW d \in Devices, createFile(d) \/ CreateOnDisk(d) \/ CreateFails(d) PROVE RemoveInv'
  <2>1. phase' = phase /\ phase = "create"
      BY <1>4 DEF createFile, CreateOnDisk, CreateFails, LogInv, Control, StepOf
  <2> QED BY <2>1, OtherRemove
<1>5. ASSUME NEW d \in Devices, CloseDevice(d) PROVE RemoveInv'
  <2>1. /\ UNCHANGED <<phase, gpuVars, deleting, todo>> /\ phase = "closing"
        /\ nlog'[d] = Flushed(ForcePersist(nlog[d]))
      BY <1>5 DEF CloseDevice, LogInv, NvmeLogInv
  <2>2. ForcePersist(nlog[d]) \in LogsOf({Valid}) /\ ForcePersist(nlog[d]).pending = 0
      BY <1>5, NvmeLog, ForcedLog
  <2>3. Saved(nlog'[d])
      BY <2>1, <2>2, FlushedLog DEF Saved
  <2>4. \A u \in Devices : u # d => todo'[u] = todo[u] /\ nlog'[u] = nlog[u] /\ at'[u] = at[u]
      BY <1>5, DeviceSteps
  <2> QED BY <1>5, <2>1, <2>3, <2>4, DeviceRemove DEF Deleting
<1>6. ASSUME NEW i \in Slots, BeginDelete(i) PROVE RemoveInv'
  <2>1. /\ phase' = "reset" /\ deleting' = i /\ desc' = desc
        /\ todo' = [d \in Devices |-> <<desc[i].nvme[d]>>]
      BY <1>6 DEF BeginDelete, gpuVars
  <2>2. \A d \in Devices : \A x \in Range(todo'[d]) : x = desc[i].nvme[d]
      BY <2>1 DEF Range
  <2> QED BY <2>1, <2>2 DEF RemoveInv
<1>7. CASE initializeLogFile
  <2>1. deleting' = -1
      BY <1>7 DEF initializeLogFile, LogInv, Control
  <2> QED BY <1>7, <2>1, OtherRemove DEF initializeLogFile
<1>8. CASE deleteGPUFile
    BY <1>8, OtherRemove DEF deleteGPUFile
<1>9. CASE ResetRest
    BY <1>9 DEF ResetRest, gpuVars, RemoveInv, Known, Deleting
<1>10. CASE CheckExisting \/ GatherResults \/ FinishReset \/ WriteRecord \/ createGPUFiles
            \/ initGPUFile \/ initFails \/ FinishInit
  <2>1. phase' \notin {"reset", "reset_rest", "closing"}
      BY <1>10 DEF CheckExisting, GatherResults, FinishReset, WriteRecord, createGPUFiles,
                   initGPUFile, initFails, FinishInit
  <2> QED BY <2>1, OtherRemove
<1>11. CASE Exit
    BY <1>11, OtherRemove DEF Exit, Gone
<1> QED BY <1>1, <1>2, <1>3, <1>4, <1>5, <1>6, <1>7, <1>8, <1>9, <1>10, <1>11 DEF Work

LEMMA NextRemove == ASSUME LogInv, RemoveInv, [Next]_vars PROVE RemoveInv'
<1>1. ASSUME NEW sh \in Shapes, NEW r \in BOOLEAN, Start(sh, r) PROVE RemoveInv'
  <2>1. deleting' = -1
      BY <1>1 DEF Start, LogInv, Control
  <2> QED BY <1>1, <2>1, OtherRemove DEF Start
<1>2. CASE cleanup
  <2>1. phase' = "closing" /\ glog' = persistBitmap(glog) /\ \A d \in Devices : at'[d] = "close"
      BY <1>2 DEF cleanup, All
  <2>2. Saved(glog')
      BY <2>1, GpuLog, PersistedLog DEF Saved
  <2> QED BY <2>1, <2>2 DEF RemoveInv, Deleting
<1>3. CASE Crash
    BY <1>3, OtherRemove DEF Crash, Gone
<1>4. CASE UNCHANGED vars
    BY <1>4, KeepRemove DEF vars, gpuVars, nvmeVars
<1>5. CASE openGPUFile
    BY <1>5, OtherRemove DEF openGPUFile
<1>6. ASSUME NEW i \in Slots, closeGPUFile(i) PROVE RemoveInv'
    BY <1>6, OtherRemove DEF closeGPUFile
<1> QED BY <1>1, <1>2, <1>3, <1>4, <1>5, <1>6, WorkRemove DEF Next, Done

\* A step of one device of a running process.
LEMMA DeviceOwn ==
    ASSUME LogInv, Own, NEW d \in Devices, UNCHANGED <<phase, starting, gpuVars, deleting>>,
           at[d] # "idle",
           \A u \in Devices : u # d => /\ todo'[u] = todo[u] /\ nlog'[u] = nlog[u]
                                       /\ at'[u] = at[u] /\ files'[u] = files[u],
           OwnOn(d)', phase = "create" => New(d)',
           io_failed' = io_failed \/ io_failed' = TRUE,
           phase = "create" /\ at'[d] \in {"remove", "unlinked"} => io_failed'
    PROVE  Own'
<1>1. /\ phase # "down" /\ phase # "records" /\ phase # "failed"
      /\ UNCHANGED <<header, glog, desc, slots, phase, deleting>> /\ Known' = Known
    BY DEF LogInv, OtherTypes, Control, StepOf, Deleting, starting, gpuVars, Known
<1>2. UpOwn'
  <2>1. ASSUME NEW u \in Devices, u # d PROVE OwnOn(u)'
    <3>1. OwnOn(u) /\ nlog'[u] = nlog[u] /\ files'[u] = files[u]
        BY <1>1, <2>1 DEF Own, UpOwn
    <3> QED BY <1>1, <3>1 DEF OwnOn
  <2>2. Unique(desc') /\ (phase # "new_log" => header' = "valid")
        /\ \A i \in glog'.bits : i \in Range(slots') \/ desc'[i] # NoRec
      BY <1>1 DEF Own, UpOwn
  <2> QED BY <1>1, <2>1, <2>2 DEF UpOwn
<1>3. CreateOwn'
  <2>1. ASSUME NEW u \in Devices, u # d, phase = "create" PROVE New(u)'
    <3>1. New(u) /\ nlog'[u] = nlog[u] /\ files'[u] = files[u] /\ at'[u] = at[u] /\ todo'[u] = todo[u]
        BY <1>1, <2>1 DEF Own, CreateOwn
    <3> QED BY <1>1, <3>1 DEF New
  <2> QED BY <1>1, <2>1 DEF CreateOwn
<1>4. CountOwn'
    BY <1>1 DEF Own, CountOwn
<1>5. FailOwn'
  <2>1. ASSUME NEW u \in Devices, at'[u] \in {"remove", "unlinked"}, phase = "create" PROVE io_failed'
      BY <2>1 DEF Own, FailOwn
  <2> QED BY <1>1, <2>1 DEF FailOwn
<1> QED BY <1>1, <1>2, <1>3, <1>4, <1>5 DEF Own, DownOwn

\* What is removed belongs to no GPU file but the one that is being deleted.
LEMMA RemovedUnowned ==
    ASSUME LogInv, RemoveInv, Own, NEW d \in Devices, NEW x \in Range(todo[d]),
           at[d] \in {"remove", "unlinked", "purge", "purged"},
           NEW i \in Slots, desc[i] # NoRec, i # deleting
    PROVE  desc[i].nvme[d] # x
<1>1. phase = "create" \/ Deleting \/ phase = "reset_rest"
    BY DEF LogInv, Control, StepOf
<1>2. CASE phase = "create"
    BY <1>2 DEF Own, CreateOwn, New
<1>3. CASE Deleting
  <2>1. x = desc[deleting].nvme[d] /\ deleting \in Slots /\ desc[deleting] # NoRec
      BY <1>3 DEF RemoveInv, Deleting, LogInv, OtherTypes, Control
  <2>2. Unique(desc)
      BY <1>3 DEF Own, UpOwn, Deleting
  <2> QED BY <2>1, <2>2 DEF Unique
<1>4. CASE phase = "reset_rest"
    BY <1>4 DEF RemoveInv, Known
<1> QED BY <1>1, <1>2, <1>3, <1>4

LEMMA DeletedBits ==
    ASSUME NEW l \in LogsOf({Valid}), NEW x
    PROVE  deleteFile(l, x) \in LogsOf({Valid}) /\ deleteFile(l, x).bits = l.bits \ {x}
<1>1. PICK S : S = l.bits \ {x}
    OBVIOUS
<1>2. S \in SUBSET Slots
    BY <1>1 DEF LogsOf
<1>3. [l EXCEPT !.bits = S] \in LogsOf({Valid}) /\ [l EXCEPT !.bits = S].bits = S
    BY <1>2 DEF LogsOf
<1>4. deleteFile(l, x) = Count([l EXCEPT !.bits = S], 1)
    BY <1>1 DEF deleteFile
<1>5. PICK b : b = [l EXCEPT !.bits = S]
    OBVIOUS
<1>6. b \in LogsOf({Valid}) /\ b.bits = S /\ deleteFile(l, x) = Count(b, 1) /\ 1 \in Nat
    BY <1>3, <1>4, <1>5
<1>7. Count(b, 1) \in LogsOf({Valid}) /\ Count(b, 1).bits = b.bits
    BY <1>6, CountedLog
<1> QED BY <1>1, <1>6, <1>7

\* The step takes at most x from the log and the files of the device.
LEMMA TakenOwn ==
    ASSUME LogInv, RemoveInv, Own, NEW d \in Devices, NEW x \in Range(todo[d]),
           at[d] \in {"remove", "unlinked", "purge", "purged"}, UNCHANGED <<desc, deleting>>,
           \A y \in nlog[d].bits : y = x \/ y \in nlog'[d].bits,
           \A y \in files[d] : y = x \/ y \in files'[d]
    PROVE  OwnOn(d)'
<1>1. OwnOn(d)
    BY DEF LogInv, Control, StepOf, Deleting, Own, UpOwn
<1>2. \A i \in Slots : desc[i] # NoRec /\ i # deleting => desc[i].nvme[d] # x
    BY RemovedUnowned
<1> QED BY <1>1, <1>2 DEF OwnOn

\* A removal leaves the new files different from those of the GPU files.
LEMMA TakenNew ==
    ASSUME Own, NEW d \in Devices, phase = "create", desc' = desc,
           at'[d] \in {"remove", "unlinked"}, \A y \in Range(todo'[d]) : y \in Range(todo[d])
    PROVE  New(d)'
BY DEF Own, CreateOwn, New

LEMMA UnlinkNextOwn ==
    ASSUME LogInv, RemoveInv, Own, NEW d \in Devices, UnlinkNext(d) PROVE Own'
<1>1. /\ UNCHANGED <<phase, starting, gpuVars, deleting, nlog, io_failed>> /\ todo[d] # << >>
      /\ todo \in [Devices -> Seq(Slots)] /\ at[d] = "remove" /\ desc' = desc
      /\ todo' = todo \/ todo' = [todo EXCEPT ![d] = Tail(@)]
      /\ at \in [Devices -> {"idle", "remove", "unlinked", "purge", "purged", "record",
                             "file", "created", "close"}]
      /\ at' = at \/ at' = [at EXCEPT ![d] = "unlinked"]
      /\ files \in [Devices -> SUBSET Slots]
      /\ files' = files \/ files' = [files EXCEPT ![d] = @ \ {Head(todo[d])}]
    BY DEF UnlinkNext, LogInv, OtherTypes, history, gpuVars
<1>2. \A x \in Range(todo'[d]) : x \in Range(todo[d])
    BY <1>1, TodoRange
<1>3. at'[d] \in {"remove", "unlinked"} /\ Head(todo[d]) \in Range(todo[d])
    BY <1>1, TodoRange
<1>4. /\ \A y \in nlog[d].bits : y = Head(todo[d]) \/ y \in nlog'[d].bits
      /\ \A y \in files[d] : y = Head(todo[d]) \/ y \in files'[d]
    BY <1>1
<1>5. OwnOn(d)'
    BY <1>1, <1>3, <1>4, TakenOwn
<1>6. phase = "create" => New(d)' /\ io_failed
    BY <1>1, <1>2, <1>3, TakenNew DEF Own, FailOwn
<1>7. \A u \in Devices : u # d => /\ todo'[u] = todo[u] /\ nlog'[u] = nlog[u]
                                  /\ at'[u] = at[u] /\ files'[u] = files[u]
    BY DeviceSteps
<1> QED BY <1>1, <1>5, <1>6, <1>7, DeviceOwn

LEMMA ForgetUnlinkedOwn ==
    ASSUME LogInv, RemoveInv, Own, NEW d \in Devices, ForgetUnlinked(d) PROVE Own'
<1>1. /\ UNCHANGED <<phase, starting, gpuVars, deleting, files, io_failed>> /\ todo[d] # << >>
      /\ todo \in [Devices -> Seq(Slots)] /\ at[d] = "unlinked" /\ desc' = desc
      /\ todo' = [todo EXCEPT ![d] = Tail(@)] /\ at'[d] = "remove"
      /\ nlog'[d] = ForcePersist(deleteFile(nlog[d], Head(todo[d])))
    BY DEF ForgetUnlinked, LogInv, OtherTypes, NvmeLogInv, Control, StepOf, history, gpuVars
<1>2. \A x \in Range(todo'[d]) : x \in Range(todo[d])
    BY <1>1, TodoRange
<1>3. Head(todo[d]) \in Range(todo[d])
    BY <1>1, TodoRange
<1>4. nlog'[d].bits = nlog[d].bits \ {Head(todo[d])}
  <2>1. /\ deleteFile(nlog[d], Head(todo[d])) \in LogsOf({Valid})
        /\ deleteFile(nlog[d], Head(todo[d])).bits = nlog[d].bits \ {Head(todo[d])}
      BY NvmeLog, DeletedBits
  <2> QED BY <1>1, <2>1, ForcedLog
<1>5. OwnOn(d)'
  <2>1. /\ \A y \in nlog[d].bits : y = Head(todo[d]) \/ y \in nlog'[d].bits
        /\ \A y \in files[d] : y = Head(todo[d]) \/ y \in files'[d]
      BY <1>1, <1>4
  <2> QED BY <1>1, <1>3, <2>1, TakenOwn
<1>6. phase = "create" => New(d)' /\ io_failed
    BY <1>1, <1>2, TakenNew DEF Own, FailOwn
<1>7. \A u \in Devices : u # d => /\ todo'[u] = todo[u] /\ nlog'[u] = nlog[u]
                                  /\ at'[u] = at[u] /\ files'[u] = files[u]
    BY DeviceSteps
<1> QED BY <1>1, <1>5, <1>6, <1>7, DeviceOwn

\* When no GPU file is left anything may be removed.
LEMMA RestOwn ==
    ASSUME LogInv, RemoveInv, Own, NEW d \in Devices, UnlinkRest(d) \/ ForgetRest(d) \/ FinishPurge(d)
    PROVE  Own'
<1>1. /\ UNCHANGED <<phase, starting, gpuVars, deleting, io_failed>> /\ at[d] \in {"purge", "purged"}
      /\ desc' = desc
    BY DEF UnlinkRest, ForgetRest, FinishPurge, history, gpuVars
<1>2. phase = "reset_rest" /\ Known = {}
    BY <1>1 DEF LogInv, Control, StepOf, RemoveInv
<1>3. OwnOn(d)'
    BY <1>1, <1>2 DEF OwnOn, Known
<1>7. \A u \in Devices : u # d => /\ todo'[u] = todo[u] /\ nlog'[u] = nlog[u]
                                  /\ at'[u] = at[u] /\ files'[u] = files[u]
    BY DeviceSteps
<1> QED BY <1>1, <1>2, <1>3, <1>7, DeviceOwn

LEMMA CloseDeviceOwn ==
    ASSUME LogInv, Own, NEW d \in Devices, CloseDevice(d) PROVE Own'
<1>1. /\ UNCHANGED <<phase, starting, gpuVars, deleting, files, io_failed>> /\ at[d] = "close"
      /\ desc' = desc /\ phase = "closing" /\ nlog'[d] = Flushed(ForcePersist(nlog[d]))
    BY DEF CloseDevice, LogInv, NvmeLogInv, history, gpuVars
<1>2. nlog'[d].bits = nlog[d].bits
    BY <1>1, NvmeLog, ForcedLog, FlushedLog
<1>3. OwnOn(d)'
    BY <1>1, <1>2 DEF OwnOn, Own, UpOwn
<1>7. \A u \in Devices : u # d => /\ todo'[u] = todo[u] /\ nlog'[u] = nlog[u]
                                  /\ at'[u] = at[u] /\ files'[u] = files[u]
    BY DeviceSteps
<1> QED BY <1>1, <1>3, <1>7, DeviceOwn

\* FileManager::createFile takes a slot that nobody has.
LEMMA CreateFileOwn ==
    ASSUME LogInv, Own, NEW d \in Devices, createFile(d) PROVE Own'
<1>1. PICK id : id = findNextFreeSlot(nlog[d])
    OBVIOUS
<1>2. /\ UNCHANGED <<phase, starting, gpuVars, deleting, files, io_failed>> /\ at[d] = "record"
      /\ desc' = desc /\ nlog'[d] = NewFile(nlog[d], id)
      /\ todo'[d] = Append(todo[d], id) /\ at'[d] = "file" /\ todo[d] \in Seq(Slots)
    BY <1>1 DEF createFile, LogInv, OtherTypes, NvmeLogInv, history, gpuVars
<1>3. phase = "create" /\ id \in Slots /\ id \notin nlog[d].bits
  <2>1. phase = "create" /\ Cardinality(nlog[d].bits) < NumFiles * MaxStarts
      BY <1>2, RoomOnDevice
  <2> QED BY <1>1, <2>1, NvmeLog, NextFreeSlot
<1>4. nlog'[d].bits = nlog[d].bits \cup {id}
  <2>1. PICK m \in Int : m = NumFiles * starts
      BY <1>2, RoomOnDevice
  <2>2. Rounds = starts /\ Cardinality(nlog[d].bits) < m
      BY <1>2, <2>1, RoomOnDevice
  <2>6. m <= m
      OBVIOUS
  <2>3. LogOk({Valid}, nlog[d], {}, NumFiles * Rounds)
      BY DEF LogInv, NvmeLogInv
  <2>4. LogOk({Valid}, nlog[d], {}, m)
      BY <2>1, <2>2, <2>3
  <2>7. id \in Slots
      BY <1>3
  <2>5. /\ LogOk({Valid}, NewFile(nlog[d], id), {}, m)
        /\ NewFile(nlog[d], id).bits = nlog[d].bits \cup {id}
    <3>1. PICK g : g = nlog[d]
        OBVIOUS
    <3>2. LogOk({Valid}, g, {}, m) /\ Cardinality(g.bits) < m
        BY <2>2, <2>4, <3>1
    <3>3. LogOk({Valid}, NewFile(g, id), {}, m) /\ NewFile(g, id).bits = g.bits \cup {id}
        BY <2>6, <2>7, <3>2, OkNewFile
    <3> QED BY <3>1, <3>3
  <2> QED BY <1>2, <2>5
<1>5. New(d) /\ OwnOn(d) /\ deleting = -1
    BY <1>3 DEF Own, UpOwn, CreateOwn, LogInv, Control
<1>6. OwnOn(d)'
    BY <1>2, <1>4, <1>5 DEF OwnOn
<1>7. New(d)'
  <2>1. PICK n \in Nat : n = Len(todo[d])
      BY <1>2
  <2>2. /\ Len(todo'[d]) = n + 1 /\ DOMAIN todo'[d] = 1 .. n + 1 /\ DOMAIN todo[d] = 1 .. n
        /\ todo'[d][n + 1] = id /\ \A k \in 1 .. n : todo'[d][k] = todo[d][k]
      BY <1>2, <2>1
  <2>3. /\ Injective(todo[d]) /\ \A k \in 1 .. n : todo[d][k] \in nlog[d].bits /\ todo[d][k] \in files[d]
      BY <1>2, <1>5, <2>1, <2>2 DEF New, Range
  <2>4. Injective(todo'[d])
    <3>1. \A k \in 1 .. n : todo'[d][k] # id
        BY <1>3, <2>2, <2>3
    <3>2. \A k \in 1 .. n + 1 : k \in 1 .. n \/ k = n + 1
        OBVIOUS
    <3> QED BY <2>2, <2>3, <3>1, <3>2 DEF Injective
  <2>5. \A k \in 1 .. n + 1 : k \in 1 .. n \/ k = n + 1
      OBVIOUS
  <2>6. \A x \in Range(todo'[d]) : x = id \/ x \in Range(todo[d])
      BY <2>2, <2>5 DEF Range
  <2>7. \A x \in Range(todo'[d]) : x \in nlog'[d].bits
      BY <1>2, <1>4, <1>5, <2>6 DEF New
  <2>8. \A k \in DOMAIN todo'[d] : k = Len(todo'[d]) \/ todo'[d][k] \in files'[d]
      BY <1>2, <2>2, <2>3, <2>5
  <2>9. \A i \in Slots : desc'[i] # NoRec => desc'[i].nvme[d] \notin Range(todo'[d])
    <3>1. ASSUME NEW i \in Slots, desc[i] # NoRec PROVE desc[i].nvme[d] # id
      <4>1. i # deleting
          BY <1>5, NoSlot
      <4> QED BY <1>3, <1>5, <3>1, <4>1 DEF OwnOn
    <3> QED BY <1>2, <1>5, <2>6, <3>1 DEF New
  <2> QED BY <1>2, <2>4, <2>7, <2>8, <2>9 DEF New
<1>8. \A u \in Devices : u # d => /\ todo'[u] = todo[u] /\ nlog'[u] = nlog[u]
                                  /\ at'[u] = at[u] /\ files'[u] = files[u]
    BY DeviceSteps
<1> QED BY <1>2, <1>6, <1>7, <1>8, DeviceOwn

LEMMA CreateOnDiskOwn ==
    ASSUME LogInv, Own, NEW d \in Devices, CreateOnDisk(d) PROVE Own'
<1>1. /\ UNCHANGED <<phase, starting, gpuVars, deleting, nlog, todo, io_failed>> /\ at[d] = "file"
      /\ desc' = desc /\ files'[d] = files[d] \cup {Last(todo[d])}
      /\ at'[d] \in {"created", "record"} /\ todo[d] \in Seq(Slots) /\ todo[d] # << >>
    BY DEF CreateOnDisk, LogInv, OtherTypes, Control, StepOf, history, gpuVars
<1>2. phase = "create"
    BY <1>1 DEF LogInv, Control, StepOf
<1>3. New(d) /\ OwnOn(d)
    BY <1>2 DEF Own, UpOwn, CreateOwn
<1>4. OwnOn(d)'
    BY <1>1, <1>3 DEF OwnOn
<1>5. New(d)'
  <2>1. Last(todo[d]) = todo[d][Len(todo[d])]
      BY DEF Last
  <2>2. \A k \in DOMAIN todo[d] : todo[d][k] \in files'[d]
      BY <1>1, <1>3, <2>1 DEF New
  <2> QED BY <1>1, <1>3, <2>2 DEF New
<1>8. \A u \in Devices : u # d => /\ todo'[u] = todo[u] /\ nlog'[u] = nlog[u]
                                  /\ at'[u] = at[u] /\ files'[u] = files[u]
    BY DeviceSteps
<1> QED BY <1>1, <1>4, <1>5, <1>8, DeviceOwn

LEMMA CreateFailsOwn ==
    ASSUME LogInv, Own, NEW d \in Devices, CreateFails(d) PROVE Own'
<1>1. /\ UNCHANGED <<phase, starting, gpuVars, deleting>> /\ at[d] = "file"
      /\ desc' = desc /\ (\A x \in files[d] : x \in files'[d]) /\ io_failed' = TRUE
      /\ nlog'[d] = deleteFile(nlog[d], Last(todo[d])) /\ at'[d] = "remove"
      /\ todo[d] \in Seq(Slots) /\ todo[d] # << >> /\ todo'[d] = Front(todo[d])
    BY DEF CreateFails, LogInv, OtherTypes, Control, NvmeLogInv, StepOf, history, gpuVars
<1>2. phase = "create" /\ deleting = -1
    BY <1>1 DEF LogInv, Control, StepOf
<1>3. New(d) /\ OwnOn(d)
    BY <1>2 DEF Own, UpOwn, CreateOwn
<1>4. /\ nlog'[d].bits = nlog[d].bits \ {Last(todo[d])} /\ Last(todo[d]) \in Range(todo[d])
      /\ \A y \in Range(todo'[d]) : y \in Range(todo[d])
    BY <1>1, NvmeLog, DeletedBits, TodoRange
<1>5. OwnOn(d)'
  <2>1. \A i \in Slots : desc[i] # NoRec => desc[i].nvme[d] # Last(todo[d])
      BY <1>3, <1>4 DEF New
  <2> QED BY <1>1, <1>3, <1>4, <2>1 DEF OwnOn
<1>6. New(d)'
    BY <1>1, <1>2, <1>4, TakenNew
<1>8. \A u \in Devices : u # d => /\ todo'[u] = todo[u] /\ nlog'[u] = nlog[u]
                                  /\ at'[u] = at[u] /\ files'[u] = files[u]
    BY DeviceSteps
<1> QED BY <1>1, <1>5, <1>6, <1>8, DeviceOwn

\* A step of init's last loop, of the running process or of cleanup.
LEMMA QuietOwn ==
    ASSUME Own, phase \in {"init", "ready", "failed"},
           phase' \in {"init", "ready", "failed", "closing"},
           phase' \in {"init", "ready"} => phase \in {"init", "ready"}, phase' = "failed" => io_failed',
           UNCHANGED <<desc, deleting, nlog, files, header, slots>>, glog'.bits = glog.bits
    PROVE  Own'
<1>1. Known' = Known
    BY DEF Known
<1>2. UpOwn'
    BY DEF Own, UpOwn, OwnOn
<1>3. CountOwn'
    BY <1>1 DEF Own, CountOwn
<1> QED BY <1>2, <1>3 DEF Own, DownOwn, CreateOwn, FailOwn

\* The logs are enough for init: only the file system can make it fail.
LEMMA InitFailsOwn == ASSUME LogInv, Own, initFails PROVE Own'
<1>1. /\ phase = "init" /\ done \in Nat /\ done < NumFiles /\ NumFiles \in Nat /\ deleting = -1
      /\ UNCHANGED <<desc, deleting, nlog, files, header, slots, glog>> /\ phase' = "failed"
    BY SlotsAssumption DEF initFails, gpuVars, starting, nvmeVars, LogInv, OtherTypes, Control
<1>2. done \in Known
  <2>1. Full(Known) /\ Known # {}
      BY <1>1 DEF Own, CountOwn
  <2>2. PICK m \in Nat : m >= NumFiles /\ Known = 0 .. m - 1
      BY <2>1 DEF Full
  <2> HIDE DEF Known
  <2> QED BY <1>1, <2>2
<1>3. \A d \in Devices : desc[done].nvme[d] \in nlog[d].bits \cap files[d]
  <2>1. done \in Slots /\ desc[done] # NoRec /\ done # deleting
      BY <1>1, <1>2 DEF Known
  <2> QED BY <1>1, <2>1 DEF Own, UpOwn, OwnOn
<1>4. io_failed'
    BY <1>2, <1>3 DEF initFails, Unopened
<1> QED BY <1>1, <1>4, QuietOwn

LEMMA CleanupOwn == ASSUME LogInv, Own, cleanup PROVE Own'
<1>1. /\ phase \in {"ready", "failed"} /\ phase' = "closing" /\ glog' = persistBitmap(glog)
      /\ UNCHANGED <<desc, deleting, nlog, files, header, slots>>
    BY DEF cleanup, starting
<1>2. glog'.bits = glog.bits
    BY <1>1, GpuLog, PersistedLog
<1> QED BY <1>1, <1>2, QuietOwn

\* A reset: what it leaves of the GPU files.
LEMMA BeginDeleteOwn == ASSUME LogInv, Own, NEW i \in Slots, BeginDelete(i) PROVE Own'
<1>1. /\ phase = "reset" /\ phase' = "reset" /\ deleting = -1 /\ deleting' = i
      /\ UNCHANGED <<desc, nlog, files, header, slots, glog>>
    BY DEF BeginDelete, gpuVars, starting
<1>2. \A d \in Devices : OwnOn(d)'
  <2>1. \A j \in Slots : j # -1
      BY NoSlot
  <2> QED BY <1>1, <2>1 DEF Own, UpOwn, OwnOn
<1>3. UpOwn'
    BY <1>1, <1>2 DEF Own, UpOwn
<1> QED BY <1>1, <1>3 DEF Own, DownOwn, CreateOwn, CountOwn, FailOwn

LEMMA DeleteOwn == ASSUME LogInv, Own, deleteGPUFile PROVE Own'
<1>1. /\ phase = "reset" /\ phase' = "reset" /\ deleting \in Slots /\ deleting' = -1
      /\ desc \in [Slots -> Record \cup {NoRec}] /\ desc' = [desc EXCEPT ![deleting] = NoRec]
      /\ UNCHANGED <<nlog, files, header, slots>> /\ slots = << >>
      /\ glog' = Count(writeRecordToSlot([glog EXCEPT !.bits = @ \ {deleting}], deleting, Empty), 1)
    BY DEF deleteGPUFile, starting, LogInv, OtherTypes, Control
<1>2. /\ \A j \in Slots : desc'[j] # NoRec => desc'[j] = desc[j] /\ desc[j] # NoRec /\ j # deleting
      /\ \A j \in Slots : j # deleting => desc'[j] = desc[j]
    BY <1>1
<1>3. glog'.bits = glog.bits \ {deleting}
  <2>1. PICK S : S = glog.bits \ {deleting}
      OBVIOUS
  <2>2. PICK b : b = [glog EXCEPT !.bits = S]
      OBVIOUS
  <2>3. S \in SUBSET Slots /\ Empty \in Record \cup {Empty} /\ 1 \in Nat
      BY <2>1, GpuLog DEF LogsOf
  <2>4. b \in LogsOf(Record \cup {Empty}) /\ b.bits = S
      BY <2>2, <2>3, GpuLog, BitsLog
  <2>5. PICK w : w = writeRecordToSlot(b, deleting, Empty)
      OBVIOUS
  <2>6. w \in LogsOf(Record \cup {Empty}) /\ w.bits = S
      BY <1>1, <2>3, <2>4, <2>5, WrittenLog
  <2>7. glog' = Count(w, 1)
      BY <1>1, <2>1, <2>2, <2>5
  <2> QED BY <2>1, <2>3, <2>6, <2>7, CountedLog
<1>4. Unique(desc')
  <2>1. Unique(desc)
      BY <1>1 DEF Own, UpOwn
  <2> QED BY <1>2, <2>1 DEF Unique
<1>5. \A d \in Devices : OwnOn(d)'
    BY <1>1, <1>2 DEF Own, UpOwn, OwnOn
<1>6. \A i \in glog'.bits : i \in Range(slots') \/ desc'[i] # NoRec
  <2>1. glog.bits \subseteq Slots
      BY GpuLog DEF LogsOf
  <2> QED BY <1>1, <1>2, <1>3, <2>1 DEF Own, UpOwn
<1>7. UpOwn'
    BY <1>1, <1>4, <1>5, <1>6 DEF Own, UpOwn
<1> QED BY <1>1, <1>7 DEF Own, DownOwn, CreateOwn, CountOwn, FailOwn

LEMMA ResetOwn == ASSUME LogInv, RemoveInv, Own, ResetRest \/ FinishReset PROVE Own'
<1>1. /\ phase \in {"reset", "reset_rest"} /\ phase' \in {"reset_rest", "check"}
      /\ UNCHANGED <<desc, deleting, nlog, files, header, slots>> /\ Known = {}
      /\ glog' = glog \/ glog' = persistBitmap(glog)
    BY DEF ResetRest, FinishReset, gpuVars, nvmeVars, starting, RemoveInv
<1>2. glog'.bits = glog.bits
    BY <1>1, GpuLog, PersistedLog
<1>3. UpOwn'
    BY <1>1, <1>2 DEF Own, UpOwn, OwnOn
<1>4. Full(Known')
  <2>1. Known' = {}
      BY <1>1 DEF Known
  <2> QED BY <2>1 DEF Full
<1> QED BY <1>1, <1>3, <1>4 DEF Own, DownOwn, CreateOwn, CountOwn, FailOwn

LEMMA InitializeOwn == ASSUME LogInv, ShapeInv, GpuSaved, Own, initializeLogFile PROVE Own'
<1>1. /\ phase = "new_log" /\ phase' \in {"reset", "check"} /\ header' = "valid" /\ Known = {}
      /\ UNCHANGED <<desc, deleting, nlog, files, slots, glog>>
    BY DEF initializeLogFile, gpuVars, nvmeVars, ShapeInv
<1>2. UpOwn'
    BY <1>1 DEF Own, UpOwn, OwnOn
<1>3. Full(Known')
  <2>1. Known' = {}
      BY <1>1 DEF Known
  <2> QED BY <2>1 DEF Full
<1> QED BY <1>1, <1>2, <1>3 DEF Own, DownOwn, CreateOwn, CountOwn, FailOwn

\* With the m lowest slots taken, the k-th free one is m + k - 1.
LEMMA LowestFree ==
    ASSUME NEW N \in Nat, NEW m \in Nat, NEW k \in Nat, k >= 1, m + k <= N,
           NEW s \in (0 .. N - 1) \ (0 .. m - 1),
           Cardinality({x \in (0 .. N - 1) \ (0 .. m - 1) : x < s}) = k - 1
    PROVE  s = m + k - 1
<1> DEFINE S == (0 .. N - 1) \ (0 .. m - 1)
           r == m + k - 1
<1>1. S \in SUBSET Nat /\ IsFiniteSet(S)
  <2>1. IsFiniteSet(0 .. N - 1)
      BY FS_Interval
  <2> QED BY <2>1, FS_Subset
<1>2. r \in S
    OBVIOUS
<1>3. {x \in S : x < r} = m .. r - 1
    OBVIOUS
<1>4. Cardinality(m .. r - 1) = k - 1
  <2>1. m \in Int /\ r - 1 \in Int
      OBVIOUS
  <2>2. Cardinality(m .. r - 1) = IF m > r - 1 THEN 0 ELSE (r - 1) - m + 1
      BY <2>1, FS_Interval
  <2> QED BY <2>2
<1> HIDE DEF S, r
<1>5. s \in S /\ Cardinality({x \in S : x < s}) = Cardinality({x \in S : x < r})
    BY <1>3, <1>4 DEF S
<1>6. s = r
    BY <1>1, <1>2, <1>5, RankInjective
<1> QED BY <1>6 DEF r

\* Before a check the slots used are those of the known files, without gaps.
LEMMA CheckBits ==
    ASSUME LogInv, GpuSaved, Own, phase = "check"
    PROVE  \E m \in Nat : glog.bits = 0 .. m - 1 /\ Known = 0 .. m - 1 /\ (m = 0 \/ m >= NumFiles)
<1>1. slots = << >> /\ Range(slots) = {}
    BY DEF LogInv, Control, Range
<1>2. glog.bits = Known
  <2>1. glog.bits \subseteq Slots
      BY GpuLog DEF LogsOf
  <2> QED BY <1>1, <2>1 DEF Own, UpOwn, GpuSaved, Known
<1>3. Full(Known)
    BY DEF Own, CountOwn
<1>4. CASE Known = {}
  <2>1. {} = 0 .. 0 - 1
      OBVIOUS
  <2> QED BY <1>2, <1>4, <2>1
<1>5. CASE Known # {}
    BY <1>2, <1>3, <1>5 DEF Full
<1> QED BY <1>4, <1>5

\* The files that are created follow those that are there.
LEMMA CheckFollow ==
    ASSUME LogInv, phase = "check", NEW n \in 0 .. NumFiles, NEW m \in Nat, glog.bits = 0 .. m - 1
    PROVE  \A k \in 1 .. n : findMultipleFreeSlots(n)[k] = m + k - 1
<1> DEFINE f == findMultipleFreeSlots(n)
<1>1. PICK N \in Nat : N = NumFiles * MaxStarts
    BY SlotsAssumption
<1>2. Slots = 0 .. N - 1
    BY <1>1, SlotsAssumption
<1>3. m + n <= N
  <2>1. Cardinality(glog.bits) + n <= NumFiles * starts
      BY CheckSlots
  <2>2. Cardinality(0 .. m - 1) = m
      BY FS_Interval
  <2>3. starts \in Nat /\ starts <= MaxStarts /\ MaxStarts \in Nat /\ NumFiles \in Nat
      BY SlotsAssumption DEF LogInv, OtherTypes
  <2>4. PICK p \in Nat : p = NumFiles * starts
      BY <2>3
  <2>5. p <= N
    <3>1. CASE starts = MaxStarts
        BY <1>1, <2>4, <3>1
    <3>2. CASE starts < MaxStarts
        BY <1>1, <2>3, <2>4, <3>2, Products
    <3> QED BY <2>3, <3>1, <3>2
  <2> QED BY <2>1, <2>2, <2>4, <2>5
<1>4. \A k \in 1 .. n : /\ f[k] \in Slots \ glog.bits
                        /\ Cardinality({x \in Slots \ glog.bits : x < f[k]}) = k - 1
    BY CheckSlots
<1> HIDE DEF f
<1>5. ASSUME NEW k \in 1 .. n PROVE f[k] = m + k - 1
  <2>1. k \in Nat /\ k >= 1 /\ m + k <= N
      BY <1>3
  <2>2. f[k] \in (0 .. N - 1) \ (0 .. m - 1)
      BY <1>2, <1>4
  <2>3. Cardinality({x \in (0 .. N - 1) \ (0 .. m - 1) : x < f[k]}) = k - 1
      BY <1>2, <1>4
  <2> QED BY <2>1, <2>2, <2>3, LowestFree
<1> QED BY <1>5 DEF f

LEMMA CheckOwn == ASSUME LogInv, GpuSaved, Own, CheckExisting PROVE Own'
<1>1. PICK sample : /\ sample \in IF Known = {} THEN {-1} ELSE Known
                    /\ LET n == ToCreate(sample)
                       IN  /\ slots' = findMultipleFreeSlots(n)
                           /\ glog' = [glog EXCEPT !.bits = @ \cup Range(slots')]
                           /\ phase' = IF n = 0 THEN "init" ELSE "create"
                           /\ at' = All(IF n = 0 THEN "idle" ELSE "record")
    BY DEF CheckExisting
<1>2. PICK n \in 0 .. NumFiles : n = ToCreate(sample)
    BY CreateCount
<1>3. /\ phase = "check" /\ phase' = (IF n = 0 THEN "init" ELSE "create")
      /\ at' = All(IF n = 0 THEN "idle" ELSE "record")
      /\ UNCHANGED <<header, desc, deleting, nlog, files>> /\ todo' = All(<< >>) /\ slots = << >>
      /\ deleting = -1
    BY <1>1, <1>2 DEF CheckExisting, starting, LogInv, Control
<1>4. PICK m \in Nat : glog.bits = 0 .. m - 1 /\ Known = 0 .. m - 1 /\ (m = 0 \/ m >= NumFiles)
    BY <1>3, CheckBits
<1>5. /\ slots' \in Seq(Slots) /\ Len(slots') = n /\ DOMAIN slots' = 1 .. n
      /\ \A k \in 1 .. n : slots'[k] = m + k - 1
    BY <1>1, <1>2, <1>3, <1>4, CheckSlots, CheckFollow
<1>6. Known' = 0 .. m - 1
    BY <1>3, <1>4 DEF Known
<1>7. /\ NumFiles \in Nat \ {0} /\ (m = 0 => n = NumFiles)
  <2>1. Cardinality(Known) = m /\ NumFiles \in Nat \ {0}
      BY <1>4, FS_Interval, SlotsAssumption
  <2> HIDE DEF Known
  <2> QED BY <1>2, <2>1 DEF ToCreate
<1>8. glog'.bits = glog.bits \cup Range(slots')
  <2>1. PICK S : S = glog.bits \cup Range(slots')
      OBVIOUS
  <2>2. S \in SUBSET Slots
    <3>1. Range(slots') \subseteq Slots
        BY <1>5 DEF Range
    <3> QED BY <2>1, <3>1, GpuLog DEF LogsOf
  <2>3. glog' = [glog EXCEPT !.bits = S]
      BY <1>1, <2>1
  <2> QED BY <2>1, <2>2, <2>3, GpuLog, BitsLog
<1>9. UpOwn'
  <2>1. header' = "valid" /\ Unique(desc')
      BY <1>3 DEF Own, UpOwn
  <2>2. \A d \in Devices : OwnOn(d)'
      BY <1>3 DEF Own, UpOwn, OwnOn
  <2>3. \A i \in glog'.bits : i \in Range(slots') \/ desc'[i] # NoRec
    <3>1. Range(slots) = {}
        BY <1>3 DEF Range
    <3> QED BY <1>3, <1>8, <3>1 DEF Own, UpOwn
  <2> QED BY <2>1, <2>2, <2>3 DEF UpOwn
<1>10. CreateOwn'
  <2>1. ASSUME NEW d \in Devices, phase' = "create" PROVE New(d)'
    <3>1. todo'[d] = << >> /\ Range(todo'[d]) = {} /\ Injective(todo'[d]) /\ DOMAIN todo'[d] = {}
        BY <1>3 DEF All, Range, Injective
    <3> QED BY <3>1 DEF New
  <2> QED BY <1>3, <2>1 DEF CreateOwn
<1>11. CountOwn'
  <2>1. CASE n = 0
    <3>1. Full(Known') /\ Known' # {}
      <4>1. m >= NumFiles
          BY <1>4, <1>7, <2>1
      <4>2. 0 \in 0 .. m - 1
          BY <1>7, <4>1
      <4> QED BY <1>6, <4>1, <4>2 DEF Full
    <3> QED BY <1>3, <2>1, <3>1 DEF CountOwn
  <2>2. CASE n # 0
    <3>1. (m = 0 /\ Len(slots') = NumFiles) \/ m >= NumFiles
        BY <1>4, <1>5, <1>7
    <3>2. \A k \in DOMAIN slots' : slots'[k] = m + k - 1
        BY <1>5
    <3> QED BY <1>3, <1>6, <2>2, <3>1, <3>2 DEF CountOwn
  <2> QED BY <2>1, <2>2
<1>12. FailOwn'
    BY <1>3 DEF FailOwn, All
<1> QED BY <1>3, <1>9, <1>10, <1>11, <1>12 DEF Own, DownOwn

\* A creation that failed leaves the known files as they were.
LEMMA GatherOwn == ASSUME LogInv, GpuSaved, Own, GatherResults PROVE Own'
<1>1. /\ phase = "create" /\ phase' \in {"failed", "records"} /\ at' = All("idle")
      /\ UNCHANGED <<header, desc, deleting, nlog, files, io_failed>> /\ deleting = -1
      /\ \A d \in Devices : at[d] = "created" \/ (at[d] = "remove" /\ todo[d] = << >>)
    BY DEF GatherResults, starting, history, LogInv, Control
<1>2. Known' = Known
    BY <1>1 DEF Known
<1>3. header' = "valid" /\ Unique(desc')
    BY <1>1 DEF Own, UpOwn
<1>4. \A d \in Devices : OwnOn(d)'
    BY <1>1 DEF Own, UpOwn, OwnOn
<1>5. PICK m \in Nat : /\ Known = 0 .. m - 1
                       /\ (m = 0 /\ Len(slots) = NumFiles) \/ m >= NumFiles
                       /\ \A k \in DOMAIN slots : slots[k] = m + k - 1
    BY <1>1 DEF Own, CountOwn
<1>6. CASE \E d \in Devices : at[d] = "remove"
  <2>1. phase' = "failed" /\ slots' = << >> /\ glog' = [glog EXCEPT !.bits = @ \ Range(slots)]
      BY <1>6 DEF GatherResults
  <2>2. glog'.bits = glog.bits \ Range(slots)
    <3>1. PICK S : S = glog.bits \ Range(slots)
        OBVIOUS
    <3>2. S \in SUBSET Slots /\ glog' = [glog EXCEPT !.bits = S]
        BY <2>1, <3>1, GpuLog DEF LogsOf
    <3> QED BY <3>1, <3>2, GpuLog, BitsLog
  <2>3. \A i \in glog'.bits : desc'[i] # NoRec
      BY <1>1, <2>2 DEF Own, UpOwn
  <2>4. Full(Known')
    <3>1. m = 0 => 0 .. m - 1 = {}
        OBVIOUS
    <3> QED BY <1>2, <1>5, <3>1 DEF Full
  <2>5. io_failed'
      BY <1>1, <1>6 DEF Own, FailOwn
  <2>6. UpOwn'
      BY <1>3, <1>4, <2>3 DEF UpOwn
  <2> QED BY <2>1, <2>4, <2>5, <2>6 DEF Own, DownOwn, CreateOwn, CountOwn, FailOwn
<1>7. CASE ~ \E d \in Devices : at[d] = "remove"
  <2>1. phase' = "records" /\ UNCHANGED <<glog, slots, todo>> /\ \A d \in Devices : at[d] = "created"
      BY <1>1, <1>7 DEF GatherResults
  <2>2. UpOwn'
      BY <1>1, <1>3, <1>4, <2>1 DEF Own, UpOwn
  <2>3. CreateOwn'
    <3>1. ASSUME NEW d \in Devices PROVE New(d)'
      <4>1. New(d) /\ at[d] = "created" /\ at'[d] = "idle"
          BY <1>1, <2>1 DEF Own, CreateOwn, All
      <4> QED BY <1>1, <2>1, <4>1 DEF New
    <3> QED BY <3>1 DEF CreateOwn
  <2>4. CountOwn'
      BY <1>2, <1>5, <2>1 DEF CountOwn
  <2> QED BY <2>1, <2>2, <2>3, <2>4 DEF Own, DownOwn, FailOwn
<1> QED BY <1>6, <1>7

LEMMA WriteRecordOwn == ASSUME LogInv, Own, WriteRecord PROVE Own'
<1>1. /\ phase = "records" /\ phase' = "records" /\ done \in Nat /\ done < Len(slots)
      /\ UNCHANGED <<header, desc, deleting, nlog, files, slots, at, todo>> /\ slots \in Seq(Slots)
      /\ glog' = writeRecordToSlot(glog, slots[done + 1], NewRecord(done + 1))
    BY DEF WriteRecord, starting, nvmeVars, LogInv, OtherTypes
<1>2. done + 1 \in 1 .. Len(slots) /\ slots[done + 1] \in Slots
    BY <1>1
<1>3. NewRecord(done + 1) \in Record \cup {Empty}
    BY <1>1, <1>2, RecordType
<1>4. glog'.bits = glog.bits
    BY <1>1, <1>2, <1>3, GpuLog, WrittenLog
<1>5. UpOwn'
    BY <1>1, <1>4 DEF Own, UpOwn, OwnOn
<1>6. CreateOwn'
    BY <1>1 DEF Own, CreateOwn, New
<1>7. CountOwn'
  <2>1. Known' = Known
      BY <1>1 DEF Known
  <2> QED BY <1>1, <2>1 DEF Own, CountOwn
<1> QED BY <1>1, <1>5, <1>6, <1>7 DEF Own, DownOwn, FailOwn

\* createGPUFiles gives every new GPU file the files just created for it.
LEMMA CreateGpuOwn == ASSUME LogInv, GpuSaved, Own, createGPUFiles PROVE Own'
<1>1. /\ phase = "records" /\ phase' = "init" /\ slots' = << >> /\ deleting = -1
      /\ glog' = Count(glog, Len(slots)) /\ UNCHANGED <<header, deleting, nlog, files>>
      /\ slots \in Seq(Slots) /\ Len(slots) \in 1 .. NumFiles /\ DOMAIN slots = 1 .. Len(slots)
      /\ \A d \in Devices : Len(todo[d]) = Len(slots) /\ todo[d] \in Seq(Slots)
    BY DEF createGPUFiles, starting, LogInv, OtherTypes, Control
<1>14. desc' = [i \in Slots |-> IF \E k \in DOMAIN slots : slots[k] = i
                                 THEN NewRecord(CHOOSE k \in DOMAIN slots : slots[k] = i)
                                 ELSE desc[i]]
    BY DEF createGPUFiles
<1>15. Len(slots) \in Nat
    BY <1>1
<1>2. glog'.bits = glog.bits
    BY <1>1, <1>15, GpuLog, CountedLog
<1>3. PICK n \in Nat : n = Len(slots)
    BY <1>15
<1>4. PICK m \in Nat : /\ Known = 0 .. m - 1
                       /\ (m = 0 /\ n = NumFiles) \/ m >= NumFiles
                       /\ \A k \in 1 .. n : slots[k] = m + k - 1
    BY <1>1, <1>3 DEF Own, CountOwn
<1>5. \A d \in Devices : New(d) /\ OwnOn(d) /\ at[d] = "idle"
    BY <1>1 DEF Own, UpOwn, CreateOwn, LogInv, OtherTypes, Control, StepOf, Deleting
<1>6. ASSUME NEW i \in Slots
      PROVE  \/ /\ i \in Known /\ desc'[i] = desc[i]
                /\ \A k \in 1 .. n : slots[k] # i
             \/ \E k \in 1 .. n : slots[k] = i /\ desc'[i] = NewRecord(k)
             \/ desc'[i] = NoRec /\ i \notin Known /\ \A k \in 1 .. n : slots[k] # i
  <2>1. CASE \E k \in 1 .. n : slots[k] = i
    <3>1. desc'[i] = NewRecord(CHOOSE k \in DOMAIN slots : slots[k] = i)
        BY <1>1, <1>3, <1>14, <2>1
    <3> QED BY <1>1, <1>3, <2>1, <3>1
  <2>2. CASE ~ \E k \in 1 .. n : slots[k] = i
    <3>1. desc'[i] = desc[i]
        BY <1>1, <1>3, <1>14, <2>2
    <3> QED BY <2>2, <3>1 DEF Known
  <2> QED BY <2>1, <2>2
<1>7. ASSUME NEW k \in 1 .. n
      PROVE  /\ NewRecord(k) # NoRec
             /\ \A d \in Devices : NewRecord(k).nvme[d] = todo[d][k] /\ todo[d][k] \in Range(todo[d])
  <2>1. NewRecord(k) \in Record
      BY <1>1, <1>3, <1>7, RecordType
  <2>2. NewRecord(k) # NoRec
      BY <2>1, RecordAssumption
  <2>3. \A d \in Devices : todo[d][k] \in Range(todo[d])
      BY <1>1, <1>3, <1>7 DEF Range
  <2> QED BY <2>2, <2>3 DEF NewRecord
<1>8. Unique(desc')
  <2> SUFFICES ASSUME NEW d \in Devices, NEW i \in Slots, NEW j \in Slots,
                      desc'[i] # NoRec, desc'[j] # NoRec, desc'[i].nvme[d] = desc'[j].nvme[d]
               PROVE  i = j
      BY DEF Unique
  <2>1. \A x \in Known, k \in 1 .. n : desc[x].nvme[d] # NewRecord(k).nvme[d]
      BY <1>5, <1>7 DEF New, Known
  <2>2. ASSUME NEW k \in 1 .. n, NEW l \in 1 .. n, NewRecord(k).nvme[d] = NewRecord(l).nvme[d]
        PROVE  k = l
    <3>1. Injective(todo[d]) /\ DOMAIN todo[d] = 1 .. n
        BY <1>1, <1>3, <1>5 DEF New
    <3> QED BY <1>7, <2>2, <3>1 DEF Injective
  <2>3. CASE i \in Known /\ desc'[i] = desc[i]
    <3>1. j \in Known /\ desc'[j] = desc[j]
        BY <1>6, <2>1, <2>3
    <3>2. Unique(desc)
        BY <1>1 DEF Own, UpOwn
    <3> QED BY <2>3, <3>1, <3>2 DEF Unique, Known
  <2>4. CASE ~(i \in Known /\ desc'[i] = desc[i])
    <3>1. PICK k \in 1 .. n : slots[k] = i /\ desc'[i] = NewRecord(k)
        BY <1>6, <2>4
    <3>2. PICK l \in 1 .. n : slots[l] = j /\ desc'[j] = NewRecord(l)
        BY <1>6, <2>1, <3>1
    <3> QED BY <2>2, <3>1, <3>2
  <2> QED BY <2>3, <2>4
<1>9. ASSUME NEW d \in Devices PROVE OwnOn(d)'
  <2> SUFFICES ASSUME NEW i \in Slots, desc'[i] # NoRec
               PROVE  desc'[i].nvme[d] \in nlog'[d].bits /\ desc'[i].nvme[d] \in files'[d]
      BY DEF OwnOn
  <2>1. CASE i \in Known /\ desc'[i] = desc[i]
    <3>1. desc[i] # NoRec /\ i # deleting
        BY <1>1, <2>1, NoSlot DEF Known
    <3> QED BY <1>1, <1>5, <2>1, <3>1 DEF OwnOn
  <2>2. CASE ~(i \in Known /\ desc'[i] = desc[i])
    <3>1. PICK k \in 1 .. n : slots[k] = i /\ desc'[i] = NewRecord(k)
        BY <1>6, <2>2
    <3>2. desc'[i].nvme[d] = todo[d][k] /\ todo[d][k] \in Range(todo[d]) /\ k \in DOMAIN todo[d]
        BY <1>1, <1>3, <1>7, <3>1
    <3>3. todo[d][k] \in nlog[d].bits /\ todo[d][k] \in files[d]
        BY <1>5, <3>2 DEF New
    <3> QED BY <1>1, <3>2, <3>3
  <2> QED BY <2>1, <2>2
<1>10. \A i \in glog'.bits : i \in Range(slots') \/ desc'[i] # NoRec
  <2>1. ASSUME NEW i \in glog'.bits PROVE desc'[i] # NoRec
    <3>1. i \in glog.bits /\ i \in Slots /\ (i \in Range(slots) \/ i \in Known)
        BY <1>1, <1>2, <2>1, GpuLog DEF Own, UpOwn, LogsOf, Known
    <3>2. i \in Known \/ \E k \in 1 .. n : slots[k] = i
        BY <1>1, <1>3, <3>1 DEF Range
    <3> QED BY <1>6, <1>7, <3>1, <3>2 DEF Known
  <2> QED BY <2>1
<1>11. UpOwn'
    BY <1>1, <1>8, <1>9, <1>10 DEF UpOwn, Own
<1>12. Known' = 0 .. (m + n) - 1
  <2>1. Known \subseteq Slots /\ Known' \subseteq Slots
      BY DEF Known
  <2>2. \A k \in 1 .. n : m + k - 1 \in Slots
      BY <1>1, <1>3, <1>4
  <2>3. \A i \in Slots : i \in Known' <=> i \in Known \/ \E k \in 1 .. n : slots[k] = i
      BY <1>6, <1>7 DEF Known
  <2> HIDE DEF Known
  <2>4. \A i \in 0 .. (m + n) - 1 : i \in 0 .. m - 1 \/ (i - m + 1 \in 1 .. n /\ i = m + (i - m + 1) - 1)
      OBVIOUS
  <2>5. \A i \in 0 .. (m + n) - 1 : i \in Known'
      BY <1>4, <2>1, <2>2, <2>3, <2>4
  <2>6. \A i \in Known' : i \in 0 .. (m + n) - 1
      BY <1>4, <2>1, <2>3
  <2> QED BY <2>5, <2>6
<1>13. Full(Known') /\ Known' # {}
  <2>3. NumFiles \in Nat /\ n \in 1 .. NumFiles
      BY <1>1, <1>3, SlotsAssumption
  <2>4. (m = 0 /\ n = NumFiles) \/ m >= NumFiles
      BY <1>4
  <2>1. m + n \in Nat /\ m + n >= NumFiles /\ NumFiles \in Nat /\ n >= 1
      BY <2>3, <2>4
  <2>2. 0 \in 0 .. (m + n) - 1
      BY <2>1
  <2> QED BY <1>12, <2>1, <2>2 DEF Full
<1> QED BY <1>1, <1>11, <1>13 DEF Own, DownOwn, CreateOwn, CountOwn, FailOwn

\* A start finds the files of the table it loads.
LEMMA StartOwn ==
    ASSUME LogInv, ShapeInv, GpuSaved, Own, NEW sh \in Shapes, NEW r \in BOOLEAN, Start(sh, r)
    PROVE  Own'
<1>1. /\ phase = "down" /\ slots = << >> /\ slots' = << >> /\ deleting = -1 /\ deleting' = -1
      /\ files' = files /\ nlog' = [d \in Devices |-> NvmeLoaded(nlog[d])]
      /\ phase' \in {"new_log", "reset", "check"}
    BY DEF Start, LogInv, Control
<1>2. ASSUME NEW d \in Devices PROVE nlog'[d].bits = nlog[d].disk
  <2>1. PICK n \in Nat : n = NumFiles * Rounds
    <3>1. Rounds \in Nat /\ NumFiles \in Nat
        BY RoundsNat, SlotsAssumption
    <3> QED BY <3>1
  <2>2. LogOk({Valid}, nlog[d], {}, n)
      BY <2>1 DEF LogInv, NvmeLogInv
  <2> QED BY <1>1, <2>2, OkLoaded
<1>3. /\ header # "empty" /\ (\A i \in glog.disk : Stored[i] # NoRec)
      /\ Full({i \in Slots : Stored[i] # NoRec}) /\ Unique(Stored)
      /\ \A i \in Slots, d \in Devices :
            Stored[i] # NoRec => Stored[i].nvme[d] \in nlog[d].disk /\ Stored[i].nvme[d] \in files[d]
    BY <1>1 DEF Own, DownOwn
<1>4. CASE header = "none"
  <2>1. phase' = "new_log" /\ glog' = EmptyLog /\ desc' = desc /\ Known = {}
      BY <1>1, <1>4 DEF Start, GpuSaved, ShapeInv
  <2>2. \A i \in Slots : desc'[i] = NoRec
      BY <2>1 DEF Known
  <2>3. Unique(desc') /\ (\A d \in Devices : OwnOn(d)') /\ glog'.bits = {}
      BY <2>1, <2>2 DEF Unique, OwnOn, EmptyLog
  <2> QED BY <2>1, <2>3 DEF Own, DownOwn, UpOwn, CreateOwn, CountOwn, FailOwn
<1>5. CASE header = "valid"
  <2>1. /\ glog' = [glog EXCEPT !.bits = glog.disk] /\ desc' = Stored /\ header' = "valid"
        /\ phase' \in {"reset", "check"} /\ header' = header
      BY <1>5 DEF Start, Stored
  <2>2. glog'.bits = glog.disk
      BY <2>1, GpuLog DEF LogsOf
  <2>3. \A d \in Devices : OwnOn(d)'
      BY <1>1, <1>2, <1>3, <2>1 DEF OwnOn
  <2>4. UpOwn'
      BY <1>3, <2>1, <2>2, <2>3 DEF UpOwn
  <2>5. Full(Known')
    <3>1. Known' = {i \in Slots : Stored[i] # NoRec}
        BY <2>1 DEF Known
    <3> QED BY <1>3, <3>1
  <2> QED BY <2>1, <2>4, <2>5 DEF Own, DownOwn, CreateOwn, CountOwn, FailOwn
<1> QED BY <1>3, <1>4, <1>5 DEF LogInv, OtherTypes

\* The process ends with everything saved: the files hold what memory held.
LEMMA GoneOwn ==
    ASSUME LogInv, GpuSaved, NvmeSaved, Own,
           phase \in {"check", "init", "ready", "failed", "closing"}, Saved(glog),
           \A d \in Devices : Saved(nlog[d]),
           NEW w \in BOOLEAN, NEW nl, Gone(Killed(glog, w), nl),
           \A d \in Devices : \E x \in BOOLEAN : nl[d] = Killed(nlog[d], x)
    PROVE  Own'
<1>1. /\ phase' = "down" /\ glog' = Killed(glog, w) /\ UNCHANGED <<header, files>>
      /\ nlog' = nl /\ header = "valid"
      /\ slots = << >> /\ deleting = -1
    BY DEF Gone, starting, Own, UpOwn, LogInv, Control
<1>2. \A i \in Slots : Eff(glog, i) = glog.recs[i]
    BY NoSlot DEF Saved, NoBuf, Eff
<1>3. glog'.disk = glog.disk /\ \A i \in Slots : glog'.recs[i] = glog.recs[i]
    BY <1>1, <1>2, GpuLog, KilledLog
<1>4. \A i \in Slots : i \in glog.disk <=> i \in glog.bits
  <2>1. Range(slots) = {}
      BY <1>1 DEF Range
  <2> QED BY <1>1, <2>1 DEF GpuSaved, DiskMatches, Saved
<1>5. ASSUME NEW d \in Devices
      PROVE  \A x \in Slots : x \in nlog'[d].disk <=> x \in nlog[d].bits
  <2>1. nlog'[d].disk = nlog[d].disk
      BY <1>1, NvmeLog, KilledLog
  <2> QED BY <2>1 DEF NvmeSaved, DiskMatches, Saved
<1>6. /\ \A i \in Slots : desc[i] # NoRec <=> i \in glog.bits
      /\ \A i \in Slots : desc[i] # NoRec => desc[i] = glog.recs[i]
  <2>1. Range(slots) = {}
      BY <1>1 DEF Range
  <2> QED BY <1>2, <2>1 DEF GpuSaved, Own, UpOwn, Known
<1>7. \A i \in Slots : Stored'[i] = desc[i]
  <2>1. Stored' = [i \in Slots |-> IF i \in glog'.disk /\ glog'.recs[i] # Empty
                                   THEN glog'.recs[i] ELSE NoRec]
      BY <1>1 DEF Stored, loadFromFile
  <2>2. \A i \in Slots : desc[i] \in Record \cup {NoRec} /\ Empty \notin Record /\ NoRec # Empty
      BY RecordAssumption DEF LogInv, OtherTypes
  <2>3. ASSUME NEW i \in Slots, desc[i] # NoRec PROVE Stored'[i] = desc[i]
    <3>1. i \in glog'.disk /\ glog'.recs[i] = desc[i] /\ glog'.recs[i] # Empty
        BY <1>3, <1>4, <1>6, <2>2, <2>3
    <3> QED BY <2>1, <3>1
  <2>4. ASSUME NEW i \in Slots, desc[i] = NoRec PROVE Stored'[i] = NoRec
    <3>1. i \notin glog'.disk
        BY <1>3, <1>4, <1>6, <2>4
    <3> QED BY <2>1, <3>1
  <2> QED BY <2>3, <2>4
<1>8. \A i \in glog'.disk : Stored'[i] # NoRec
  <2>1. glog.disk \subseteq Slots
      BY GpuLog DEF LogsOf
  <2> QED BY <1>3, <1>4, <1>6, <1>7, <2>1
<1>9. Full({i \in Slots : Stored'[i] # NoRec})
  <2>1. {i \in Slots : Stored'[i] # NoRec} = Known
      BY <1>7 DEF Known
  <2> QED BY <2>1 DEF Own, CountOwn
<1>10. Unique(Stored')
  <2>1. Unique(desc)
      BY DEF Own, UpOwn
  <2> QED BY <1>7, <2>1 DEF Unique
<1>11. ASSUME NEW i \in Slots, NEW d \in Devices, Stored'[i] # NoRec
       PROVE  Stored'[i].nvme[d] \in nlog'[d].disk /\ Stored'[i].nvme[d] \in files'[d]
  <2>1. Stored'[i] = desc[i] /\ desc[i] # NoRec /\ i # deleting
      BY <1>1, <1>7, <1>11, NoSlot
  <2>2. desc[i].nvme[d] \in nlog[d].bits /\ desc[i].nvme[d] \in files[d]
      BY <2>1 DEF Own, UpOwn, OwnOn
  <2>3. nlog[d].bits \subseteq Slots
      BY NvmeLog DEF LogsOf
  <2> QED BY <1>1, <1>5, <2>1, <2>2, <2>3
<1>12. DownOwn'
    BY <1>1, <1>8, <1>9, <1>10, <1>11 DEF DownOwn
<1> QED BY <1>1, <1>12 DEF Own, UpOwn, CreateOwn, CountOwn, FailOwn

LEMMA ExitOwn == ASSUME LogInv, GpuSaved, NvmeSaved, RemoveInv, Own, Exit PROVE Own'
<1>1. PICK nl : nl = [d \in Devices |-> Killed(nlog[d], TRUE)]
    OBVIOUS
<1>2. TRUE \in BOOLEAN /\ \A d \in Devices : \E x \in BOOLEAN : nl[d] = Killed(nlog[d], x)
    BY <1>1
<1>3. phase = "closing" /\ \A d \in Devices : at[d] = "idle"
    BY DEF Exit, All
<1>4. Saved(glog) /\ \A d \in Devices : Saved(nlog[d])
    BY <1>3 DEF RemoveInv
<1>5. Gone(Killed(glog, TRUE), nl)
    BY <1>1 DEF Exit
<1> QED BY <1>2, <1>3, <1>4, <1>5, GoneOwn

LEMMA CrashOwn ==
    ASSUME LogInv, GpuSaved, NvmeSaved, Own, Crash, ~lossy' PROVE Own'
<1>1. PICK gl \in GpuLogsLeft, nl \in [Devices -> UNION {NvmeLogsLeft(d) : d \in Devices}] :
          Gone(gl, nl) /\ \A d \in Devices : nl[d] \in NvmeLogsLeft(d)
    BY DEF Crash
<1>2. AllSaved
    BY DEF Crash
<1>3. deleting = -1 /\ \A d \in Devices : at[d] = "idle"
  <2>1. deleting = -1 /\ ~Deleting
      BY <1>2 DEF AllSaved, LogInv, Control, Deleting
  <2> QED BY <1>2, <2>1 DEF AllSaved, LogInv, OtherTypes, Control, StepOf
<1>4. PICK w \in BOOLEAN : gl = Killed(glog, w)
    BY <1>1, <1>3 DEF GpuLogsLeft
<1>5. \A d \in Devices : \E x \in BOOLEAN : nl[d] = Killed(nlog[d], x)
  <2>1. TAKE d \in Devices
  <2>2. ~Persists(d)
      BY <1>3 DEF Persists
  <2> QED BY <1>1, <1>3, <2>2 DEF NvmeLogsLeft
<1> QED BY <1>1, <1>2, <1>4, <1>5, GoneOwn DEF AllSaved

LEMMA SameOwn == ASSUME Own, UNCHANGED vars PROVE Own'
<1>1. /\ Known' = Known /\ Stored' = Stored
      /\ UNCHANGED <<phase, header, glog, desc, slots, deleting, nlog, files, at, todo, io_failed>>
    BY DEF vars, starting, gpuVars, nvmeVars, history, Known, Stored
<1>2. DownOwn' /\ UpOwn' /\ CreateOwn'
    BY <1>1 DEF Own, DownOwn, UpOwn, CreateOwn, OwnOn, New
<1>3. CountOwn' /\ FailOwn'
    BY <1>1 DEF Own, CountOwn, FailOwn
<1> QED BY <1>2, <1>3 DEF Own

LEMMA WorkOwn ==
    ASSUME LogInv, ShapeInv, GpuSaved, NvmeSaved, RemoveInv, Own, Work PROVE Own'
<1>1. CASE initGPUFile
    BY <1>1, QuietOwn DEF initGPUFile, starting, nvmeVars
<1>2. CASE FinishInit
    BY <1>2, QuietOwn DEF FinishInit, starting, gpuVars, nvmeVars
<1>3. ASSUME NEW d \in Devices,
             \/ UnlinkNext(d) \/ ForgetUnlinked(d)
             \/ UnlinkRest(d) \/ ForgetRest(d) \/ FinishPurge(d)
             \/ createFile(d) \/ CreateOnDisk(d) \/ CreateFails(d) \/ CloseDevice(d)
      PROVE  Own'
    BY <1>3, UnlinkNextOwn, ForgetUnlinkedOwn, RestOwn, CreateFileOwn, CreateOnDiskOwn,
       CreateFailsOwn, CloseDeviceOwn
<1> QED BY <1>1, <1>2, <1>3, InitializeOwn, BeginDeleteOwn, DeleteOwn, ResetOwn, CheckOwn,
           GatherOwn, WriteRecordOwn, CreateGpuOwn, InitFailsOwn, ExitOwn DEF Work

\* A crash that loses something is remembered, so the invariant is only about
\* the others.
LEMMA LossyStays == ASSUME LogInv, [Next]_vars, ~lossy' PROVE ~lossy
<1>1. CASE UNCHANGED vars
    BY <1>1 DEF vars, history
<1>2. ASSUME NEW sh \in Shapes, NEW r \in BOOLEAN, Start(sh, r) PROVE ~lossy
    BY <1>2 DEF Start
<1>3. CASE Crash
    BY <1>3 DEF Crash
<1>4. CASE openGPUFile \/ (\E i \in Slots : closeGPUFile(i)) \/ cleanup
    BY <1>4 DEF openGPUFile, closeGPUFile, cleanup, history
<1>5. CASE Work
  <2>1. ASSUME NEW d \in Devices,
               \/ UnlinkNext(d) \/ ForgetUnlinked(d)
               \/ UnlinkRest(d) \/ ForgetRest(d) \/ FinishPurge(d)
               \/ createFile(d) \/ CreateOnDisk(d) \/ CreateFails(d) \/ CloseDevice(d)
        PROVE  ~lossy
      BY <2>1 DEF UnlinkNext, ForgetUnlinked, UnlinkRest, ForgetRest, FinishPurge, createFile,
                  CreateOnDisk, CreateFails, CloseDevice, history
  <2>2. CASE initializeLogFile \/ (\E i \in Slots : BeginDelete(i)) \/ deleteGPUFile \/ ResetRest
             \/ FinishReset
      BY <2>2 DEF initializeLogFile, BeginDelete, deleteGPUFile, ResetRest, FinishReset, history
  <2>3. CASE CheckExisting \/ GatherResults \/ WriteRecord \/ createGPUFiles
      BY <2>3 DEF CheckExisting, GatherResults, WriteRecord, createGPUFiles, history
  <2>4. CASE initGPUFile \/ initFails \/ FinishInit \/ Exit
      BY <2>4 DEF initGPUFile, initFails, FinishInit, Exit, history
  <2> QED BY <1>5, <2>1, <2>2, <2>3, <2>4 DEF Work
<1> QED BY <1>1, <1>2, <1>3, <1>4, <1>5 DEF Next, Done

LEMMA NextOwn ==
    ASSUME LogInv, ShapeInv, GpuSaved, NvmeSaved, RemoveInv, OwnInv, [Next]_vars PROVE OwnInv'
<1> SUFFICES ASSUME ~lossy' PROVE Own'
    BY DEF OwnInv
<1>1. Own
    BY LossyStays DEF OwnInv
<1>2. CASE openGPUFile
    BY <1>1, <1>2, QuietOwn DEF openGPUFile, starting, nvmeVars
<1>3. ASSUME NEW i \in Slots, closeGPUFile(i) PROVE Own'
    BY <1>1, <1>3, QuietOwn DEF closeGPUFile, starting, nvmeVars
<1> QED BY <1>1, <1>2, <1>3, StartOwn, WorkOwn, CleanupOwn, CrashOwn, SameOwn DEF Next, Done

LEMMA InitOwn == Init => Own /\ RemoveInv
<1> SUFFICES ASSUME Init PROVE Own /\ RemoveInv
    OBVIOUS
<1>1. phase = "down" /\ header = "none" /\ glog = EmptyLog
    BY DEF Init
<1>2. Stored = NoDesc /\ \A i \in Slots : Stored[i] = NoRec
    BY <1>1 DEF Stored, NoDesc
<1>3. Full({i \in Slots : Stored[i] # NoRec}) /\ Unique(Stored) /\ glog.disk = {}
    BY <1>1, <1>2 DEF Full, Unique, EmptyLog
<1>4. DownOwn
    BY <1>1, <1>2, <1>3 DEF DownOwn
<1> QED BY <1>1, <1>4 DEF Own, UpOwn, CreateOwn, CountOwn, FailOwn, RemoveInv, Deleting

\* The inductive invariant behind the two theorems below.
THEOREM GpuFilesOwned == Spec => [](ShapeInv /\ OwnInv)
<1>1. Init => ShapeInv /\ GpuSaved /\ NvmeSaved /\ RemoveInv /\ OwnInv
  <2>1. Init => ShapeInv
      BY DEF Init, ShapeInv, Known, NoDesc
  <2>2. Init => GpuSaved
      BY DEF Init, GpuSaved, EmptyLog, Range, Injective
  <2> QED BY <2>1, <2>2, InitOwn DEF Init, NvmeSaved, OwnInv
<1>2. LogInv /\ ShapeInv /\ GpuSaved /\ NvmeSaved /\ RemoveInv /\ OwnInv /\ [Next]_vars
          => ShapeInv' /\ GpuSaved' /\ NvmeSaved' /\ RemoveInv' /\ OwnInv'
    BY NextShape, NextSaved, NextNvmeSaved, NextRemove, NextOwn
<1> QED BY <1>1, <1>2, LogsInOrder, PTL DEF Spec

\* Unless a crash came while changes were pending, every GPU file has NVMe files
\* of its own on all devices, known to their logs and present: removals, failed
\* creations, resets and restarts on any device never touch those of another.
THEOREM GpuFilesOwnNvmeFiles == Spec => []OwnNvmeFiles
<1>1. ASSUME ShapeInv, OwnInv PROVE OwnNvmeFiles
  <2> SUFFICES ASSUME ~lossy, NEW i \in Known \ {deleting}, NEW d \in Devices
               PROVE  /\ desc[i].nvme[d] \in nlog[d].bits \cap files[d]
                      /\ \A j \in Known \ {i} : desc[j].nvme[d] # desc[i].nvme[d]
      BY DEF OwnNvmeFiles
  <2>1. i \in Slots /\ desc[i] # NoRec /\ i # deleting
      BY DEF Known
  <2>2. phase # "down"
      BY <1>1, <2>1 DEF ShapeInv, Known
  <2>3. OwnOn(d) /\ Unique(desc)
      BY <1>1, <2>2 DEF OwnInv, Own, UpOwn
  <2> QED BY <2>1, <2>3 DEF OwnOn, Unique, Known
<1> QED BY <1>1, GpuFilesOwned, PTL

\* Unless a crash came while changes were pending, init gives up only when the
\* file system refused to create or open a file: whatever the earlier starts did,
\* what the logs hold is enough to start.
THEOREM GpuFilesInitSucceeds == Spec => []InitSucceeds
<1>1. OwnInv => InitSucceeds
    BY DEF OwnInv, Own, FailOwn, InitSucceeds
<1> QED BY <1>1, GpuFilesOwned, PTL
=============================================================================
