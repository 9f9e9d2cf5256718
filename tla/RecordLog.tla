----------------------------- MODULE RecordLog -----------------------------
(***************************************************************************)
(* The log file that GPUFileManager and FileManager each keep: a bitmap of *)
(* used slots and one record per slot.  Memory holds the bitmap; records   *)
(* go to the file through a stdio buffer, the bitmap only when enough      *)
(* changes are pending.  A log is a value; the managers keep one each.     *)
(***************************************************************************)
EXTENDS Integers, FiniteSets

CONSTANTS
    Slots,      \* slots of a log
    Threshold,  \* persistence_threshold, 1000 in the code
    NoRec       \* nothing was written to a slot

ASSUME ThresholdAssumption == Threshold \in Nat \ {0, 1}

NoBuf == [slot |-> -1, rec |-> NoRec]

\* bits: the bitmap in memory; disk: the bitmap in the file; recs: the records
\* in the file; buf: a record still in the stdio buffer; stale: the header in
\* the file counts another number of records than the bitmap beside it.
LogsOf(R) ==
    [bits : SUBSET Slots, disk : SUBSET Slots, recs : [Slots -> R \cup {NoRec}],
     buf : [slot : Slots \cup {-1}, rec : R \cup {NoRec}], pending : 0 .. Threshold - 1,
     stale : BOOLEAN]

EmptyLog ==
    [bits |-> {}, disk |-> {}, recs |-> [s \in Slots |-> NoRec],
     buf |-> NoBuf, pending |-> 0, stale |-> FALSE]

\* Every fseek writes the buffer out.
Flushed(l) ==
    [l EXCEPT !.recs = [s \in Slots |-> IF s = l.buf.slot THEN l.buf.rec ELSE l.recs[s]],
              !.buf = NoBuf]

writeRecordToSlot(l, s, r) == [Flushed(l) EXCEPT !.buf = [slot |-> s, rec |-> r]]

\* Mutant: the bitmap reaches the file before the buffered record does.
PersistUnflushed(l) == [l EXCEPT !.disk = l.bits, !.pending = 0, !.stale = FALSE]

\* Header and bitmap are written behind whatever was buffered.
persistBitmap(l) == [Flushed(l) EXCEPT !.disk = l.bits, !.pending = 0, !.stale = FALSE]

\* Mutant: the bitmap is persisted one change late.
CountLate(l, n) ==
    IF l.pending + n > Threshold THEN persistBitmap(l)
    ELSE [l EXCEPT !.pending = @ + n]

\* n more changes are pending; enough of them persist the bitmap.
Count(l, n) ==
    IF l.pending + n >= Threshold THEN persistBitmap(l)
    ELSE [l EXCEPT !.pending = @ + n]

\* Persists only when something is pending.
ForcePersist(l) == IF l.pending > 0 THEN persistBitmap(l) ELSE l

Saved(l) == l.pending = 0 /\ l.buf = NoBuf

\* What a killed process leaves: memory is gone, the buffer was written or not.
Killed(l, written) ==
    LET f == IF written THEN Flushed(l) ELSE l
    IN  [f EXCEPT !.bits = {}, !.buf = NoBuf, !.pending = 0]

\* What a kill inside persistBitmap leaves once the header is written: it counts
\* the records of memory, which may or may not be as many as the bitmap's.
KilledAtHeader(l, mismatch) == [Killed(l, TRUE) EXCEPT !.stale = mismatch]
=============================================================================
