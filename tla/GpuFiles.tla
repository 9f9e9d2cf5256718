------------------------------ MODULE GpuFiles ------------------------------
(***************************************************************************)
(* The GPU files of one process and the NVMe files behind them, over       *)
(* starts, shutdowns and crashes (libgeminifs: GeminiFS::init, cleanup,    *)
(* GPUFileManager, NVMeController's managed files, FileManager).  A GPU    *)
(* file is a slot of the GPU log whose record names one NVMe file per      *)
(* device; every device has a log of its own.                              *)
(*                                                                         *)
(* An action makes at most one change to the disk, so that a crash falls   *)
(* between any two of them, but for one that writes a record and persists  *)
(* the bitmap: Crash has the states between its writes.  A crash kills the *)
(* process; the page cache survives.  Writes to the logs do not fail,      *)
(* creating and opening files may.  Work on different devices is           *)
(* independent and in any order.  A process calls init once: a second call *)
(* in a live process returns at once, unless the first failed or it asks   *)
(* for a reset, and those two are left out.                                *)
(***************************************************************************)
EXTENDS RecordLog, Sequences, SequencesExt

CONSTANTS
    Devices,
    NumFiles,   \* GPU_file_nums of the configuration
    Shapes,     \* GPU_file_shape values a start may ask for
    MaxStarts,  \* bound: starts of the process
    Empty,      \* the record of a deleted GPU file
    Valid       \* the record of an NVMe file

\* A record has room for the NVMe files of four devices.
ASSUME DevicesAssumption == IsFiniteSet(Devices) /\ Cardinality(Devices) <= 4

ASSUME SlotsAssumption ==
    /\ NumFiles \in Nat \ {0}
    /\ MaxStarts \in Nat
    /\ Slots = 0 .. NumFiles * MaxStarts - 1

VARIABLES
    phase,      \* what init, cleanup or the running process is doing
    shape,      \* GPU_file_shape of this start
    reset,      \* reset was asked for and confirmed
    starts,
    header,     \* the GPU log has its header
    glog,       \* GPU log
    desc,       \* file_id_to_desc_map_
    slots,      \* slots reserved by createGPUFiles
    done,       \* records written, or files initialised, so far
    free_list,
    opened,     \* keys of file_id_to_ctx_map_
    fds,        \* device -> NVMe id -> file that the device descriptor names
    nlog,       \* device -> NVMe log
    files,      \* device -> NVMe files in the file system
    at,         \* device -> step of creating or removing NVMe files
    todo,       \* device -> NVMe files created, or still to be removed
    deleting,   \* GPU file being deleted, or -1
    \* History.
    lossy,      \* a crash hit while something was not in the logs
    io_failed   \* in this start, a file could not be created or opened

starting == <<shape, reset, starts, header>>
gpuVars == <<glog, desc, slots, done, free_list, opened, fds>>
nvmeVars == <<nlog, files, at, todo>>
history == <<lossy, io_failed>>
vars == <<phase, starting, gpuVars, nvmeVars, deleting, history>>

Record == [nvme : [Devices -> Slots], shape : Shapes]

ASSUME RecordAssumption ==
    /\ NoRec \notin Slots \cup Record \cup {Empty, Valid}
    /\ Empty \notin Record

Known == {i \in Slots : desc[i] # NoRec}
NoFds == [d \in Devices |-> [s \in Slots |-> NoRec]]
NoDesc == [s \in Slots |-> NoRec]
All(step) == [d \in Devices |-> step]

Init ==
    /\ phase = "down"
    /\ shape \in Shapes
    /\ reset = FALSE
    /\ starts = 0
    /\ header = "none"
    /\ glog = EmptyLog
    /\ desc = NoDesc
    /\ slots = << >>
    /\ done = 0
    /\ free_list = << >>
    /\ opened = {}
    /\ fds = NoFds
    /\ nlog = All(EmptyLog)
    /\ files = All({})
    /\ at = All("idle")
    /\ todo = All(<< >>)
    /\ deleting = -1
    /\ lossy = FALSE
    /\ io_failed = FALSE

-----------------------------------------------------------------------------
(* Start: the constructors read the logs *)

\* A bit without a valid record keeps its slot used, without a file.
loadFromFile(l) == [i \in Slots |-> IF i \in l.disk /\ l.recs[i] # Empty
                                    THEN l.recs[i] ELSE NoRec]

\* FileManager gives the slot back instead; each of these, and a header that
\* counts another number of files, is a change to be persisted.
NvmeLoaded(l) ==
    LET bad == {i \in l.disk : l.recs[i] # Valid}
        mismatch == IF l.stale \/ bad # {} THEN 1 ELSE 0
    IN  [l EXCEPT !.bits = l.disk \ bad, !.pending = Cardinality(bad) + mismatch]

\* A log without header is taken as empty; a missing one is created first.
Start(sh, r) ==
    /\ phase = "down"
    /\ starts < MaxStarts
    /\ starts' = starts + 1
    /\ shape' = sh
    /\ reset' = r
    /\ nlog' = [d \in Devices |-> NvmeLoaded(nlog[d])]
    /\ IF header = "none"
       THEN /\ header' = "empty"
            /\ phase' = "new_log"
            /\ UNCHANGED <<glog, desc>>
       ELSE /\ glog' = [glog EXCEPT !.bits = IF header = "valid" THEN glog.disk ELSE {}]
            /\ desc' = IF header = "valid" THEN loadFromFile(glog) ELSE NoDesc
            /\ phase' = IF r THEN "reset" ELSE "check"
            /\ UNCHANGED header
    /\ io_failed' = FALSE
    /\ UNCHANGED <<slots, done, free_list, opened, fds, files, at, todo, deleting, lossy>>

\* The header and an empty bitmap are written and flushed.
initializeLogFile ==
    /\ phase = "new_log"
    /\ header' = "valid"
    /\ phase' = IF reset THEN "reset" ELSE "check"
    /\ UNCHANGED <<shape, reset, starts, gpuVars, nvmeVars, deleting, history>>

-----------------------------------------------------------------------------
(* NVMe files: removal *)

\* FileManager::deleteFile
deleteFile(l, id) == Count([l EXCEPT !.bits = @ \ {id}], 1)

\* host_file_delete_managed: an id the log does not know is left alone,
\* another is unlinked first and then taken from the log, which is persisted.
UnlinkNext(d) ==
    /\ at[d] = "remove"
    /\ todo[d] # << >>
    /\ IF Head(todo[d]) \in nlog[d].bits
       THEN /\ files' = [files EXCEPT ![d] = @ \ {Head(todo[d])}]
            /\ at' = [at EXCEPT ![d] = "unlinked"]
            /\ UNCHANGED todo
       ELSE /\ todo' = [todo EXCEPT ![d] = Tail(@)]
            /\ UNCHANGED <<files, at>>
    /\ UNCHANGED <<phase, starting, gpuVars, nlog, deleting, history>>

\* Mutant: deleteFile does not count its change, and forcePersist has nothing to do.
ForgetUncounted(d) ==
    /\ at[d] = "unlinked"
    /\ nlog' = [nlog EXCEPT ![d] = ForcePersist([@ EXCEPT !.bits = @ \ {Head(todo[d])}])]
    /\ todo' = [todo EXCEPT ![d] = Tail(@)]
    /\ at' = [at EXCEPT ![d] = "remove"]
    /\ UNCHANGED <<phase, starting, gpuVars, files, deleting, history>>

ForgetUnlinked(d) ==
    /\ at[d] = "unlinked"
    /\ nlog' = [nlog EXCEPT ![d] = ForcePersist(deleteFile(@, Head(todo[d])))]
    /\ todo' = [todo EXCEPT ![d] = Tail(@)]
    /\ at' = [at EXCEPT ![d] = "remove"]
    /\ UNCHANGED <<phase, starting, gpuVars, files, deleting, history>>

Removed == \A d \in Devices : at[d] = "remove" /\ todo[d] = << >>

\* device_file_delete_all_files_managed: the log is persisted once, at the end,
\* and not at all when it knew no file.
UnlinkRest(d) ==
    /\ at[d] = "purge"
    /\ todo[d] # << >>
    /\ files' = [files EXCEPT ![d] = @ \ {Head(todo[d])}]
    /\ at' = [at EXCEPT ![d] = "purged"]
    /\ UNCHANGED <<phase, starting, gpuVars, nlog, todo, deleting, history>>

ForgetRest(d) ==
    /\ at[d] = "purged"
    /\ nlog' = [nlog EXCEPT ![d] = deleteFile(@, Head(todo[d]))]
    /\ todo' = [todo EXCEPT ![d] = Tail(@)]
    /\ at' = [at EXCEPT ![d] = "purge"]
    /\ UNCHANGED <<phase, starting, gpuVars, files, deleting, history>>

FinishPurge(d) ==
    /\ at[d] = "purge"
    /\ todo[d] = << >>
    /\ nlog' = [nlog EXCEPT ![d] = ForcePersist(@)]
    /\ at' = [at EXCEPT ![d] = "idle"]
    /\ UNCHANGED <<phase, starting, gpuVars, files, todo, deleting, history>>

-----------------------------------------------------------------------------
(* handle_gpu_file_reset *)

\* deleteGPUFile, before its NVMe files are gone ...
BeginDelete(i) ==
    /\ phase = "reset"
    /\ deleting = -1
    /\ i \in Known
    /\ deleting' = i
    /\ todo' = [d \in Devices |-> <<desc[i].nvme[d]>>]
    /\ at' = All("remove")
    /\ UNCHANGED <<phase, starting, gpuVars, nlog, files, history>>

\* ... and after: the slot is free and its record empty.
deleteGPUFile ==
    /\ phase = "reset"
    /\ deleting # -1
    /\ Removed
    /\ desc' = [desc EXCEPT ![deleting] = NoRec]
    /\ glog' = Count(writeRecordToSlot([glog EXCEPT !.bits = @ \ {deleting}], deleting, Empty), 1)
    /\ deleting' = -1
    /\ at' = All("idle")
    /\ UNCHANGED <<phase, starting, slots, done, free_list, opened, fds, nlog, files,
                   todo, history>>

\* Mutant: the GPU files themselves are left in place.
ResetNvmeOnly ==
    /\ phase = "reset"
    /\ deleting = -1
    /\ phase' = "reset_rest"
    /\ todo' = [d \in Devices |-> SetToSeq(nlog[d].bits)]
    /\ at' = All("purge")
    /\ UNCHANGED <<starting, gpuVars, nlog, files, deleting, history>>

\* The files that the NVMe logs still know are removed too.
ResetRest ==
    /\ phase = "reset"
    /\ Known = {}
    /\ phase' = "reset_rest"
    /\ todo' = [d \in Devices |-> SetToSeq(nlog[d].bits)]
    /\ at' = [d \in Devices |-> IF nlog[d].bits = {} THEN "idle" ELSE "purge"]
    /\ UNCHANGED <<starting, gpuVars, nlog, files, deleting, history>>

FinishReset ==
    /\ phase = "reset_rest"
    /\ at = All("idle")
    /\ glog' = persistBitmap(glog)
    /\ phase' = "check"
    /\ UNCHANGED <<starting, desc, slots, done, free_list, opened, fds, nvmeVars,
                   deleting, history>>

-----------------------------------------------------------------------------
(* createGPUFiles *)

\* Mutant: the highest free slots are taken.
LastFreeSlots(n) == [k \in 1 .. n |-> NumFiles * MaxStarts - k]

\* The n lowest free slots, ascending.
findMultipleFreeSlots(n) ==
    LET free == Slots \ glog.bits
    IN  [k \in 1 .. n |-> CHOOSE s \in free : Cardinality({x \in free : x < s}) = k - 1]

\* The files missing for this start; all of them again when the file taken as a
\* sample has another shape and enough exist.
ToCreate(sample) ==
    LET existing == Cardinality(Known)
    IN  IF existing < NumFiles THEN NumFiles - existing
        ELSE IF desc[sample].shape # shape THEN NumFiles ELSE 0

\* The sample is the first file of an unordered map.
CheckExisting ==
    /\ phase = "check"
    /\ \E sample \in IF Known = {} THEN {-1} ELSE Known :
          LET n == ToCreate(sample)
          IN  /\ slots' = findMultipleFreeSlots(n)
              /\ glog' = [glog EXCEPT !.bits = @ \cup Range(slots')]
              /\ phase' = IF n = 0 THEN "init" ELSE "create"
              /\ at' = All(IF n = 0 THEN "idle" ELSE "record")
    /\ todo' = All(<< >>)
    /\ done' = 0
    /\ UNCHANGED <<starting, desc, free_list, opened, fds, nlog, files, deleting, history>>

\* Mutant: the record is written and the bit forgotten.
NewFileNoBit(l, id) == Count(writeRecordToSlot(l, id, Valid), 1)

\* FileManager::createFile on the free slot id.
NewFile(l, id) == Count([writeRecordToSlot(l, id, Valid) EXCEPT !.bits = @ \cup {id}], 1)

findNextFreeSlot(l) == CHOOSE s \in Slots \ l.bits : \A x \in Slots \ l.bits : s <= x

\* host_file_create_managed on one device: the log first ...
createFile(d) ==
    LET id == findNextFreeSlot(nlog[d])
    IN  /\ at[d] = "record"
        /\ nlog' = [nlog EXCEPT ![d] = NewFile(@, id)]
        /\ todo' = [todo EXCEPT ![d] = Append(@, id)]
        /\ at' = [at EXCEPT ![d] = "file"]
        /\ UNCHANGED <<phase, starting, gpuVars, files, deleting, history>>

\* ... then the file, truncated if it is there.
CreateOnDisk(d) ==
    /\ at[d] = "file"
    /\ files' = [files EXCEPT ![d] = @ \cup {Last(todo[d])}]
    /\ at' = [at EXCEPT ![d] = IF Len(todo[d]) = Len(slots) THEN "created" ELSE "record"]
    /\ UNCHANGED <<phase, starting, gpuVars, nlog, todo, deleting, history>>

\* open or fallocate fails, the latter after the file was created: the log
\* entry goes, and createNVMeFilesPerDevice removes what it created before.
CreateFails(d) ==
    /\ at[d] = "file"
    /\ \E left \in {files[d], files[d] \cup {Last(todo[d])}} :
          files' = [files EXCEPT ![d] = left]
    /\ nlog' = [nlog EXCEPT ![d] = deleteFile(@, Last(todo[d]))]
    /\ todo' = [todo EXCEPT ![d] = Front(@)]
    /\ at' = [at EXCEPT ![d] = "remove"]
    /\ io_failed' = TRUE
    /\ UNCHANGED <<phase, starting, gpuVars, deleting, lossy>>

\* All devices are through.  One that failed fails the call: the slots are
\* released, the files of the other devices stay.
GatherResults ==
    /\ phase = "create"
    /\ \A d \in Devices : at[d] = "created" \/ (at[d] = "remove" /\ todo[d] = << >>)
    /\ IF \E d \in Devices : at[d] = "remove"
       THEN /\ glog' = [glog EXCEPT !.bits = @ \ Range(slots)]
            /\ slots' = << >>
            /\ todo' = All(<< >>)
            /\ phase' = "failed"
       ELSE /\ phase' = "records"
            /\ UNCHANGED <<glog, slots, todo>>
    /\ at' = All("idle")
    /\ UNCHANGED <<starting, desc, done, free_list, opened, fds, nlog, files, deleting, history>>

NewRecord(k) == [nvme |-> [d \in Devices |-> todo[d][k]], shape |-> shape]

WriteRecord ==
    /\ phase = "records"
    /\ done < Len(slots)
    /\ glog' = writeRecordToSlot(glog, slots[done + 1], NewRecord(done + 1))
    /\ done' = done + 1
    /\ UNCHANGED <<phase, starting, desc, slots, free_list, opened, fds, nvmeVars,
                   deleting, history>>

createGPUFiles ==
    /\ phase = "records"
    /\ done = Len(slots)
    /\ desc' = [i \in Slots |-> IF \E k \in DOMAIN slots : slots[k] = i
                                THEN NewRecord(CHOOSE k \in DOMAIN slots : slots[k] = i)
                                ELSE desc[i]]
    /\ glog' = Count(glog, Len(slots))
    /\ slots' = << >>
    /\ todo' = All(<< >>)
    /\ done' = 0
    /\ phase' = "init"
    /\ UNCHANGED <<starting, free_list, opened, fds, nlog, files, at, deleting, history>>

-----------------------------------------------------------------------------
(* initGPUFile, openGPUFile, closeGPUFile *)

\* device_file_open_managed does not look at the result of getFileById: for an
\* id the log does not know the path is built from an uninitialised name.
Openable(d, id) == IF id \in nlog[d].bits THEN files[d] \cap {id} ELSE files[d]

\* One round of init's loop over the first NumFiles ids.
initGPUFile ==
    /\ phase = "init"
    /\ done < NumFiles
    /\ done \in Known
    /\ \E f \in [Devices -> Slots] :
          /\ \A d \in Devices :
                LET id == desc[done].nvme[d]
                IN  IF fds[d][id] # NoRec THEN f[d] = fds[d][id] ELSE f[d] \in Openable(d, id)
          /\ fds' = [d \in Devices |-> [fds[d] EXCEPT ![desc[done].nvme[d]] = f[d]]]
    /\ free_list' = Append(free_list, done)
    /\ done' = done + 1
    /\ UNCHANGED <<phase, starting, glog, desc, slots, opened, nvmeVars, deleting, history>>

\* Devices on which the NVMe file of the GPU file i is still to be opened.
Unopened(i) == {d \in Devices : fds[d][desc[i].nvme[d]] = NoRec}

\* The GPU file is unknown, or one of its NVMe files is unknown or missing, or
\* opening one fails for another reason: init gives up.
initFails ==
    /\ phase = "init"
    /\ done < NumFiles
    /\ done \in Known => Unopened(done) # {}
    /\ IF \/ done \notin Known
          \/ \E d \in Unopened(done) : desc[done].nvme[d] \notin nlog[d].bits \cap files[d]
       THEN UNCHANGED io_failed
       ELSE io_failed' = TRUE
    /\ phase' = "failed"
    /\ UNCHANGED <<starting, gpuVars, nvmeVars, deleting, lossy>>

\* Mutant: the loop's end is missed by one.
FinishInitLate ==
    /\ phase = "init"
    /\ done > NumFiles
    /\ phase' = "ready"
    /\ UNCHANGED <<starting, gpuVars, nvmeVars, deleting, history>>

FinishInit ==
    /\ phase = "init"
    /\ done = NumFiles
    /\ phase' = "ready"
    /\ UNCHANGED <<starting, gpuVars, nvmeVars, deleting, history>>

openGPUFile ==
    /\ phase = "ready"
    /\ free_list # << >>
    /\ opened' = opened \cup {Last(free_list)}
    /\ free_list' = Front(free_list)
    /\ UNCHANGED <<phase, starting, glog, desc, slots, done, fds, nvmeVars, deleting, history>>

\* Mutant: a closed file goes to the end of the free list.
AppendFree(i) == Append(free_list, i)

\* The free list with i where lower_bound finds its place.
InsertFree(i) ==
    LET before == Cardinality({k \in DOMAIN free_list : free_list[k] < i})
    IN  InsertAt(free_list, before + 1, i)

closeGPUFile(i) ==
    /\ phase = "ready"
    /\ i \in opened
    /\ opened' = opened \ {i}
    /\ free_list' = IF i \in Range(free_list) THEN free_list ELSE InsertFree(i)
    /\ UNCHANGED <<phase, starting, glog, desc, slots, done, fds, nvmeVars, deleting, history>>

-----------------------------------------------------------------------------
(* Shutdown and crash *)

\* cleanup: ~GPUFileManager persists and closes, the devices follow.
cleanup ==
    /\ phase \in {"ready", "failed"}
    /\ glog' = persistBitmap(glog)
    /\ phase' = "closing"
    /\ at' = All("close")
    /\ UNCHANGED <<starting, desc, slots, done, free_list, opened, fds, nlog, files,
                   todo, deleting, history>>

CloseDevice(d) ==
    /\ phase = "closing"
    /\ at[d] = "close"
    /\ nlog' = [nlog EXCEPT ![d] = Flushed(ForcePersist(@))]
    /\ at' = [at EXCEPT ![d] = "idle"]
    /\ UNCHANGED <<phase, starting, gpuVars, files, todo, deleting, history>>

Gone(gl, nl) ==
    /\ phase' = "down"
    /\ glog' = gl
    /\ nlog' = nl
    /\ desc' = NoDesc
    /\ slots' = << >>
    /\ done' = 0
    /\ free_list' = << >>
    /\ opened' = {}
    /\ fds' = NoFds
    /\ at' = All("idle")
    /\ todo' = All(<< >>)
    /\ deleting' = -1
    /\ UNCHANGED <<starting, files, io_failed>>

Exit ==
    /\ phase = "closing"
    /\ at = All("idle")
    /\ Gone(Killed(glog, TRUE), [d \in Devices |-> Killed(nlog[d], TRUE)])
    /\ UNCHANGED lossy

\* Nothing is under way and nothing waits for a log.
AllSaved ==
    /\ phase \in {"check", "init", "ready", "failed"}
    /\ Saved(glog)
    /\ \A d \in Devices : Saved(nlog[d])

\* The logs that a kill may leave: as they are, with the buffered record written
\* or not, or between the writes of a step that is to come.
GpuLogsLeft ==
    {Killed(glog, w) : w \in BOOLEAN} \cup
    {Killed(writeRecordToSlot(glog, i, Empty), TRUE) :
        i \in IF deleting # -1 /\ Removed THEN {deleting} ELSE {}}

\* The next step on the device persists the bitmap of its log.
Persists(d) ==
    \/ at[d] = "unlinked"
    \/ at[d] \in {"record", "file", "purged"} /\ nlog[d].pending + 1 >= Threshold
    \/ (at[d] = "close" \/ (at[d] = "purge" /\ todo[d] = << >>)) /\ nlog[d].pending > 0

NvmeLogsLeft(d) ==
    LET written == IF at[d] = "record"
                   THEN writeRecordToSlot(nlog[d], findNextFreeSlot(nlog[d]), Valid)
                   ELSE nlog[d]
    IN  {Killed(nlog[d], w) : w \in BOOLEAN} \cup {Killed(written, TRUE)} \cup
        {KilledAtHeader(written, m) : m \in IF Persists(d) THEN BOOLEAN ELSE {}}

Crash ==
    /\ phase # "down"
    /\ \E gl \in GpuLogsLeft, nl \in [Devices -> UNION {NvmeLogsLeft(d) : d \in Devices}] :
          /\ \A d \in Devices : nl[d] \in NvmeLogsLeft(d)
          /\ Gone(gl, nl)
    /\ lossy' = (lossy \/ ~AllSaved)

-----------------------------------------------------------------------------

\* Steps that the process takes by itself.
Work ==
    \/ initializeLogFile
    \/ \E d \in Devices :
          \/ UnlinkNext(d) \/ ForgetUnlinked(d)
          \/ UnlinkRest(d) \/ ForgetRest(d) \/ FinishPurge(d)
          \/ createFile(d) \/ CreateOnDisk(d) \/ CreateFails(d) \/ CloseDevice(d)
    \/ (\E i \in Slots : BeginDelete(i)) \/ deleteGPUFile \/ ResetRest \/ FinishReset
    \/ CheckExisting \/ GatherResults \/ WriteRecord \/ createGPUFiles
    \/ initGPUFile \/ initFails \/ FinishInit
    \/ Exit

\* The bounded run is over.
Done ==
    /\ phase = "down"
    /\ starts = MaxStarts
    /\ UNCHANGED vars

Next ==
    \/ \E sh \in Shapes, r \in BOOLEAN : Start(sh, r)
    \/ Work
    \/ openGPUFile
    \/ \E i \in Slots : closeGPUFile(i)
    \/ cleanup
    \/ Crash
    \/ Done

Spec == Init /\ [][Next]_vars /\ WF_vars(Work)

-----------------------------------------------------------------------------
(* Properties *)

Phases == {"down", "new_log", "reset", "reset_rest", "check", "create", "records",
           "init", "ready", "failed", "closing"}

\* Logs, tables and lists hold slots of the logs, pending counts stay below
\* the threshold.
TypeOK ==
    /\ phase \in Phases
    /\ shape \in Shapes
    /\ reset \in BOOLEAN
    /\ starts \in 0 .. MaxStarts
    /\ header \in {"none", "empty", "valid"}
    /\ glog \in LogsOf(Record \cup {Empty})
    /\ desc \in [Slots -> Record \cup {NoRec}]
    /\ slots \in Seq(Slots)
    /\ done \in 0 .. NumFiles
    /\ free_list \in Seq(Slots)
    /\ opened \subseteq Slots
    /\ fds \in [Devices -> [Slots -> Slots \cup {NoRec}]]
    /\ nlog \in [Devices -> LogsOf({Valid})]
    /\ files \in [Devices -> SUBSET Slots]
    /\ at \in [Devices -> {"idle", "remove", "unlinked", "purge", "purged", "record",
                            "file", "created", "close"}]
    /\ todo \in [Devices -> Seq(Slots)]
    /\ deleting \in Slots \cup {-1}
    /\ lossy \in BOOLEAN
    /\ io_failed \in BOOLEAN

\* The records reach the file before the bits that make them count, whatever
\* kills the process: a restart never trusts a slot nothing was written to.
RecordBeforeBit ==
    /\ \A i \in glog.disk : glog.recs[i] # NoRec
    /\ \A d \in Devices : \A i \in nlog[d].disk : nlog[d].recs[i] = Valid

\* When neither a change is pending nor a record buffered, the files hold what
\* memory holds, so that a crash there loses nothing.
SavedIsDurable ==
    /\ phase \in {"check", "init", "ready", "failed"} /\ header = "valid" /\ Saved(glog) =>
          /\ glog.disk = glog.bits
          /\ \A i \in Known : glog.recs[i] = desc[i]
    /\ phase # "down" =>
          \A d \in Devices : Saved(nlog[d]) => nlog[d].disk = nlog[d].bits

\* Unless a crash came while changes were pending, every GPU file has an NVMe
\* file of its own on every device, known to that device's log and present.
OwnNvmeFiles ==
    ~lossy =>
        \A i \in Known \ {deleting}, d \in Devices :
            /\ desc[i].nvme[d] \in nlog[d].bits \cap files[d]
            /\ \A j \in Known \ {i} : desc[j].nvme[d] # desc[i].nvme[d]

\* The free list stays sorted, as closeGPUFile's binary search needs, and with
\* the open files it makes up the initialised ones; each of these has its
\* descriptors, so that openGPUFile's assertion holds.
FreeListSound ==
    /\ \A k, l \in DOMAIN free_list : k < l => free_list[k] < free_list[l]
    /\ Range(free_list) \cap opened = {}
    /\ phase = "ready" =>
          /\ Range(free_list) \cup opened = 0 .. NumFiles - 1
          /\ \A i \in 0 .. NumFiles - 1 : i \in Known /\ Unopened(i) = {}

\* Unless a crash came while changes were pending, init fails only when a file
\* could not be created or opened: what is in the logs is enough to start.
InitSucceeds == phase = "failed" => lossy \/ io_failed

\* After a reset every file that is handed out has the shape asked for, whatever
\* was there before and whatever crashed.
ResetGivesShape ==
    phase = "ready" /\ reset => \A i \in 0 .. NumFiles - 1 : desc[i].shape = shape

\* init and cleanup end unless the process dies.
StartEnds ==
    phase \notin {"down", "ready", "failed"} ~> phase \in {"down", "ready", "failed"}
=============================================================================
