---------------------------- MODULE TelemetryExport ----------------------------
(***************************************************************************)
(* The telemetry of a simulation on its way to disk: the history that      *)
(* TelemetryLogger keeps, its two exports, called one after the other at   *)
(* the end of MasterFund's run_simulation_*, and the parser of the binary  *)
(* file, tools/parse_telemetry.py.                                         *)
(*                                                                         *)
(* A file is the sequence of the records written to it from its start; the *)
(* rest of its size holds zeros.  A record has its size in bytes and a     *)
(* value that says what was written, and a record of zeros the value       *)
(* Blank.  A write, a resize, a mapping or a sync may fail, and the        *)
(* process may be killed at any time, for instance by the signal that a    *)
(* full disk sends to a process that writes to a mapped hole of a file.    *)
(***************************************************************************)
EXTENDS MemoryMap, Sums, Sequences

CONSTANTS
  Snapshots,  \* the numbers of branches and of heirs a year may record
  Exports,    \* the sequences of exports a simulation may end with
  MaxYears,   \* bound on the length of the history
  MaxCalls    \* bound on the number of simulations

ASSUME ExportAssumption ==
  /\ Files = {"json", "bin"}
  /\ Objects = {"mmap", "sink"}
  /\ Snapshots \subseteq [branches : Nat, heirs : Nat]
  /\ Exports \subseteq Seq(Files)
  /\ MaxYears \in Nat /\ MaxCalls \in Nat

VARIABLES
  history,   \* TelemetryLogger's; year k is its k-th element
  items,     \* the records in each file
  todo,      \* the exports the running call still has to make
  pc,        \* where the running export is, "next" between exports
  stream,    \* the descriptor of the open std::ofstream, or invalid_handle
  reported,  \* the answer of the last export to each file
  recorded,  \* the history that was last exported to each file
  stranded,  \* the descriptors that a failed map has left open
  calls      \* counted to bound the instance

control == <<history, todo, reported, recorded, stranded, calls>>
vars == <<memory, control, items, pc, stream>>

Init ==
  /\ MemoryInit
  /\ history = <<>>
  /\ items = [f \in Files |-> <<>>]
  /\ todo = <<>> /\ pc = "next"
  /\ stream = invalid_handle
  /\ reported = [f \in Files |-> "nothing"]
  /\ recorded = [f \in Files |-> <<>>]
  /\ stranded = {}
  /\ calls = 0

Idle == pc = "next" /\ todo = <<>>

-----------------------------------------------------------------------------
(* The records.                                                            *)
U32 == 4
U64 == 8
F64 == 8

HeadBytes == U32 + 7 * F64
BranchBytes == 2 * U32 + 4 * F64 + U32
HeirBytes == U64 + 2 * U32 + 5 * F64

Record(bytes, value) == [bytes |-> bytes, value |-> value]

Blank == <<>>

(* Slip: the heirs of a year are written before its branches.              *)
SnapshotHeirsFirst(k, snap) ==
  <<Record(HeadBytes, <<"year", k>>), Record(U32, <<"count", snap.heirs>>)>>
    \o [j \in 1 .. snap.heirs |-> Record(HeirBytes, <<"heir", k, j>>)]
    \o <<Record(U32, <<"count", snap.branches>>)>>
    \o [j \in 1 .. snap.branches |-> Record(BranchBytes, <<"branch", k, j>>)]

(* put_snapshot: year and seven amounts, the branches, the heirs.          *)
PutSnapshot(k, snap) ==
  <<Record(HeadBytes, <<"year", k>>), Record(U32, <<"count", snap.branches>>)>>
    \o [j \in 1 .. snap.branches |-> Record(BranchBytes, <<"branch", k, j>>)]
    \o <<Record(U32, <<"count", snap.heirs>>)>>
    \o [j \in 1 .. snap.heirs |-> Record(HeirBytes, <<"heir", k, j>>)]

BinaryHeader(count) ==
  <<Record(U32, <<"MAGIC">>), Record(U32, <<"VERSION">>),
    Record(U32, <<"count", count>>)>>

(* Everything export_to_binary_mmap writes, in the order it writes it.     *)
BinaryLayout(h) ==
  LET upTo[k \in 0 .. Len(h)] ==
        IF k = 0 THEN BinaryHeader(Len(h))
        ELSE upTo[k - 1] \o PutSnapshot(k, h[k])
  IN  upTo[Len(h)]

(* Slip: the counts of a year's branches and heirs are not allowed for.    *)
YearBytesWithoutCounts(snap) ==
  U32 + 7 * F64 + snap.branches * BranchBytes + snap.heirs * HeirBytes

(* What total_bytes counts for a year: eight amounts, where put_snapshot   *)
(* writes seven.                                                           *)
YearBytes(snap) ==
  U32 + 8 * F64 + U32 + snap.branches * BranchBytes
                + U32 + snap.heirs * HeirBytes

TotalBytes(h) ==
  3 * U32 + Total([k \in DOMAIN h |-> YearBytes(h[k])], DOMAIN h)

BytesOf(records) ==
  Total([k \in DOMAIN records |-> records[k].bytes], DOMAIN records)

(* What export_to_json writes, its formatting and separators aside.        *)
JsonLayout(h) ==
  LET year(k) == Record(1, <<"year", k, h[k].branches, h[k].heirs>>)
  IN  <<Record(1, <<"summary", Len(h)>>)>>
        \o [k \in 1 .. Len(h) |-> year(k)] \o <<Record(1, <<"end">>)>>

-----------------------------------------------------------------------------
(* The calls.                                                              *)

(* run_simulation_*: record_year for every year, then the exports to the   *)
(* paths that are not empty.                                               *)
RunSimulation(years, exports) ==
  /\ Idle
  /\ calls < MaxCalls
  /\ years # <<>>
  /\ Len(history) + Len(years) <= MaxYears
  /\ history' = history \o years
  /\ todo' = exports
  /\ calls' = calls + 1
  /\ UNCHANGED <<memory, items, pc, stream, reported, recorded, stranded>>

(* clear(), as MasterFund's reset calls it.                                *)
Clear ==
  /\ Idle
  /\ history # <<>>
  /\ history' = <<>>
  /\ UNCHANGED <<memory, items, todo, pc, stream, reported, recorded,
                 stranded, calls>>

(* The first of the exports to be made returns.                            *)
Report(answer) ==
  /\ reported' = [reported EXCEPT ![Head(todo)] = answer]
  /\ todo' = Tail(todo)
  /\ pc' = "next"

-----------------------------------------------------------------------------
(* Opening an output file truncates it, and fails when there is no         *)
(* descriptor left, or for reasons of its own.                             *)
Open(file, then) ==
  /\ pc = "next"
  /\ todo # <<>> /\ Head(todo) = file
  /\ \E h \in FreeHandles :
       /\ descriptors' = [descriptors EXCEPT ![h] = file]
       /\ stream' = h
  /\ items' = [items EXCEPT ![file] = <<>>]
  /\ size' = [size EXCEPT ![file] = 0]
  /\ recorded' = [recorded EXCEPT ![file] = history]
  /\ reported' = [reported EXCEPT ![file] = "nothing"]
  /\ pc' = then
  /\ UNCHANGED <<sink_vars, history, todo, stranded, calls>>

OpenFails ==
  /\ pc = "next"
  /\ todo # <<>>
  /\ Report("failed")
  /\ UNCHANGED <<memory, items, stream, history, recorded, stranded, calls>>

(* Slip: the stream is left to its destructor.                             *)
CloseLater == UNCHANGED <<descriptors, stream>>

Close ==
  /\ descriptors' = [descriptors EXCEPT ![stream] = Closed]
  /\ stream' = invalid_handle

(* The stream of export_to_json takes what it is given until one write     *)
(* fails, and then nothing more; nobody asks it.                           *)
WriteJson ==
  LET document == JsonLayout(history)
  IN  /\ pc = "write"
      /\ Len(items["json"]) < Len(document)
      /\ items' = [items EXCEPT !["json"] =
                     Append(@, document[Len(@) + 1])]
      /\ size' = [size EXCEPT !["json"] = @ + 1]
      /\ UNCHANGED <<control, descriptors, sink_vars, pc, stream>>

WriteJsonFails ==
  /\ pc = "write"
  /\ Len(items["json"]) < Len(JsonLayout(history))
  /\ pc' = "close"
  /\ UNCHANGED <<memory, control, items, stream>>

CloseJson ==
  /\ \/ pc = "close"
     \/ pc = "write" /\ Len(items["json"]) = Len(JsonLayout(history))
  /\ Close
  /\ Report("exported")
  /\ UNCHANGED <<size, sink_vars, items, history, recorded, stranded, calls>>

-----------------------------------------------------------------------------
(* A byte is put at the end of the file to be; if that fails the file      *)
(* stays empty, and nobody asks.                                           *)
ResizeBinary ==
  /\ pc = "resize"
  /\ size' \in {size, [size EXCEPT !["bin"] = TotalBytes(history)]}
  /\ Close
  /\ pc' = "make"
  /\ UNCHANGED <<sink_vars, control, items>>

(* make_mmap starts with an empty object.                                  *)
MakeSink ==
  /\ pc = "make"
  /\ Construct("mmap")
  /\ pc' = "map"
  /\ UNCHANGED <<control, items, stream>>

MapBinary ==
  /\ pc = "map"
  /\ MapPath("mmap", "bin", 0, map_entire_file)
  /\ pc' = "return"
  /\ UNCHANGED <<size, control, items, stream>>

MapBinaryFails ==
  /\ pc = "map"
  /\ MapPathFails("mmap", "bin")
  /\ stranded' = stranded \cup {h \in Handles : descriptors'[h] # descriptors[h]}
  /\ pc' = "return"
  /\ UNCHANGED <<size, items, stream, history, todo, reported, recorded, calls>>

(* make_mmap_sink returns to the export.                                   *)
GetSink ==
  /\ pc = "return"
  /\ ReturnMapping("mmap", "sink")
  /\ pc' = IF error THEN "refuse" ELSE "fill"
  /\ UNCHANGED <<control, items, stream>>

(* Slip: the export starts over until it has its mapping.                  *)
RefuseAndRetry ==
  /\ pc = "refuse"
  /\ Destroy("sink")
  /\ pc' = "make"
  /\ UNCHANGED <<size, error, control, items, stream>>

(* The export gives up; its sink, mapped or not, is destroyed.             *)
RefuseBinary ==
  /\ pc = "refuse"
  /\ Destroy("sink")
  /\ Report("failed")
  /\ UNCHANGED <<size, error, items, stream, history, recorded, stranded, calls>>

(* The next record is copied to the mapping.                               *)
FillBinary ==
  LET document == BinaryLayout(history)
  IN  /\ pc = "fill"
      /\ items' = [items EXCEPT !["bin"] = Append(@, document[Len(@) + 1])]
      /\ pc' = IF Len(items'["bin"]) = Len(document) THEN "sync" ELSE "fill"
      /\ UNCHANGED <<memory, control, stream>>

SyncBinary ==
  /\ pc = "sync"
  /\ Sync("sink")
  /\ pc' = IF error' THEN "refuse" ELSE "unmap"
  /\ UNCHANGED <<control, items, stream>>

UnmapBinary ==
  /\ pc = "unmap"
  /\ Unmap("sink")
  /\ pc' = "leave"
  /\ UNCHANGED <<size, error, control, items, stream>>

LeaveBinary ==
  /\ pc = "leave"
  /\ Destroy("sink")
  /\ Report("exported")
  /\ UNCHANGED <<size, error, items, stream, history, recorded, stranded, calls>>

(* The process is killed and started again: what it wrote to the mapping   *)
(* is in the file, what it had in memory is gone.                          *)
Crash ==
  /\ ~Idle
  /\ ProcessDies
  /\ history' = <<>> /\ todo' = <<>> /\ pc' = "next"
  /\ stream' = invalid_handle
  /\ stranded' = {}
  /\ UNCHANGED <<size, items, reported, recorded, calls>>

-----------------------------------------------------------------------------
(* The steps of an export.                                                 *)
Step ==
  \/ Open("json", "write") \/ Open("bin", "resize") \/ OpenFails
  \/ WriteJson \/ WriteJsonFails \/ CloseJson
  \/ ResizeBinary \/ MakeSink \/ MapBinary \/ MapBinaryFails \/ GetSink
  \/ FillBinary \/ SyncBinary \/ UnmapBinary \/ LeaveBinary \/ RefuseBinary

YearLists == UNION {[1 .. n -> Snapshots] : n \in 1 .. MaxYears}

Next ==
  \/ \E years \in YearLists, exports \in Exports :
       RunSimulation(years, exports)
  \/ Clear
  \/ Step
  \/ Crash

(* An export that has started runs on: it waits for nothing.               *)
Spec == Init /\ [][Next]_vars /\ WF_vars(Step)

-----------------------------------------------------------------------------
(* TelemetryBinaryReader.  A record is read at its position in the file;   *)
(* what was not written there reads as zeros.                              *)
RecordAt(at) ==
  IF at <= Len(items["bin"]) THEN items["bin"][at].value ELSE Blank

CountAt(at) ==
  LET value == RecordAt(at)
  IN  IF value # Blank /\ value[1] = "count" THEN value[2] ELSE 0

(* _read_snapshot with the record at its start.                            *)
ReadSnapshot(at) ==
  LET branches == CountAt(at + 1)
      heirs == CountAt(at + 2 + branches)
  IN  [year |-> RecordAt(at),
       branch_states |-> [j \in 1 .. branches |-> RecordAt(at + 1 + j)],
       heir_states |-> [j \in 1 .. heirs |-> RecordAt(at + 2 + branches + j)]]

(* _read_file: the snapshots and the bytes read.                           *)
ReadFile ==
  LET Records(snap) == 3 + Len(snap.branch_states) + Len(snap.heir_states)
      Bytes(snap) == HeadBytes + 2 * U32 + Len(snap.branch_states) * BranchBytes
                       + Len(snap.heir_states) * HeirBytes
      after[k \in 0 .. CountAt(3)] ==
        IF k = 0 THEN [snapshots |-> <<>>, at |-> 4, bytes |-> 3 * U32]
        ELSE LET was == after[k - 1]
                 snap == ReadSnapshot(was.at)
             IN  [snapshots |-> Append(was.snapshots, snap),
                  at |-> was.at + Records(snap),
                  bytes |-> was.bytes + Bytes(snap)]
  IN  after[CountAt(3)]

(* The parser accepts a file that starts with the magic number and the     *)
(* version and does not end before it has read all it expects.             *)
Accepted ==
  /\ RecordAt(1) = <<"MAGIC">>
  /\ RecordAt(2) = <<"VERSION">>
  /\ ReadFile.bytes <= size["bin"]

(* What the parser should return for year k of a history.                  *)
YearOf(h, k) ==
  [year |-> <<"year", k>>,
   branch_states |-> [j \in 1 .. h[k].branches |-> <<"branch", k, j>>],
   heir_states |-> [j \in 1 .. h[k].heirs |-> <<"heir", k, j>>]]

BlankYear == [year |-> Blank, branch_states |-> <<>>, heir_states |-> <<>>]

-----------------------------------------------------------------------------
(* The type invariant.                                                     *)
TypeOK ==
  /\ MemoryTypeOK
  /\ history \in Seq(Snapshots)
  /\ Len(items["bin"]) <= Len(BinaryLayout(recorded["bin"]))
  /\ todo \in Seq(Files)
  /\ pc \in {"next", "write", "close", "resize", "make", "map", "return",
             "refuse", "fill", "sync", "unmap", "leave"}
  /\ stream \in Handles \cup {invalid_handle}
  /\ (stream # invalid_handle) = (pc \in {"write", "close", "resize"})
  /\ reported \in [Files -> {"nothing", "exported", "failed"}]
  /\ stranded \in SUBSET Handles
  /\ calls \in 0 .. MaxCalls

(* The size of the binary file is computed by one piece of code and filled *)
(* by another: while the sink is written to it is mapped, nothing is ever  *)
(* written past its end, and when all is written one unused amount per     *)
(* year is left.                                                           *)
WriterStaysMapped ==
  pc \in {"fill", "sync"} =>
    LET sink == mmap["sink"]
        cursor == BytesOf(items["bin"])
    IN  /\ is_open(sink)
        /\ descriptors[sink.file_handle] = "bin"
        /\ regions[sink.data.region] = sink.mapped_length
        /\ cursor <= sink.length
        /\ pc = "sync" => sink.length = cursor + F64 * Len(history)

(* A binary export that was reported as done is on disk, and the parser    *)
(* returns from it exactly the history that was exported, whatever failed  *)
(* or was killed afterwards.                                               *)
ReportedIsReadable ==
  reported["bin"] = "exported" =>
    /\ Accepted
    /\ ReadFile.snapshots =
         [k \in DOMAIN recorded["bin"] |-> YearOf(recorded["bin"], k)]

(* However an export ends, and even if the process is killed half-way, the *)
(* parser never runs past the end of a file it has begun to accept, and    *)
(* what it returns is the beginning of the history, one year that may be   *)
(* incomplete, and blank years: it never takes one record for another.     *)
TornFilesEndBlank ==
  /\ Len(items["bin"]) >= 2 => Accepted
  /\ Accepted =>
       LET read == ReadFile.snapshots
           whole == recorded["bin"]
       IN  \/ read = <<>>
           \/ /\ Len(read) = Len(whole)
              /\ \E n \in 0 .. Len(whole) :
                   /\ \A k \in 1 .. n : read[k] = YearOf(whole, k)
                   /\ \A k \in n + 2 .. Len(whole) : read[k] = BlankYear

(* Between two exports nothing is mapped and no descriptor is open, except *)
(* those of files that were opened by their path and could not be mapped.  *)
NothingStaysMapped ==
  pc = "next" =>
    /\ \A r \in Regions : regions[r] = 0
    /\ \A o \in Objects : ~is_open(mmap[o])
    /\ {h \in Handles : descriptors[h] # Closed} = stranded

(* Every export returns, or dies with its process.                         *)
ExportsReturn == ~Idle ~> Idle

-----------------------------------------------------------------------------
(* MasterFund.cpp reports a JSON export that returns true as complete and  *)
(* the telemetry as exported.                                              *)
JsonExportIsComplete ==
  reported["json"] = "exported" =>
    items["json"] = JsonLayout(recorded["json"])

=============================================================================
