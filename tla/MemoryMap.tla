------------------------------- MODULE MemoryMap -------------------------------
(***************************************************************************)
(* The part of mio (basic_mmap of include/mio.hpp, on POSIX) that the      *)
(* binary export uses: opening and mapping a file by its path, moving the  *)
(* mapping out of make_mmap, sync, unmap and the destructor.               *)
(*                                                                         *)
(* Below it is the operating system, of which the code sees a table of     *)
(* file descriptors, the mapped regions of the address space and the sizes *)
(* of the files.  Every system call may be refused.  An address is a       *)
(* region and a byte in it.                                                *)
(***************************************************************************)
EXTENDS Integers, FiniteSets

CONSTANTS
  Files,
  Handles,   \* the process's table of file descriptors
  Regions,   \* the places of the address space a file can be mapped to
  Objects,   \* the basic_mmap objects of the program
  PageSize,
  invalid_handle, Null, Closed

ASSUME MemoryAssumption ==
  /\ PageSize \in Nat \ {0}
  /\ invalid_handle \notin Handles
  /\ Closed \notin Files
  /\ Null \notin [region : Regions, byte : Int]

VARIABLES
  size,         \* the bytes of each file
  descriptors,  \* the file each descriptor stands for, or Closed
  regions,      \* the bytes mapped in each region, 0 if nothing is
  mmap,         \* the fields of each object
  error         \* the std::error_code of the last call

memory == <<size, descriptors, regions, mmap, error>>
sink_vars == <<regions, mmap, error>>

map_entire_file == 0

-----------------------------------------------------------------------------
(* A basic_mmap without a mapping.  Unmap leaves is_handle_internal alone. *)
Released(internal) ==
  [data |-> Null, length |-> 0, mapped_length |-> 0,
   file_handle |-> invalid_handle, is_handle_internal |-> internal]

(* The place of an object that is not alive.                               *)
Gone == Released(FALSE)

MemoryInit ==
  /\ size = [f \in Files |-> 0]
  /\ descriptors = [h \in Handles |-> Closed]
  /\ regions = [r \in Regions |-> 0]
  /\ mmap = [o \in Objects |-> Gone]
  /\ error = FALSE

FreeHandles == {h \in Handles : descriptors[h] = Closed}

is_open(m) == m.file_handle # invalid_handle

(* The start of the page that holds byte offset of a file.                 *)
make_offset_page_aligned(offset) == (offset \div PageSize) * PageSize

(* get_mapping_start: data_ points to the first byte asked for, which lies *)
(* mapping_offset() bytes into the mapping.                                *)
get_mapping_start(m) ==
  [region |-> m.data.region,
   byte |-> m.data.byte - (m.mapped_length - m.length)]

(* The descriptors after unmap: a handle the object opened is closed.      *)
DescriptorsWithout(m) ==
  IF is_open(m) /\ m.is_handle_internal
  THEN [descriptors EXCEPT ![m.file_handle] = Closed]
  ELSE descriptors

(* munmap takes away what lies at the start and length it is given.        *)
RegionsWithout(m) ==
  IF is_open(m) /\ m.data # Null
  THEN [r \in Regions |->
          IF get_mapping_start(m) = [region |-> r, byte |-> 0]
               /\ m.mapped_length = regions[r]
          THEN 0 ELSE regions[r]]
  ELSE regions

Unmap(o) ==
  /\ mmap' = [mmap EXCEPT ![o] = IF is_open(@)
                                 THEN Released(@.is_handle_internal) ELSE @]
  /\ descriptors' = DescriptorsWithout(mmap[o])
  /\ regions' = RegionsWithout(mmap[o])

(* The default constructor: is_handle_internal_ has no initializer, so it  *)
(* is whatever the memory held.                                            *)
Construct(o) ==
  /\ \E internal \in BOOLEAN : mmap' = [mmap EXCEPT ![o] = Released(internal)]
  /\ UNCHANGED <<size, descriptors, regions, error>>

(* The destructor: conditional_sync, whose error is dropped, and unmap.    *)
Destroy(o) ==
  /\ mmap' = [mmap EXCEPT ![o] = Gone]
  /\ descriptors' = DescriptorsWithout(mmap[o])
  /\ regions' = RegionsWithout(mmap[o])

-----------------------------------------------------------------------------
(* map by path and, within it, map by handle, which fails when fstat does, *)
(* when the file is too short or when the kernel does not map it: it does  *)
(* not map an empty range.  A failed map leaves the object as it was.  The *)
(* handle of a path is closed neither then nor later: no object knows it.  *)
MapPathFails(o, path) ==
  /\ \/ UNCHANGED descriptors
     \/ \E h \in FreeHandles :
          descriptors' = [descriptors EXCEPT ![h] = path]
  /\ error' = TRUE
  /\ UNCHANGED <<regions, mmap>>

(* Slip: map by path does not note that the handle is its own.             *)
MapPathAsGuest(o, path, offset, length) ==
  LET aligned_offset == make_offset_page_aligned(offset)
      mapped == IF length = map_entire_file THEN size[path] - offset ELSE length
      length_to_map == offset - aligned_offset + mapped
  IN  /\ offset + length <= size[path]
      /\ length_to_map > 0
      /\ \E h \in FreeHandles, r \in Regions :
           /\ regions[r] = 0
           /\ descriptors' = [DescriptorsWithout(mmap[o]) EXCEPT ![h] = path]
           /\ regions' = [RegionsWithout(mmap[o]) EXCEPT ![r] = length_to_map]
           /\ mmap' = [mmap EXCEPT ![o] =
                [data |-> [region |-> r, byte |-> offset - aligned_offset],
                 length |-> mapped, mapped_length |-> length_to_map,
                 file_handle |-> h, is_handle_internal |-> FALSE]]
      /\ error' = FALSE

(* The new mapping is made before the old one is given up; both regions    *)
(* are there for a moment, hence the free region.                          *)
MapPath(o, path, offset, length) ==
  LET aligned_offset == make_offset_page_aligned(offset)
      mapped == IF length = map_entire_file THEN size[path] - offset ELSE length
      length_to_map == offset - aligned_offset + mapped
  IN  /\ offset + length <= size[path]
      /\ length_to_map > 0
      /\ \E h \in FreeHandles, r \in Regions :
           /\ regions[r] = 0
           /\ descriptors' = [DescriptorsWithout(mmap[o]) EXCEPT ![h] = path]
           /\ regions' = [RegionsWithout(mmap[o]) EXCEPT ![r] = length_to_map]
           /\ mmap' = [mmap EXCEPT ![o] =
                [data |-> [region |-> r, byte |-> offset - aligned_offset],
                 length |-> mapped, mapped_length |-> length_to_map,
                 file_handle |-> h, is_handle_internal |-> TRUE]]
      /\ error' = FALSE

(* Slip: the source of a move keeps its handle and its mapping, which its  *)
(* destructor then takes from the target.                                  *)
ReturnShared(from, to) ==
  /\ mmap' = [mmap EXCEPT ![to] = mmap[from], ![from] = Gone]
  /\ descriptors' = DescriptorsWithout(mmap[from])
  /\ regions' = RegionsWithout(mmap[from])
  /\ UNCHANGED <<size, error>>

(* make_mmap returns its local object: the move constructor takes over its *)
(* fields and resets the source, whose destructor then finds nothing open. *)
(* A compiler that builds the object in place has the same outcome.        *)
ReturnMapping(from, to) ==
  /\ mmap' = [mmap EXCEPT ![to] = mmap[from], ![from] = Gone]
  /\ UNCHANGED <<size, descriptors, regions, error>>

(* sync: msync of the whole mapping, which may fail.                       *)
Sync(o) ==
  /\ error' \in IF is_open(mmap[o]) THEN BOOLEAN ELSE {TRUE}
  /\ UNCHANGED <<size, descriptors, regions, mmap>>

(* The kernel releases everything when the process dies.                   *)
ProcessDies ==
  /\ descriptors' = [h \in Handles |-> Closed]
  /\ regions' = [r \in Regions |-> 0]
  /\ mmap' = [o \in Objects |-> Gone]
  /\ error' = FALSE

-----------------------------------------------------------------------------
Mmap == [data : [region : Regions, byte : Nat] \cup {Null},
         length : Nat, mapped_length : Nat,
         file_handle : Handles \cup {invalid_handle},
         is_handle_internal : BOOLEAN]

MemoryTypeOK ==
  /\ size \in [Files -> Nat]
  /\ descriptors \in [Handles -> Files \cup {Closed}]
  /\ regions \in [Regions -> Nat]
  /\ mmap \in [Objects -> Mmap]
  /\ error \in BOOLEAN

=============================================================================
