-------------------------------- MODULE Loader --------------------------------
(***************************************************************************)
(* Model::open of loader.cpp: the table of a model file is read entry by   *)
(* entry, then its blobs are placed.  Every number comes from the file, so *)
(* the arithmetic is that of an unsigned word: 0 .. WordMax, wrapping.     *)
(* A wide type has WideBytes per element; a grouped one has one byte per   *)
(* element and a scale of ScaleBytes per Group columns.                    *)
(***************************************************************************)
EXTENDS Integers, Sequences, FiniteSets, SequencesExt

CONSTANTS
  WordMax,     \* the largest uint64_t
  WideBytes, ScaleBytes, Group,
  Align,       \* ALIGN
  EntryBytes,  \* 36, what a table entry takes at least
  Dims, Offsets, FileSizes,   \* what the file may say
  MaxEntries   \* bound: n_tensors

ASSUME LoaderAssumption ==
  /\ {WordMax, WideBytes, ScaleBytes, Group, Align, EntryBytes} \subseteq Nat \ {0}
  /\ Dims \cup Offsets \cup FileSizes \subseteq 0 .. WordMax

VARIABLES
  file,    \* [size, n]: its size and n_tensors
  table,   \* entries accepted so far
  stage    \* "table", "open" or "refused"

loadVars == <<file, table, stage>>

-----------------------------------------------------------------------------
Word64(x) == x % (WordMax + 1)

(* checked_mul: refuses what would wrap. *)
MulFits(a, b) == a = 0 \/ b <= WordMax \div a
MulFitsTwice(a, b, c) == MulFits(a, b) /\ MulFits(Word64(a * b), c)

(* expected_sizes of a tensor with shape <<r, c>>, both dimensions nonzero *)
Elements(e) == Word64(e.r * e.c)
SizesFit(e) ==
  /\ e.r # 0 /\ e.c # 0 /\ MulFits(e.r, e.c)
  /\ IF e.wide THEN MulFits(Elements(e), WideBytes)
     ELSE e.c % Group = 0 /\ MulFitsTwice(Elements(e) \div e.c, e.c \div Group, ScaleBytes)
WantData(e) == IF e.wide THEN Word64(Elements(e) * WideBytes) ELSE Elements(e)
WantScales(e) ==
  IF e.wide THEN 0 ELSE Word64((Elements(e) \div e.c) * (e.c \div Group) * ScaleBytes)

(* What an entry must satisfy before the next is read. *)
EntryOk(e) ==
  /\ SizesFit(e)
  /\ e.data = WantData(e) /\ e.scales = WantScales(e)
  /\ e.doff % Align = 0 /\ (e.scales # 0 => e.soff % Align = 0)
  /\ e.scales = 0 => e.soff = 0

(* The data section starts at the next multiple of Align.  EntryBytes     *)
(* stands for the whole entry, header and metadata for nothing.            *)
TableEnd == file.n * EntryBytes
DataBase == TableEnd + ((Align - (TableEnd % Align)) % Align)
Payload == file.size - DataBase

InRange(off, size) == off <= Payload /\ size <= Payload - off

Ranges(t) ==
  [i \in 1 .. Len(t) |-> <<t[i].doff, t[i].data>>] \o
  SelectSeq([i \in 1 .. Len(t) |-> <<t[i].soff, t[i].scales>>], LAMBDA b : b[2] # 0)

(* Sorted by where they begin, none begins before the last one's end. *)
Apart(t) ==
  LET s == SortSeq(Ranges(t), LAMBDA a, b : a[1] < b[1]) IN
  \A i \in 2 .. Len(s) : s[i][1] >= Word64(s[i - 1][1] + s[i - 1][2])

Placed(t) ==
  /\ DataBase <= file.size
  /\ \A i \in 1 .. Len(t) :
       /\ InRange(t[i].doff, t[i].data)
       /\ t[i].scales # 0 => InRange(t[i].soff, t[i].scales)
       /\ \A j \in 1 .. i - 1 : t[j].name # t[i].name
  /\ Apart(t)

-----------------------------------------------------------------------------
(* FileEntries the file may hold: sizes right, wrapped, or of something else. *)
Heads == [name : {"a", "b"}, wide : BOOLEAN, r : Dims, c : Dims, doff : Offsets, soff : Offsets]
Sized(h, d, s) ==
  [name |-> h.name, wide |-> h.wide, r |-> h.r, c |-> h.c, doff |-> h.doff, soff |-> h.soff,
   data |-> d, scales |-> s]
FileEntries ==
  UNION {{Sized(h, d, s) : d \in {Word64(h.r * h.c), Word64(h.r * h.c * WideBytes), 1},
                           s \in {0, 1, Word64(h.r * (h.c \div Group) * ScaleBytes)}} : h \in Heads}

LoadBegins(f) == file = f /\ table = <<>> /\ stage = "table"
Files == [size : FileSizes, n : 0 .. MaxEntries]
LoadInit == \E f \in Files : LoadBegins(f)

HeadOk == file.n # 0 /\ file.n <= file.size \div EntryBytes

BadHead ==
  /\ stage = "table" /\ table = <<>> /\ ~HeadOk
  /\ stage' = "refused" /\ UNCHANGED <<file, table>>

ReadEntry ==
  /\ stage = "table" /\ HeadOk /\ Len(table) < file.n
  /\ \E e \in FileEntries :
       IF EntryOk(e) THEN table' = Append(table, e) /\ UNCHANGED stage
       ELSE table' = <<>> /\ stage' = "refused"
  /\ UNCHANGED file

PlaceBlobs ==
  /\ stage = "table" /\ HeadOk /\ Len(table) = file.n
  /\ stage' = IF Placed(table) THEN "open" ELSE "refused"
  /\ table' = IF Placed(table) THEN table ELSE <<>>
  /\ UNCHANGED file

LoadNext == BadHead \/ ReadEntry \/ PlaceBlobs

-----------------------------------------------------------------------------
(* A model that opened can be read: every blob has the bytes its shape     *)
(* needs, counted without wrapping, lies inside the mapping, and shares no *)
(* byte with another, whatever the numbers in the file (Model::open,       *)
(* expected_sizes, checked_mul).                                           *)
LoadedSound ==
  stage = "open" =>
    /\ \A i \in 1 .. Len(table) :
         LET e == table[i] IN
         /\ e.data = e.r * e.c * (IF e.wide THEN WideBytes ELSE 1)
         /\ ~e.wide => e.scales = e.r * (e.c \div Group) * ScaleBytes
    /\ LET b == Ranges(table) IN
       /\ \A i \in 1 .. Len(b) : DataBase + b[i][1] + b[i][2] <= file.size
       /\ \A i, j \in 1 .. Len(b) :
            i # j => b[i][1] + b[i][2] <= b[j][1] \/ b[j][1] + b[j][2] <= b[i][1]
==============================================================================
