------------------------------ MODULE MemoryScan ------------------------------
(***************************************************************************)
(* The search of WeChat's memory for keys: a region is read in chunks that *)
(* overlap, and each chunk is searched by a loop that skips ahead.  Looked *)
(* for are x'<key><salt>' and, on Windows, bare runs of hex digits of the  *)
(* length of key and salt, or of a key.                                    *)
(*                                                                         *)
(* A byte is one of "x", "q" (the quote, or anything else that is not a    *)
(* digit) and "h" (a hex digit); the lengths (64, 96, 2 MB) are constants. *)
(* A find is its position and kind: which key it is plays no part.         *)
(***************************************************************************)
EXTENDS Naturals, Sequences

CONSTANTS
  KeyLen,     \* digits of a key: 64
  HexLen,     \* HEX_PATTERN_LEN, key and salt: 96
  ChunkSize,  \* CHUNK_SIZE
  Size,       \* bytes of the region
  Platforms   \* which of "windows", "macos", "linux" the run looks at

ASSUME MemoryScanAssumption ==
  /\ KeyLen \in Nat \ {0} /\ HexLen \in Nat /\ KeyLen < HexLen
  /\ ChunkSize \in Nat /\ HexLen + 3 < ChunkSize /\ Size \in Nat
  /\ Platforms \subseteq {"windows", "macos", "linux"}

VARIABLES
  platform,
  memory,     \* the region's bytes
  offset,     \* where the next chunk starts
  found,      \* {<<position, kind>>}: what the searches came up with
  gap         \* whether some part could not be read

memoryVars == <<platform, memory, offset, found, gap>>

Byte == {"x", "q", "h"}
Total == HexLen + 3

\* Mutant: the overlap forgets the quotes.
ShortOverlap == HexLen

\* A pattern that a chunk's end cuts in two is whole in the next chunk.
Overlap == HexLen + 3

QuotedAt(buf, i) ==
  /\ buf[i] = "x" /\ buf[i + 1] = "q" /\ buf[i + 2 + HexLen] = "q"
  /\ \A j \in 2..HexLen + 1 : buf[i + j] = "h"

\* A region with a key somewhere and anything around it.
RegionInit ==
  /\ platform \in Platforms
  /\ memory \in [1..Size -> Byte]
  /\ \E i \in 1..Size - Total + 1 :
       \A j \in 0..Total - 1 :
         memory[i + j] = CASE j = 0 -> "x" [] j \in {1, Total - 1} -> "q" [] OTHER -> "h"
  /\ offset = 0 /\ found = {} /\ gap = FALSE

-----------------------------------------------------------------------------
\* search_pattern: after a find the loop goes on behind it.
Quoted(buf) ==
  LET from[i \in 1..Len(buf) + Total] ==
        IF i + Total - 1 > Len(buf) THEN {}
        ELSE IF QuotedAt(buf, i) THEN {i} \cup from[i + Total] ELSE from[i + 1]
  IN from[1]

\* Mutant: a run broken off at j is skipped to behind the next digit.
BareSkipping(buf, n) ==
  LET from[i \in 1..Len(buf) + n + 2] ==
        IF i + n - 1 > Len(buf) THEN {}
        ELSE LET broken == {j \in 0..n - 1 : buf[i + j] # "h"}
             IN IF broken # {}
                THEN from[i + 2 + CHOOSE j \in broken : \A k \in broken : j <= k]
                ELSE from[i + 1] \cup
                     IF /\ i = 1 \/ buf[i - 1] # "h"
                        /\ i + n > Len(buf) \/ buf[i + n] # "h"
                     THEN {i} ELSE {}
  IN from[1]

\* The same for a bare run of n digits; a broken run is skipped as a whole.
Bare(buf, n) ==
  LET from[i \in 1..Len(buf) + n + 1] ==
        IF i + n - 1 > Len(buf) THEN {}
        ELSE LET broken == {j \in 0..n - 1 : buf[i + j] # "h"}
             IN IF broken # {}
                THEN from[i + 1 + CHOOSE j \in broken : \A k \in broken : j <= k]
                ELSE from[i + 1] \cup
                     IF /\ i = 1 \/ buf[i - 1] # "h"
                        /\ i + n > Len(buf) \/ buf[i + n] # "h"
                     THEN {i} ELSE {}
  IN from[1]

SearchQuoted(buf) == {<<i, "quoted">> : i \in Quoted(buf)}
SearchWindows(buf) ==
  SearchQuoted(buf) \cup {<<i, "both">> : i \in Bare(buf, HexLen)}
                    \cup {<<i, "key">> : i \in Bare(buf, KeyLen)}

Chunk == IF ChunkSize < Size - offset THEN ChunkSize ELSE Size - offset
Buffer(n) == SubSeq(memory, offset + 1, offset + n)

Advance == offset' = IF Chunk > Overlap THEN offset + Chunk - Overlap ELSE offset + Chunk

Add(finds) == found' = found \cup {<<offset + f[1], f[2]>> : f \in finds}

\* ReadProcessMemory and mach_vm_read give the whole chunk or nothing.
WindowsRegion ==
  /\ platform = "windows" /\ offset < Size
  /\ \/ Add(SearchWindows(Buffer(Chunk))) /\ UNCHANGED gap
     \/ gap' = TRUE /\ UNCHANGED found
  /\ Advance /\ UNCHANGED <<platform, memory>>

MacRegion ==
  /\ platform = "macos" /\ offset < Size
  /\ \/ Add(SearchQuoted(Buffer(Chunk))) /\ UNCHANGED gap
     \/ gap' = TRUE /\ UNCHANGED found
  /\ Advance /\ UNCHANGED <<platform, memory>>

\* /proc/<pid>/mem may give less than was asked for, which is not asked for again; a seek
\* that fails ends the region.
LinuxRegion ==
  /\ platform = "linux" /\ offset < Size
  /\ \/ \E n \in {0, Chunk - 1, Chunk} :
          /\ Add(SearchQuoted(Buffer(n))) /\ gap' = (gap \/ n < Chunk)
          /\ Advance
     \/ offset' = Size /\ gap' = TRUE /\ UNCHANGED found
  /\ UNCHANGED <<platform, memory>>

RegionNext == WindowsRegion \/ MacRegion \/ LinuxRegion
RegionSpec == RegionInit /\ [][RegionNext]_memoryVars

-----------------------------------------------------------------------------
\* Where a run of exactly n digits stands.
Run(i, n) ==
  /\ \A j \in 0..n - 1 : memory[i + j] = "h"
  /\ i = 1 \/ memory[i - 1] # "h"
  /\ i + n > Size \/ memory[i + n] # "h"

\* Whatever the key's place in the region - across the ends of chunks, behind another
\* find, at the very end - and whatever is around it, a region that could be read
\* yields every key in it (the overlap of scan_region, the skips of search_pattern).
NothingMissed ==
  offset = Size /\ ~gap =>
    /\ \A i \in 1..Size - Total + 1 : QuotedAt(memory, i) => <<i, "quoted">> \in found
    /\ platform = "windows" =>
         /\ \A i \in 1..Size - HexLen + 1 : Run(i, HexLen) => <<i, "both">> \in found
         /\ \A i \in 1..Size - KeyLen + 1 : Run(i, KeyLen) => <<i, "key">> \in found
=============================================================================
