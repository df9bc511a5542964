---------------------------- MODULE UserdataImage ----------------------------
(***************************************************************************)
(* How tools/libreecho-install.py writes a new userdata filesystem: mke2fs  *)
(* makes a raw image, dumpe2fs lists its free blocks, and the installer     *)
(* turns both into a sparse image that leaves the free blocks of the target *)
(* as they are, with whatever an earlier system wrote there.                *)
(*                                                                          *)
(* The listing is that of a real filesystem, in which lines may have been   *)
(* lost, repeated or moved.                                                 *)
(***************************************************************************)
EXTENDS Naturals, FiniteSets, SequencesExt

CONSTANTS
  Blocks,      \* the size of the filesystem
  GroupSize,   \* the size of its block groups; the last one may be smaller
  Budget,      \* the blocks LK may have to program
  Stale,       \* what an earlier system wrote
  None

ASSUME UserdataConstantsOK ==
  /\ Blocks \in Nat \ {0} /\ GroupSize \in Nat \ {0} /\ Budget \in Nat
  /\ {Stale, None} \cap Nat = {} /\ None \notin Nat \X Nat

VARIABLES
  used,         \* the blocks mke2fs allocated
  report,       \* what dumpe2fs printed
  rest,         \* the lines still to be read
  free,         \* the free-block map so far
  group,        \* the group the lines belong to, or None
  nextGroup, nextBlock,
  groupFree, listSeen,   \* what the group's lines have said so far
  phase,
  runs,         \* the runs of equal blocks
  image,        \* the chunks of the sparse image
  target        \* what each block of the partition holds

reading == <<free, group, nextGroup, nextBlock, groupFree, listSeen>>
vars == <<used, report, rest, reading, phase, runs, image, target>>

Block == 0 .. Blocks - 1
Raw(b) == b                      \* the contents of a block of the raw image
Rank(T, b) == Cardinality({c \in T : c <= b})
Nth(T, n) == CHOOSE b \in T : Rank(T, b) = n
\* The maximal runs of adjacent blocks in a set, in order.
Firsts(S) == {b \in S : b - 1 \notin S}
RunFrom(S, b) == <<b, CHOOSE e \in S : b <= e /\ b .. e \subseteq S /\ e + 1 \notin S>>
RunsOf(S) == [n \in 1 .. Cardinality(Firsts(S)) |-> RunFrom(S, Nth(Firsts(S), n))]

-----------------------------------------------------------------------------
(* What dumpe2fs prints *)

Header(name, n) == [kind |-> "header", name |-> name, n |-> n]
GroupLine(number, first, last) ==
  [kind |-> "group", number |-> number, first |-> first, last |-> last]
CountLine(n) == [kind |-> "count", n |-> n]
RangesLine(list) == [kind |-> "ranges", list |-> list]

Smaller(m, n) == IF m < n THEN m ELSE n
Groups == (Blocks + GroupSize - 1) \div GroupSize
GroupLines(g, unused) ==
  LET first == g * GroupSize
      last == Smaller(first + GroupSize, Blocks) - 1
      ours == unused \cap first .. last
  IN  <<GroupLine(g, first, last), CountLine(Cardinality(ours)), RangesLine(RunsOf(ours))>>
Listing(unused) ==
  <<Header("Block count", Blocks), Header("Free blocks", Cardinality(unused))>>
    \o [n \in 1 .. 3 * Groups |-> GroupLines((n - 1) \div 3, unused)[((n - 1) % 3) + 1]]

\* Lines lost, one or two of them or all after one; a line repeated; a line moved.
LostFrom(text) == {RemoveAt(text, n) : n \in 1 .. Len(text)}
Garbled(text) ==
  {text} \cup LostFrom(text) \cup (UNION {LostFrom(t) : t \in LostFrom(text)})
    \cup {SubSeq(text, 1, n) : n \in 1 .. Len(text)}
    \cup (UNION {{InsertAt(text, m, text[n]) : m \in 1 .. Len(text) + 1} : n \in 1 .. Len(text)})
    \cup (UNION {{InsertAt(RemoveAt(text, n), m, text[n]) : m \in 1 .. Len(text)} :
                   n \in 1 .. Len(text)})

\* The superblock is in block 0.
Init ==
  /\ used \in {U \in SUBSET Block : 0 \in U}
  /\ report \in Garbled(Listing(Block \ used)) /\ rest = report
  /\ free = {} /\ group = None /\ nextGroup = 0 /\ nextBlock = 0
  /\ groupFree = None /\ listSeen = FALSE
  /\ phase = "headers" /\ runs = <<>> /\ image = <<>>
  /\ target = [b \in Block |-> Stale]

-----------------------------------------------------------------------------
(* _userdata_free_block_map *)

Refuse ==
  phase' = "refused" /\ UNCHANGED <<used, report, rest, reading, runs, image, target>>

\* A header must be there exactly once, and the counts must be possible.
Says(name) == {n \in 1 .. Len(report) : report[n].kind = "header" /\ report[n].name = name}
Value(name) == report[CHOOSE n \in Says(name) : TRUE].n
HeadersOK ==
  /\ \A name \in {"Block count", "Free blocks"} : Cardinality(Says(name)) = 1
  /\ Value("Block count") = Blocks
  /\ 0 < Value("Free blocks") /\ Value("Free blocks") < Blocks
ReadHeaders ==
  /\ phase = "headers"
  /\ \/ HeadersOK /\ phase' = "lines" /\ UNCHANGED <<used, report, rest, reading, runs, image, target>>
     \/ ~HeadersOK /\ Refuse

Line == Head(rest)
At(kind) == phase = "lines" /\ rest # <<>> /\ Line.kind = kind

\* The group that ends has said both how many blocks it has free and which.
GroupComplete ==
  group = None \/ (/\ groupFree # None /\ listSeen
                   /\ Cardinality(free \cap group[1] .. group[2]) = groupFree)
\* A fault: no group reaches the last block.
FollowsShort ==
  /\ Line.number = nextGroup /\ Line.first = nextBlock
  /\ Line.first <= Line.last /\ Line.last + 1 < Blocks
Follows ==
  /\ Line.number = nextGroup /\ Line.first = nextBlock
  /\ Line.first <= Line.last /\ Line.last < Blocks
Read == rest' = Tail(rest) /\ UNCHANGED <<used, report, phase, runs, image, target>>

StartGroup ==
  /\ At("group")
  /\ IF GroupComplete /\ Follows
     THEN /\ group' = <<Line.first, Line.last>> /\ groupFree' = None /\ listSeen' = FALSE
          /\ nextGroup' = nextGroup + 1 /\ nextBlock' = Line.last + 1
          /\ UNCHANGED free /\ Read
     ELSE Refuse

\* The filesystem-wide "Free blocks:" is not indented, and a count; the indented one is a
\* list.
SkipLine ==
  /\ At("header") \/ (group = None /\ (At("count") \/ At("ranges")))
  /\ UNCHANGED reading /\ Read

CountFree ==
  /\ At("count") /\ group # None
  /\ IF groupFree = None
     THEN groupFree' = Line.n /\ UNCHANGED <<free, group, nextGroup, nextBlock, listSeen>> /\ Read
     ELSE Refuse

\* A fault: a full group has no list.
AscendingSome(list) == list # <<>> /\ \A n \in 2 .. Len(list) : list[n - 1][2] < list[n][1]
\* Ranges are inside the group and each begins after the one before it.
Ascending(list) ==
  \A n \in 1 .. Len(list) :
    /\ group[1] <= list[n][1] /\ list[n][1] <= list[n][2] /\ list[n][2] <= group[2]
    /\ n > 1 => list[n - 1][2] < list[n][1]
Covered(list) == UNION {list[n][1] .. list[n][2] : n \in 1 .. Len(list)}
ListFree ==
  /\ At("ranges") /\ group # None
  /\ IF ~listSeen /\ Ascending(Line.list)
     THEN /\ listSeen' = TRUE /\ free' = free \cup Covered(Line.list)
          /\ UNCHANGED <<group, nextGroup, nextBlock, groupFree>> /\ Read
     ELSE Refuse

\* A fault: the listing may end after any group.
MapOKPartial == GroupComplete /\ 0 \notin free
MapOK ==
  GroupComplete /\ nextBlock = Blocks /\ Cardinality(free) = Value("Free blocks") /\ 0 \notin free
\* The map is accepted if LK can program what is left.
EndOfReport ==
  /\ phase = "lines" /\ rest = <<>>
  /\ IF MapOK /\ Blocks - Cardinality(free) <= Budget
     THEN phase' = "runs" /\ UNCHANGED <<used, report, rest, reading, runs, image, target>>
     ELSE Refuse

ReadLine == StartGroup \/ SkipLine \/ CountFree \/ ListFree

-----------------------------------------------------------------------------
(* _write_userdata_sparse, _validate_android_sparse_image and the flash *)

Covers(seq) == IF seq = <<>> THEN 0 ELSE Last(seq).end
Same(b, c) == b \in free <=> c \in free
\* The longest run from where the last one ended.
NextRun ==
  LET start == Covers(runs)
      ends == {e \in start + 1 .. Blocks :
                 /\ \A b \in start .. e - 1 : Same(b, start)
                 /\ e = Blocks \/ ~Same(e, start)}
  IN  /\ phase = "runs" /\ start < Blocks
      /\ runs' = Append(runs, [end |-> CHOOSE e \in ends : TRUE, start |-> start,
                               unused |-> start \in free])
      /\ UNCHANGED <<used, report, rest, reading, phase, image, target>>
RunsDone ==
  /\ phase = "runs" /\ Covers(runs) = Blocks /\ phase' = "copy"
  /\ UNCHANGED <<used, report, rest, reading, runs, image, target>>

\* A chunk: what it programs, or how much it skips.
RawChunk(data) == [type |-> "RAW", blocks |-> Len(data), data |-> data]
DontCare(n) == [type |-> "DONT_CARE", blocks |-> n, data |-> <<>>]
BlocksOf(chunks, types) ==
  LET upTo[n \in 0 .. Len(chunks)] ==
        IF n = 0 THEN 0
        ELSE upTo[n - 1] + (IF chunks[n].type \in types THEN chunks[n].blocks ELSE 0)
  IN  upTo[Len(chunks)]
Total(chunks) == BlocksOf(chunks, {"RAW", "DONT_CARE"})
Programmed(chunks) == BlocksOf(chunks, {"RAW"})
\* A fault: the raw image is read on from where the last chunk ended.
ChunkNoSeek(r) ==
  IF r.unused THEN DontCare(r.end - r.start)
  ELSE RawChunk([n \in 1 .. r.end - r.start |-> Raw(Programmed(image) + n - 1)])
Chunk(r) ==
  IF r.unused THEN DontCare(r.end - r.start)
  ELSE RawChunk([n \in 1 .. r.end - r.start |-> Raw(r.start + n - 1)])
WriteChunk ==
  /\ phase = "copy" /\ Len(image) < Len(runs)
  /\ \/ /\ image' = Append(image, Chunk(runs[Len(image) + 1]))
        /\ UNCHANGED <<used, report, rest, reading, phase, runs, target>>
     \/ ~runs[Len(image) + 1].unused /\ Refuse     \* the raw image ends early

\* A fault: one block less may be programmed than the map allows.
ValidStrict(chunks) == Total(chunks) = Blocks /\ Programmed(chunks) < Budget
Valid(chunks) ==
  /\ \A n \in 1 .. Len(chunks) :
       IF chunks[n].type = "RAW" THEN Len(chunks[n].data) = chunks[n].blocks
       ELSE chunks[n].data = <<>>
  /\ Total(chunks) = Blocks /\ Programmed(chunks) <= Budget
  /\ \E n \in 1 .. Len(chunks) : chunks[n].type = "DONT_CARE"
\* The image is looked at again and must program as much as the map said.
Validate ==
  /\ phase = "copy" /\ Len(image) = Len(runs)
  /\ phase' = IF Valid(image) /\ Programmed(image) = Blocks - Cardinality(free) THEN "flash"
              ELSE "disowned"
  /\ UNCHANGED <<used, report, rest, reading, runs, image, target>>

\* fastboot and LK: each chunk goes where the chunks before it end.
Flash ==
  /\ phase = "flash"
  /\ IF image = <<>> THEN phase' = "flashed" /\ UNCHANGED <<runs, image, target>>
     ELSE LET start == Blocks - Total(image)
              chunk == Head(image)
          IN  \/ /\ target' = [b \in Block |->
                                 IF chunk.type = "RAW" /\ b \in start .. start + chunk.blocks - 1
                                 THEN chunk.data[b - start + 1] ELSE target[b]]
                 /\ image' = Tail(image) /\ UNCHANGED <<phase, runs>>
              \/ phase' = "refused" /\ UNCHANGED <<runs, image, target>>   \* it timed out
  /\ UNCHANGED <<used, report, rest, reading>>

Done == phase \in {"refused", "disowned", "flashed"} /\ UNCHANGED vars
Next ==
  \/ ReadHeaders \/ ReadLine \/ EndOfReport \/ NextRun \/ RunsDone \/ WriteChunk \/ Validate
  \/ Flash \/ Done
Spec == Init /\ [][Next]_vars
LiveSpec == Spec /\ WF_vars(Next)

-----------------------------------------------------------------------------
(* Properties *)

Phases == {"headers", "lines", "runs", "copy", "flash", "refused", "disowned", "flashed"}
TypeOK ==
  /\ used \subseteq Block /\ free \subseteq Block
  /\ group \in (Block \X Block) \cup {None}
  /\ nextGroup \in 0 .. Groups /\ nextBlock \in 0 .. Blocks
  /\ groupFree \in 0 .. Blocks \cup {None} /\ listSeen \in BOOLEAN
  /\ phase \in Phases
  /\ \A n \in 1 .. Len(runs) :
       runs[n] \in [start : Block, end : 1 .. Blocks, unused : BOOLEAN]
  /\ target \in [Block -> Block \cup {Stale}]

\* No block of the new filesystem is left with what an earlier system wrote there, or with
\* another block's contents: whatever happened to the listing, zeroed metadata included.
LiveBlocksWritten == phase = "flashed" => \A b \in used : target[b] = Raw(b)

\* A listing that lost, repeated or moved lines is only accepted if what is left of it
\* says of each block what the filesystem says.
MapIsAllocation == phase \in {"runs", "copy", "flash", "flashed"} => free = Block \ used

\* The installer never disowns its own image: what it writes for an accepted map passes
\* its validation and accounting.
OwnImageValid == phase # "disowned"

\* A filesystem that LK can program, of which every line of the listing came through.
Intact == report = Listing(Block \ used) /\ used # Block /\ Cardinality(used) <= Budget

\* The parser's checks are no stricter than dumpe2fs: no line of an intact listing, and
\* not its end, makes it refuse, whatever its groups, full and empty ones and the short
\* last one included.
IntactNotRefused == [][Intact /\ phase \in {"headers", "lines"} => phase' # "refused"]_vars

\* Formatting programs only blocks of the new filesystem, each once and with its own
\* contents, and none after it failed; it is done only when they all are programmed.
Formatting == INSTANCE UserdataFormat WITH
  allocated <- used,
  outcome <- CASE phase = "flashed" -> "formatted"
               [] phase = "refused" -> "failed"
               [] phase = "disowned" -> "disowned"
               [] OTHER -> "formatting"
ImplementsFormat == Formatting!Spec

\* The listing of every filesystem within the budget is accepted, and its image is begun.
IntactIsAccepted == phase = "headers" /\ Intact ~> phase = "copy"
=============================================================================
