------------------------------ MODULE CafsFile ------------------------------
(***************************************************************************)
(* The file layer of the flash file system (cafs_lite_file.c,              *)
(* cafs_lite_filelist.c, cafs_lite.c): a file is replaced as a whole when  *)
(* it is closed, by a sequence of status changes in flash, and             *)
(* cl_file_clean() completes or undoes that sequence after a power         *)
(* failure.  One file name, one client.                                    *)
(*                                                                         *)
(* A version of the file has an item in the serial number list, a header   *)
(* block and a block with the list of its segments; the three belong to    *)
(* that version alone and are kept in one record.  Data blocks are shared  *)
(* by the version that is being written and the one it will replace.       *)
(* The file system's lock makes each call one thread of control; todo is   *)
(* the writes it has still to make.                                        *)
(***************************************************************************)
EXTENDS Integers, Sequences, FiniteSets, FiniteSetsExt, SequencesExt

CONSTANTS
    Segs,       \* segments of the file
    Blocks,     \* data blocks, numbers
    MaxBad,     \* bad files that cafs_lite_init() cleans; one more and it fails
    MaxItems,   \* bound: items ever appended to the serial number list
    MaxCrashes  \* bound: power failures in a behaviour

ASSUME CafsFileAssumption ==
    /\ Segs \subseteq Nat /\ 0 \in Segs
    /\ Blocks \subseteq Nat
    /\ MaxBad \in Nat /\ MaxItems \in Nat /\ MaxCrashes \in Nat

\* cl_snlist_item_t.status
Statuses == {"OPEN", "CLOSING", "CLOSED", "DISCARDING_HDR_LIST", "DISCARDING", "DIRTY"}

VARIABLES
    item,   \* the versions, in the order of the serial number list
    data,   \* the data blocks
    mode,   \* "up", "boot" or "failed"
    todo,   \* the writes of the call under way
    hand,   \* the client's cl_handle_t: NoHand, or version and buffered segment
    clean,  \* clean_open_blocks of cafs_lite_init()
    bad,    \* bad_files of cafs_lite_init()
    want,   \* history: the contents the file may have after a power failure
    mishaps, \* history: the mishaps that the properties except
    count, crashes \* counters for the bounds

disk == <<item, data>>
fileVars == <<item, data, mode, todo, hand, clean, bad, want, mishaps, count, crashes>>

\* The contents of a file that does not exist.
Gone == [s \in Segs |-> -1]

NoHand == [v |-> 0, seg |-> -1, val |-> 0, dirty |-> FALSE]

FileInit ==
    /\ item = <<>>
    /\ data = [b \in Blocks |-> [st |-> "FREE", val |-> 0]]
    /\ mode = "up" /\ todo = <<>> /\ hand = NoHand
    /\ clean = FALSE /\ bad = 0
    /\ want = {Gone}
    /\ mishaps = {} /\ count = 0 /\ crashes = 0

Idle == mode = "up" /\ todo = <<>>

-----------------------------------------------------------------------------
\* The serial number list and the list of segments.

\* cl_serialno_get(): the first item of a serial number with a status, 0 if none.
Get(sn, st) ==
    LET S == {i \in DOMAIN item : item[i].sn = sn /\ item[i].st = st}
    IN  IF S = {} THEN 0 ELSE Min(S)

\* cl_dir_lookup(): only closed files have a name.
Lookup ==
    LET S == {i \in DOMAIN item : item[i].st = "CLOSED"}
    IN  IF S = {} THEN 0 ELSE Min(S)

\* cl_filelist_get(): the first current entry of a segment, 0 if none.
Entry(v, s) ==
    LET S == {i \in DOMAIN item[v].list :
                item[v].list[i].seg = s /\ item[v].list[i].st = "CURRENT"}
    IN  IF S = {} THEN 0 ELSE Min(S)

Load(v, s) == IF Entry(v, s) = 0 THEN 0 ELSE data[item[v].list[Entry(v, s)].blk].val

-----------------------------------------------------------------------------
\* The writes that calls are made of.

SetItem(v, st) == <<<<"item", v, st>>>>
SetHdr(v, st)  == <<<<"hdr", v, st>>>>
SetList(v, st) == <<<<"list", v, st>>>>
SetEntry(v, i, st) == <<<<"entry", v, i, st>>>>
SetBlock(b, st) == <<<<"block", b, st>>>>

\* One sequence of writes per entry of the list of version v.
PerEntry(v, W(_)) == FlattenSeq([i \in DOMAIN item[v].list |-> W(i)])

\* Mutant: the blocks of replaced segments are forgotten.
CloseEntry_KeepObsolete(v, i) ==
    LET e == item[v].list[i]
    IN  IF e.st = "CURRENT" THEN SetBlock(e.blk, "CLOSED") ELSE <<>>
CloseEntry(v, i) ==
    LET e == item[v].list[i]
    IN  CASE e.st = "CURRENT"  -> SetBlock(e.blk, "CLOSED")
          [] e.st = "OBSOLETE" -> SetBlock(e.blk, "DIRTY") \o SetEntry(v, i, "DIRTY")
          [] OTHER -> <<>>

\* mark_file_closed(): data, then list, then header; nothing if the header is
\* already closed.  (The block of the list is closed with its first entry; the
\* status of the list is not read again.)
MarkFileClosed(v) ==
    IF item[v].hst = "CLOSED" THEN <<>>
    ELSE PerEntry(v, LAMBDA i : CloseEntry(v, i)) \o SetList(v, "CLOSED") \o SetHdr(v, "CLOSED")

DiscardEntry(v, i) ==
    LET e == item[v].list[i]
    IN  IF e.st \in {"CURRENT", "OBSOLETE"}
        THEN SetBlock(e.blk, "DIRTY") \o SetEntry(v, i, "DIRTY") ELSE <<>>

\* cleanup_file(), which falls through its cases.
CleanupFile(v, status) ==
    (IF status = "DISCARDING" THEN PerEntry(v, LAMBDA i : DiscardEntry(v, i)) ELSE <<>>)
    \o (IF status # "DISCARDING_HDR" THEN SetList(v, "DIRTY") ELSE <<>>)
    \o SetHdr(v, "DIRTY") \o SetItem(v, "DIRTY")

\* Mutant: the new version becomes valid before the old one is given up.
FinishClose_ClosedFirst(new, old, status, closed) ==
    (IF closed THEN <<>>
     ELSE SetItem(new, "CLOSING") \o MarkFileClosed(new)
          \o SetItem(new, "CLOSED") \o SetItem(old, status))
    \o CleanupFile(old, status)
\* Mutant: the old version is given up before the new one is on its way.
FinishClose_DiscardFirst(new, old, status, closed) ==
    (IF closed THEN <<>>
     ELSE SetItem(old, status) \o SetItem(new, "CLOSING") \o MarkFileClosed(new)
          \o SetItem(new, "CLOSED"))
    \o CleanupFile(old, status)
\* finish_close()
FinishClose(new, old, status, closed) ==
    (IF closed THEN <<>>
     ELSE SetItem(new, "CLOSING") \o MarkFileClosed(new)
          \o SetItem(old, status) \o SetItem(new, "CLOSED"))
    \o CleanupFile(old, status)

\* Closing a file that did not exist before.
\* Mutant: it is marked as closed at once.
CloseFirst_AtOnce(v) == SetItem(v, "CLOSED") \o MarkFileClosed(v)
CloseFirst(v) == SetItem(v, "CLOSING") \o MarkFileClosed(v) \o SetItem(v, "CLOSED")

-----------------------------------------------------------------------------
\* One write.  A status has only bits to clear; cl_dev_write() reads back what
\* it wrote, and fails when a bit would have had to be set.
BlockRank == [FREE |-> 1, OPEN |-> 2, CLOSED |-> 3, DIRTY |-> 4]

Fails(w) == w[1] = "block" /\ BlockRank[data[w[2]].st] > BlockRank[w[3]]

\* What the file will contain when version v is the one.
Content(v) == [s \in Segs |->
    LET i == Entry(v, s)
    IN  IF i = 0 THEN 0
        ELSE LET d == data[item[v].list[i].blk] IN IF d.st = "DIRTY" THEN -1 ELSE d.val]

\* The contents as a client finds them: each segment must be in a closed block.
Found ==
    IF Lookup = 0 THEN Gone
    ELSE [s \in Segs |->
        LET i == Entry(Lookup, s)
        IN  IF i = 0 THEN 0
            ELSE LET d == data[item[Lookup].list[i].blk]
                 IN  IF d.st = "CLOSED" THEN d.val ELSE -2]

\* The promise to the client: from CLOSING on the new contents may be found,
\* and once no write is left only they.
Promise(w) ==
    IF w[1] = "item" /\ w[3] = "CLOSING" /\ mode = "up" THEN want \cup {Content(w[2])}
    ELSE want

Write ==
    LET w == Head(todo)
    IN  /\ mode # "failed" /\ todo # <<>> /\ w[1] \in {"item", "hdr", "list", "entry", "block"}
        /\ IF Fails(w)
           THEN /\ todo' = <<>>
                /\ mode' = IF mode = "boot" THEN "failed" ELSE mode
                /\ UNCHANGED disk
           ELSE /\ item' = CASE w[1] = "item"  -> [item EXCEPT ![w[2]].st = w[3]]
                             [] w[1] = "hdr"   -> [item EXCEPT ![w[2]].hst = w[3]]
                             [] w[1] = "list"  -> [item EXCEPT ![w[2]].lst = w[3]]
                             [] w[1] = "entry" -> [item EXCEPT ![w[2]].list[w[3]].st = w[4]]
                             [] OTHER -> item
                /\ data' = IF w[1] = "block" THEN [data EXCEPT ![w[2]].st = w[3]] ELSE data
                /\ todo' = Tail(todo)
                /\ UNCHANGED mode
        /\ want' = Promise(w)
        /\ UNCHANGED <<hand, clean, bad, mishaps, count, crashes>>

-----------------------------------------------------------------------------
\* Calls of the client.

NewItem(sn) == [sn |-> sn, st |-> "OPEN", hst |-> "OPEN", lst |-> "OPEN", list |-> <<>>]

\* cl_file_new(): the file does not exist.
Create ==
    /\ Idle /\ hand = NoHand /\ Lookup = 0 /\ count < MaxItems
    /\ item' = Append(item, NewItem(count + 1))
    /\ hand' = [NoHand EXCEPT !.v = Len(item) + 1]
    /\ count' = count + 1
    /\ UNCHANGED <<data, mode, todo, clean, bad, want, mishaps, crashes>>

\* cl_filelist_consolidate(): all but the dirty entries.
KeptEntry(v, i) == IF item[v].list[i].st = "DIRTY" THEN <<>> ELSE <<item[v].list[i]>>
Consolidated(v) == PerEntry(v, LAMBDA i : KeptEntry(v, i))

Obsoleted(list) == [i \in DOMAIN list |-> [list[i] EXCEPT !.st = "OBSOLETE"]]

\* cl_file_open() for writing: a new item with a copy of the list; to truncate
\* is to make its entries obsolete.  The first segment is loaded.
OpenWrite(trunc) ==
    LET v == Lookup
        list == IF trunc THEN Obsoleted(Consolidated(v)) ELSE Consolidated(v)
    IN  /\ Idle /\ hand = NoHand /\ v # 0 /\ count < MaxItems
        /\ item' = Append(item, [NewItem(item[v].sn) EXCEPT !.list = list])
        /\ hand' = [v |-> Len(item) + 1, seg |-> 0, dirty |-> FALSE,
                    val |-> IF trunc THEN 0 ELSE Load(v, 0)]
        /\ count' = count + 1
        /\ UNCHANGED <<data, mode, todo, clean, bad, want, mishaps, crashes>>

\* cl_file_savesegment(): a changed segment goes to a newly allocated block.
Saving == IF hand.dirty THEN <<<<"alloc">>, <<"append">>, <<"strike">>>> ELSE <<>>

\* cafs_lite_write(): into the buffer, after another segment in it was saved.
\* Each opening of the file writes contents of its own.
WriteSame(s) ==
    /\ Idle /\ hand.v # 0 /\ hand.seg = s
    /\ hand' = [hand EXCEPT !.val = count, !.dirty = TRUE]
    /\ UNCHANGED disk /\ UNCHANGED <<mode, todo, clean, bad, want, mishaps, count, crashes>>

WriteOther(s) ==
    /\ Idle /\ hand.v # 0 /\ hand.seg # s
    /\ todo' = Saving \o <<<<"load", s>>>>
    /\ UNCHANGED disk /\ UNCHANGED <<mode, hand, clean, bad, want, mishaps, count, crashes>>

LoadSegment ==
    /\ mode = "up" /\ todo # <<>> /\ Head(todo)[1] = "load"
    /\ hand' = [hand EXCEPT !.seg = Head(todo)[2], !.val = count, !.dirty = TRUE]
    /\ todo' = Tail(todo)
    /\ UNCHANGED disk /\ UNCHANGED <<mode, clean, bad, want, mishaps, count, crashes>>

\* cl_file_close().  The handle is freed whether or not it succeeds.
Close ==
    /\ Idle /\ hand.v # 0
    /\ todo' = Saving \o <<<<"finish", hand.v>>>>
    /\ UNCHANGED disk /\ UNCHANGED <<mode, hand, clean, bad, want, mishaps, count, crashes>>

Finish ==
    LET v == hand.v
        old == Get(item[v].sn, "CLOSED")
    IN  /\ mode = "up" /\ todo # <<>> /\ Head(todo)[1] = "finish"
        /\ todo' = (IF old # 0 THEN FinishClose(v, old, "DISCARDING_HDR_LIST", FALSE)
                               ELSE CloseFirst(v))
                   \o <<<<"settle", Content(v)>>>>
        /\ hand' = NoHand
        /\ UNCHANGED disk /\ UNCHANGED <<mode, clean, bad, want, mishaps, count, crashes>>

\* History: the call has returned, and only the new contents are right.
Settle ==
    /\ mode = "up" /\ todo # <<>> /\ Head(todo)[1] = "settle"
    /\ want' = {Head(todo)[2]}
    /\ todo' = Tail(todo)
    /\ UNCHANGED disk /\ UNCHANGED <<mode, hand, clean, bad, mishaps, count, crashes>>

\* Saving a segment: cl_block_alloc() takes a free block, or, through module
\* Flash, a dirty one when there is none; the data is written; cl_filelist_update()
\* appends the new entry and then gives up the old one.
SaveAlloc ==
    LET free  == {b \in Blocks : data[b].st = "FREE"}
        dirty == {b \in Blocks : data[b].st = "DIRTY"}
    IN  /\ mode = "up" /\ todo # <<>> /\ Head(todo)[1] = "alloc"
        /\ IF free \cup dirty = {}
           THEN /\ todo' = <<>>
                /\ hand' = IF Last(todo)[1] = "finish" THEN NoHand ELSE hand
                /\ UNCHANGED data
           ELSE \E b \in IF free # {} THEN {Min(free)} ELSE dirty :
                    /\ data' = [data EXCEPT ![b] = [st |-> "OPEN", val |-> hand.val]]
                    /\ todo' = <<<<"append", b>>>> \o Tail(Tail(todo))
                    /\ UNCHANGED hand
        /\ UNCHANGED <<item, mode, clean, bad, want, mishaps, count, crashes>>

SaveAppend ==
    /\ mode = "up" /\ todo # <<>> /\ Head(todo)[1] = "append"
    /\ todo' = <<<<"strike", Entry(hand.v, hand.seg)>>>> \o Tail(Tail(todo))
    /\ item' = [item EXCEPT ![hand.v].list =
                  Append(@, [seg |-> hand.seg, blk |-> Head(todo)[2], st |-> "CURRENT"])]
    /\ UNCHANGED <<data, mode, hand, clean, bad, want, mishaps, count, crashes>>

SaveStrike ==
    LET i == Head(todo)[2]
    IN  /\ mode = "up" /\ todo # <<>> /\ Head(todo)[1] = "strike"
        /\ item' = IF i = 0 THEN item
                   ELSE [item EXCEPT ![hand.v].list[i].st = "OBSOLETE"]
        /\ hand' = [hand EXCEPT !.dirty = FALSE]
        /\ todo' = Tail(todo)
        /\ UNCHANGED <<data, mode, clean, bad, want, mishaps, count, crashes>>

\* cafs_lite_unlink(): not while a version is open.
Unlink ==
    LET v == Lookup
    IN  /\ Idle /\ v # 0 /\ Get(item[v].sn, "OPEN") = 0
        /\ todo' = SetItem(v, "DISCARDING") \o CleanupFile(v, "DISCARDING")
                   \o <<<<"settle", Gone>>>>
        /\ want' = want \cup {Gone}
        /\ UNCHANGED disk /\ UNCHANGED <<mode, hand, clean, bad, mishaps, count, crashes>>

-----------------------------------------------------------------------------
\* Power failure and cafs_lite_init()

\* Power fails after the new version has been marked as closing and before the
\* old one is given up: blocks that both use may be discarded already.
InClosingWindow ==
    \E i, j \in DOMAIN item :
        item[i].sn = item[j].sn /\ item[i].st = "CLOSING" /\ item[j].st = "CLOSED"

\* Power fails after an open file has been forgotten and before the blocks it
\* had are discarded.
InCleaningWindow == mode # "up" /\ clean

\* What is neither in use nor forgotten.  A closing that fails for want of a block
\* leaves such an item, and cafs_lite_init() gives up when it finds too many.
BadItems == {i \in DOMAIN item : item[i].st \notin {"CLOSED", "DIRTY"}}

Crash ==
    /\ crashes < MaxCrashes
    /\ mode' = "boot" /\ todo' = <<>> /\ hand' = NoHand
    /\ clean' = FALSE /\ bad' = 0
    /\ crashes' = crashes + 1
    /\ mishaps' = mishaps \cup (IF InClosingWindow THEN {"closing"} ELSE {})
                        \cup (IF InCleaningWindow THEN {"cleaning"} ELSE {})
                        \cup (IF Cardinality(BadItems) > MaxBad THEN {"crowd"} ELSE {})
    /\ UNCHANGED disk /\ UNCHANGED <<want, count>>

\* cl_file_clean(): the writes that complete or undo what version v was in.
CleanCalls(v) ==
    LET sn == item[v].sn
    IN  CASE item[v].st = "DISCARDING" -> CleanupFile(v, "DISCARDING")
          [] item[v].st = "DISCARDING_HDR_LIST" ->
                IF Get(sn, "CLOSING") # 0
                THEN FinishClose(Get(sn, "CLOSING"), v, "DISCARDING_HDR_LIST", FALSE)
                ELSE FinishClose(Get(sn, "CLOSED"), v, "DISCARDING_HDR_LIST", TRUE)
          [] item[v].st = "CLOSING" ->
                IF Get(sn, "CLOSED") = 0 THEN MarkFileClosed(v) \o SetItem(v, "CLOSED")
                                         ELSE CleanupFile(v, "DISCARDING_HDR")
          [] OTHER -> SetItem(v, "DIRTY")

\* The results 1: blocks that are still open have to be discarded at the end.
LeavesOpen(v) ==
    \/ item[v].st = "OPEN"
    \/ item[v].st = "CLOSING" /\ Get(item[v].sn, "CLOSED") # 0

\* The loop of cafs_lite_init() over the bad files, which the fifth ends.
CleanNext ==
    LET v == Min(BadItems)
    IN  /\ mode = "boot" /\ todo = <<>> /\ BadItems # {} /\ bad <= MaxBad
        /\ IF item[v].st = "DISCARDING_HDR_LIST" /\
              Get(item[v].sn, "CLOSING") = 0 /\ Get(item[v].sn, "CLOSED") = 0
           THEN mode' = "failed" /\ UNCHANGED <<todo, clean, bad>>
           ELSE /\ todo' = CleanCalls(v)
                /\ clean' = (clean \/ LeavesOpen(v))
                /\ bad' = bad + 1
                /\ UNCHANGED mode
        /\ UNCHANGED disk /\ UNCHANGED <<hand, want, mishaps, count, crashes>>

GiveUp ==
    /\ mode = "boot" /\ todo = <<>> /\ bad > MaxBad
    /\ mode' = "failed"
    /\ UNCHANGED disk /\ UNCHANGED <<todo, hand, clean, bad, want, mishaps, count, crashes>>

OpenBlocks == {b \in Blocks : data[b].st = "OPEN"}

DiscardsOpen == clean /\ OpenBlocks # {}

\* cl_block_discardopen(), one block after the other.
DiscardOpen ==
    /\ mode = "boot" /\ todo = <<>> /\ BadItems = {} /\ bad <= MaxBad /\ DiscardsOpen
    /\ data' = [data EXCEPT ![Min(OpenBlocks)].st = "DIRTY"]
    /\ UNCHANGED <<item, mode, todo, hand, clean, bad, want, mishaps, count, crashes>>

\* The device is mounted; what the client finds now it must find from now on.
BootDone ==
    /\ mode = "boot" /\ todo = <<>> /\ BadItems = {} /\ bad <= MaxBad /\ ~DiscardsOpen
    /\ mode' = "up" /\ clean' = FALSE
    /\ want' = IF Found \in want THEN {Found} ELSE want
    /\ UNCHANGED disk /\ UNCHANGED <<todo, hand, bad, mishaps, count, crashes>>

-----------------------------------------------------------------------------
Work ==
    \/ Write \/ LoadSegment \/ Finish \/ Settle \/ SaveAlloc \/ SaveAppend \/ SaveStrike
    \/ CleanNext \/ GiveUp \/ DiscardOpen \/ BootDone

FileNext ==
    \/ Work \/ Crash \/ Create \/ Close \/ Unlink
    \/ \E trunc \in BOOLEAN : OpenWrite(trunc)
    \/ \E s \in Segs : WriteSame(s) \/ WriteOther(s)

FileSpec == FileInit /\ [][FileNext]_fileVars

-----------------------------------------------------------------------------
FileTypeOK ==
    /\ \A i \in DOMAIN item :
          /\ item[i].st \in Statuses
          /\ {item[i].hst, item[i].lst} \subseteq {"OPEN", "CLOSED", "DIRTY"}
          /\ \A j \in DOMAIN item[i].list :
                item[i].list[j] \in [seg : Segs, blk : Blocks, st : {"CURRENT", "OBSOLETE", "DIRTY"}]
    /\ data \in [Blocks -> [st : {"FREE", "OPEN", "CLOSED", "DIRTY"}, val : 0 .. MaxItems]]
    /\ mode \in {"up", "boot", "failed"}
    /\ hand.v \in 0 .. Len(item) /\ hand.seg \in Segs \cup {-1}
    /\ bad \in 0 .. MaxBad + 1 /\ count \in 0 .. MaxItems /\ crashes \in 0 .. MaxCrashes

\* Whenever power fails, the file has its contents from before or from after
\* the call that was interrupted, all of it in blocks that will not be reused -
\* unless it failed while a new version was closing and the old one still valid.
OldOrNew == Idle /\ "closing" \notin mishaps => Found \in want

\* The same without the exception: a power failure while a new version is
\* closing leaves the old one as it was (cl_file_clean(), cafs_lite_file.c:799:
\* "the file already exists as "CLOSED"").
AlwaysOldOrNew == Idle => Found \in want

\* The file has one version: two closed items never survive a call or a mount.
OneVersion ==
    Idle /\ "closing" \notin mishaps =>
        Cardinality({i \in DOMAIN item : item[i].st = "CLOSED"}) <= 1

\* When no file is open, every block that is not free or dirty belongs to the
\* file: no block is lost, apart from the two windows.
NoLeak ==
    Idle /\ hand = NoHand /\ mishaps = {} /\ BadItems = {} =>
        \A b \in Blocks :
            data[b].st \in {"OPEN", "CLOSED"} =>
                Lookup # 0 /\ \E s \in Segs :
                    Entry(Lookup, s) # 0 /\ item[Lookup].list[Entry(Lookup, s)].blk = b

\* A device can always be mounted again, whenever power failed, also during the
\* recovery from an earlier failure - again but for the closing window, after
\* which mark_file_closed() may meet a block that was discarded.
Mountable == mishaps \cap {"closing", "crowd"} = {} => mode # "failed"
=============================================================================
