-------------------------------- MODULE Flash -------------------------------
(***************************************************************************)
(* The block layer of the flash file system: allocation of blocks          *)
(* (cafs_lite_block.c), the scratch area that holds the valid blocks of a  *)
(* section while it is erased (cafs_lite_scratch.c), and the serial number *)
(* list that is copied to a new block whenever the device is mounted       *)
(* (cafs_lite_serialno.c, cafs_lite_list.c).  Power may fail between any   *)
(* two writes; cafs_lite_init() is what runs after it.                     *)
(*                                                                         *)
(* The file system's lock lets one call in at a time, so there is one      *)
(* thread of control.  What it still has to do is the sequence todo; its   *)
(* head is either a write to the device or a call that is replaced by its  *)
(* parts when it is reached.  A file is one block here, and its commit one *)
(* write: module CafsFile has the steps of it.                             *)
(***************************************************************************)
EXTENDS Integers, Sequences, FiniteSets, FiniteSetsExt, SequencesExt

CONSTANTS
    Sections,       \* erasable sections of the device, without the scratch area
    E,              \* cl_block_geteraseable(): blocks of a section
    ScratchEntries, \* SCRATCH_ENTRIES
    Files,          \* serial numbers of files, positive numbers
    MaxWrites,      \* bound: files written or removed in a behaviour
    MaxCrashes      \* bound: power failures in a behaviour

ASSUME FlashAssumption ==
    /\ Sections \in Nat \ {0} /\ E \in Nat \ {0} /\ ScratchEntries \in Nat \ {0, 1}
    /\ Files \subseteq Nat \ {0}
    /\ MaxWrites \in Nat /\ MaxCrashes \in Nat
    /\ Sections * E > 1 /\ (E * 3) \div 4 <= ScratchEntries + 1

Total == Sections * E
NONE  == -1

\* cl_block_hdr_t.status.  A write can only clear bits, so a status can only
\* move to the right.
Status == <<"FREE", "OPEN", "CLOSED", "DIRTY">>
Rank(s) == CHOOSE i \in 1 .. 4 : Status[i] = s

\* The contents of a block: a file's version, or the serial number list with
\* the status of its zero entry, the CLOSED items and the OPEN ones.
Blank == [st |-> "FREE", sn |-> NONE, ver |-> 0, zero |-> "FREE",
          at |-> [f \in Files |-> 0], open |-> {}]
Unused == [st |-> "UNUSED", orig |-> NONE, data |-> Blank]

VARIABLES
    blk,     \* the blocks; blk[Total] is the one behind the last, in the scratch area
    scr,     \* the entries of the scratch area, each with its block
    mode,    \* "up", "boot" or "failed", a device that could not be mounted
    todo,    \* what the call under way has still to do
    got,     \* the block of the last allocation
    cur,     \* cl_dev_getlist_block(), NONE when it is not known
    files,   \* history: the version of each file that was committed, 0 for none
    spoilt,  \* history: the mishaps that the properties except
    writes, crashes \* counters for the bounds

flash == <<blk, scr>>
flashVars == <<blk, scr, mode, todo, got, cur, files, spoilt, writes, crashes>>

\* cl_serialno_mkfs() on an erased device.
FlashInit ==
    /\ blk = [b \in 0 .. Total |->
                IF b = 1 THEN [Blank EXCEPT !.st = "CLOSED", !.sn = 0, !.zero = "CLOSED"]
                         ELSE Blank]
    /\ scr = [i \in 1 .. ScratchEntries |-> Unused]
    /\ mode = "up" /\ todo = <<>> /\ got = NONE /\ cur = 1
    /\ files = [f \in Files |-> 0]
    /\ spoilt = {} /\ writes = 0 /\ crashes = 0

-----------------------------------------------------------------------------
\* alloc_block()

\* The status a header read finds.  The block behind the last is the start of
\* the scratch area: its status byte belongs to the second entry.
StatusOf(b) ==
    IF b < Total THEN blk[b].st
    ELSE IF scr[2].st = "UNUSED" THEN "FREE" ELSE "DIRTY"

IsFree(b) == StatusOf(b) = "FREE"

\* Used by another serial number than sn.
Foreign(b, sn) == StatusOf(b) \in {"OPEN", "CLOSED"} /\ blk[b].sn # sn

Hinted(h) == LET top == (h \div E + 1) * E IN {b \in h + 1 .. top - 1 : IsFree(b)}

\* The free blocks that come before any foreign block of their window; windows
\* start at first and are E blocks long.
InSection(first, sn) ==
    {b \in first .. Total :
        LET w == b - ((b - first) % E)
        IN  w < Total /\ IsFree(b) /\ ~ \E c \in w .. b : Foreign(c, sn)}

Anywhere == {b \in 1 .. Total - 1 : IsFree(b)}

\* The first block found by the three searches; NONE for BLOCK_INVALID.
AllocBlock(sn, hint) ==
    LET h == IF hint = NONE THEN NONE ELSE Max({hint, 1})
        first == IF h = NONE THEN 1 ELSE (h \div E + 1) * E
        s1 == IF h = NONE THEN {} ELSE Hinted(h)
        s2 == InSection(first, sn)
    IN  CASE s1 # {} -> Min(s1)
          [] s1 = {} /\ s2 # {} -> Min(s2)
          [] s1 = {} /\ s2 = {} /\ Anywhere # {} -> Min(Anywhere)
          [] OTHER -> NONE

\* erase_dirty_blocks()

SectionOf(s) == s * E .. s * E + E - 1
Written(s)   == {b \in SectionOf(s) : blk[b].st = "CLOSED"}

\* No block of the serial number list, no open and no free one.
Movable(s) ==
    \A b \in SectionOf(s) :
        /\ blk[b].st = "CLOSED" => blk[b].sn # 0
        /\ blk[b].st # "OPEN"
        /\ blk[b].st = "FREE" => b = 0

\* max_written of the passes cl_block_alloc() makes, one after the other.
Limit == <<E \div 16, E \div 8, E \div 4, E \div 2, (E * 3) \div 4>>

Sweepable(pass, from) ==
    {s \in from .. Sections - 1 : Movable(s) /\ Cardinality(Written(s)) < Limit[pass]}

\* The entries that come before the first unused one.
Listed == {i \in DOMAIN scr : \A j \in 1 .. i : scr[j].st # "UNUSED"}
\* Mutant: nothing is waiting in the scratch area.
Pending_None == {}
\* The ones cl_scratch_restore() will restore.
Pending == {i \in Listed : scr[i].st = "COPIED"}

Capacity == ScratchEntries - Cardinality(Listed)

\* The members of S in ascending order.
UpTo(S, b)   == {c \in S : c <= b}
Ascending(S) == [i \in 1 .. Cardinality(S) |-> CHOOSE b \in S : Cardinality(UpTo(S, b)) = i]

\* Mutant: the section is erased before its blocks are saved.
EraseDirty_EraseFirst(s) ==
    <<<<"erase", s>>>>
    \o [i \in 1 .. Cardinality(Written(s)) |-> <<"save", Ascending(Written(s))[i]>>]
    \o <<<<"restore", 1>>>>
\* erase_dirty_block(): the calls for one section.
EraseDirty(s) ==
    [i \in 1 .. Cardinality(Written(s)) |-> <<"save", Ascending(Written(s))[i]>>]
    \o <<<<"erase", s>>, <<"restore", 1>>>>

SweepOne(s) ==
    (IF Cardinality(Written(s)) > Capacity THEN <<<<"erase_scratch">>>> ELSE <<>>)
    \o EraseDirty(s)

-----------------------------------------------------------------------------
\* The interpreter.

Busy(op) == mode # "failed" /\ todo # <<>> /\ Head(todo)[1] = op
Then(more) == todo' = more \o Tail(todo)

\* A call that fails makes its callers fail: a client's call ends, a mount goes
\* on only when it was the copying of the serial number list that failed.
Fail ==
    LET rest == {i \in DOMAIN todo : todo[i][1] = "clean"}
    IN  /\ todo' = IF mode = "boot" /\ rest # {} THEN SubSeq(todo, Min(rest), Len(todo))
                                                ELSE <<>>
        /\ mode' = IF mode = "boot" /\ rest = {} THEN "failed" ELSE mode

Keep == UNCHANGED <<mode, got, cur, files, spoilt, writes, crashes>>
KeepButMode == UNCHANGED <<got, cur, files, spoilt, writes, crashes>>

\* cl_dev_write() of new over old clears bits, and fails when what is read back
\* is not what was written.
Over(old, new) ==
    IF old = Blank \/ old = new THEN new
    ELSE [new EXCEPT !.st = IF Rank(old.st) > Rank(new.st) THEN old.st ELSE new.st,
                     !.ver = IF old.ver = new.ver /\ old.sn = new.sn THEN @ ELSE NONE]

\* cl_block_alloc(): allocate, or make the next pass that finds a section to
\* erase and try again.
Alloc ==
    LET sn == Head(todo)[2]
        hint == Head(todo)[3]
        pass == Head(todo)[4]
        b == AllocBlock(sn, hint)
        more == {p \in pass + 1 .. Len(Limit) : Sweepable(p, 0) # {}}
    IN  /\ Busy("alloc")
        /\ IF b # NONE THEN Then(<<<<"mark", b, sn, hint, pass>>>>) /\ UNCHANGED mode
           ELSE IF more # {}
           THEN /\ Then(<<<<"sweep", Min(more), 0>>, <<"alloc", sn, hint, Min(more)>>>>)
                /\ UNCHANGED mode
           ELSE Fail
        /\ UNCHANGED flash /\ KeepButMode

\* Whether mark_allocated() reads back the header it has written, what
\* cl_dev_write() looks at after the write.  Behind the last block the header,
\* the serial number first, goes over the first two entries of the scratch area.
Marked(b, sn) ==
    CASE b # Total \/ scr[1].st = "UNUSED" \/ sn = 0 -> {TRUE}
      [] b = Total /\ scr[1].st = "STRUCK" /\ sn # 0 -> {FALSE}
      [] OTHER                                       -> BOOLEAN

\* mark_allocated().  When it fails cl_block_alloc() goes on with its next pass.
Mark ==
    LET b == Head(todo)[2]
        sn == Head(todo)[3]
        hint == Head(todo)[4]
        pass == Head(todo)[5]
    IN  /\ Busy("mark")
        /\ \E ok \in Marked(b, sn) :
              /\ IF ok
                 THEN /\ blk' = [blk EXCEPT ![b] = [Blank EXCEPT !.st = "OPEN", !.sn = sn]]
                      /\ got' = b
                      /\ Then(<<>>) /\ UNCHANGED mode
                 ELSE /\ IF pass < Len(Limit)
                         THEN /\ Then(<<<<"sweep", pass + 1, 0>>,
                                        <<"alloc", sn, hint, pass + 1>>>>)
                              /\ UNCHANGED mode
                         ELSE Fail
                      /\ UNCHANGED <<blk, got>>
              /\ spoilt' = spoilt
                    \cup (IF b = Total /\ (ok \/ scr[1].st # "STRUCK") THEN {"stray"} ELSE {})
                    \cup (IF \E i \in Pending : scr[i].orig = b THEN {"clash"} ELSE {})
        /\ scr' = IF b = Total THEN [scr EXCEPT ![1].st = "STRUCK", ![2].st = "STRUCK"] ELSE scr
        /\ UNCHANGED <<cur, files, writes, crashes>>

Sweep ==
    LET pass == Head(todo)[2]
        S == Sweepable(pass, Head(todo)[3])
    IN  /\ Busy("sweep")
        /\ IF S = {} THEN Then(<<>>)
                     ELSE Then(SweepOne(Min(S)) \o <<<<"sweep", pass, Min(S) + 1>>>>)
        /\ UNCHANGED flash /\ Keep

\* cl_scratch_saveblock(): the data first.  A scratch block that was written
\* without its entry is struck off, and the call fails.
Save ==
    LET b == Head(todo)[2]
        i == Cardinality(Listed) + 1
    IN  /\ Busy("save")
        /\ IF i > ScratchEntries THEN Fail /\ UNCHANGED scr
           ELSE IF scr[i].data # Blank
           THEN Fail /\ scr' = [scr EXCEPT ![i].st = "STRUCK"]
           ELSE /\ scr' = [scr EXCEPT ![i].data = blk[b]]
                /\ Then(<<<<"entry", i, b>>>>) /\ UNCHANGED mode
        /\ UNCHANGED blk /\ KeepButMode

SaveEntry ==
    LET i == Head(todo)[2]
    IN  /\ Busy("entry")
        /\ scr' = [scr EXCEPT ![i].st = "COPIED", ![i].orig = Head(todo)[3]]
        /\ Then(<<>>) /\ UNCHANGED blk /\ Keep

EraseSection ==
    /\ Busy("erase")
    /\ blk' = [b \in DOMAIN blk |-> IF b \in SectionOf(Head(todo)[2]) THEN Blank ELSE blk[b]]
    /\ Then(<<>>) /\ UNCHANGED scr /\ Keep

EraseScratch ==
    /\ Busy("erase_scratch")
    /\ scr' = [i \in DOMAIN scr |-> Unused]
    /\ blk' = [blk EXCEPT ![Total] = Blank]
    /\ Then(<<>>) /\ Keep

\* cl_scratch_restore() from entry n on: the next pending block goes back, its
\* entry is struck off, and so on with the entries behind it.
Restore ==
    LET n == Head(todo)[2]
        S == {j \in Pending : j >= n}
        i == Min(S)
        o == scr[i].orig
    IN  /\ Busy("restore")
        /\ IF S = {} THEN Then(<<>>) /\ UNCHANGED <<blk, mode>>
           ELSE /\ blk' = [blk EXCEPT ![o] = Over(@, scr[i].data)]
                /\ IF Over(blk[o], scr[i].data) = scr[i].data
                   THEN Then(<<<<"strike", i>>, <<"restore", i + 1>>>>) /\ UNCHANGED mode
                   ELSE Fail
        /\ UNCHANGED scr /\ KeepButMode

Strike ==
    /\ Busy("strike")
    /\ scr' = [scr EXCEPT ![Head(todo)[2]].st = "STRUCK"]
    /\ Then(<<>>) /\ UNCHANGED blk /\ Keep

-----------------------------------------------------------------------------
\* Calls of the file layer.

\* A new file, or a new version of one: allocate, append an OPEN item, commit.
\* (A file behind the last block is not followed further.)
WriteFile(f) ==
    LET old == blk[cur].at[f]
    IN  /\ mode = "up" /\ todo = <<>> /\ writes < MaxWrites
        /\ old # Total
        /\ todo' = <<<<"alloc", f, IF old = 0 THEN NONE ELSE old, 0>>,
                     <<"append", f>>, <<"commit", f>>>>
        /\ writes' = writes + 1
        /\ UNCHANGED flash /\ UNCHANGED <<mode, got, cur, files, spoilt, crashes>>

AppendOpen ==
    /\ Busy("append")
    /\ blk' = [blk EXCEPT ![cur].open = @ \cup {Head(todo)[2]}]
    /\ Then(<<>>) /\ UNCHANGED scr /\ Keep

\* The new version of a file differs from the old one.
NextVer(f) == IF files[f] = 1 THEN 2 ELSE 1

Commit ==
    LET f == Head(todo)[2]
        old == blk[cur].at[f]
        b1 == [blk EXCEPT ![got].st = "CLOSED", ![got].ver = NextVer(f),
                          ![cur].at[f] = got, ![cur].open = @ \ {f}]
    IN  /\ Busy("commit")
        /\ blk' = IF old = 0 THEN b1 ELSE [b1 EXCEPT ![old].st = "DIRTY"]
        /\ files' = [files EXCEPT ![f] = NextVer(f)]
        /\ Then(<<>>)
        /\ UNCHANGED <<scr, mode, got, cur, spoilt, writes, crashes>>

\* cl_file_remove()
RemoveFile(f) ==
    LET b == blk[cur].at[f]
    IN  /\ mode = "up" /\ todo = <<>> /\ writes < MaxWrites
        /\ b # 0
        /\ blk' = [blk EXCEPT ![b].st = "DIRTY", ![cur].at[f] = 0]
        /\ files' = [files EXCEPT ![f] = 0]
        /\ writes' = writes + 1
        /\ UNCHANGED <<scr, mode, todo, got, cur, spoilt, crashes>>

-----------------------------------------------------------------------------
\* Power failure and cafs_lite_init()

\* The scratch area is restored after the serial number list has been copied
\* and the files have been cleaned.
BootCalls == <<<<"find", 0>>, <<"clean">>, <<"restore", 1>>>>

\* The window in which the new serial number list is complete and the old one
\* is not yet DISCARDING.
InTwinWindow == Busy("discarding")

Crash ==
    /\ mode # "failed" /\ crashes < MaxCrashes
    /\ mode' = "boot" /\ todo' = BootCalls
    /\ got' = NONE /\ cur' = NONE
    /\ crashes' = crashes + 1
    /\ spoilt' = IF InTwinWindow THEN spoilt \cup {"twin"} ELSE spoilt
    /\ UNCHANGED flash /\ UNCHANGED <<files, writes>>

BootDone ==
    /\ mode = "boot" /\ todo = <<>>
    /\ mode' = "up"
    /\ UNCHANGED flash /\ UNCHANGED <<todo, got, cur, files, spoilt, writes, crashes>>

\* Mutant: the old list is discarded before it is copied.
Consolidate_DiscardFirst(b) ==
    <<<<"alloc", 0, b, 0>>, <<"discarding">>, <<"discard">>, <<"copy">>, <<"close">>,
      <<"switch">>>>
\* consolidate_list()
Consolidate(b) ==
    <<<<"alloc", 0, b, 0>>, <<"copy">>, <<"discarding">>, <<"close">>,
      <<"discard">>, <<"switch">>>>

\* A block that holds a serial number list.
IsList(b) == blk[b].sn = 0 /\ blk[b].st \in {"OPEN", "CLOSED"}

IsCurrent(b) == IsList(b) /\ blk[b].zero = "CLOSED"

\* find_list_block() at the next block that holds a list: the list is found and
\* made sure to be closed, or the discarding of an old one is completed.
Find ==
    LET S == {b \in Head(todo)[2] .. Total - 1 : IsList(b) /\ blk[b].zero \in {"CLOSED", "DISCARDING"}}
        b == Min(S)
    IN  /\ Busy("find")
        /\ IF S = {} THEN /\ mode' = "failed" /\ todo' = <<>>
                          /\ UNCHANGED <<blk, cur>>
           ELSE IF IsCurrent(b)
           THEN /\ cur' = b
                /\ blk' = [blk EXCEPT ![b].st = "CLOSED"]
                /\ Then(Consolidate(b)) /\ UNCHANGED mode
           ELSE /\ blk' = [blk EXCEPT ![b].st = "DIRTY"]
                /\ Then(<<<<"zero", b>>, <<"find", b + 1>>>>) /\ UNCHANGED <<mode, cur>>
        /\ UNCHANGED <<scr, got, files, spoilt, writes, crashes>>

FindZero ==
    /\ Busy("zero")
    /\ blk' = [blk EXCEPT ![Head(todo)[2]].zero = "DIRTY"]
    /\ Then(<<>>) /\ UNCHANGED scr /\ Keep

\* cl_list_consolidate(): everything but the dirty items is copied; the new
\* list is OPEN and its zero entry CLOSED.
Copy ==
    /\ Busy("copy")
    /\ blk' = [blk EXCEPT ![got] = [blk[cur] EXCEPT !.st = "OPEN"]]
    /\ Then(<<>>) /\ UNCHANGED scr /\ Keep

MarkDiscarding ==
    /\ Busy("discarding")
    /\ blk' = [blk EXCEPT ![cur].zero = "DISCARDING"]
    /\ Then(<<>>) /\ UNCHANGED scr /\ Keep

CloseNew ==
    /\ Busy("close")
    /\ blk' = [blk EXCEPT ![got].st = "CLOSED"]
    /\ Then(<<>>) /\ UNCHANGED scr /\ Keep

DiscardOld ==
    /\ Busy("discard")
    /\ blk' = [blk EXCEPT ![cur].st = "DIRTY"]
    /\ Then(<<>>) /\ UNCHANGED scr /\ Keep

SwitchList ==
    /\ Busy("switch")
    /\ blk' = [blk EXCEPT ![cur].zero = "DIRTY"]
    /\ cur' = got
    /\ Then(<<>>) /\ UNCHANGED <<scr, mode, got, files, spoilt, writes, crashes>>

\* cl_file_clean() of files that were open; their blocks are discarded at the end.
Clean ==
    LET dirty == blk[cur].open # {}
    IN  /\ Busy("clean")
        /\ blk' = [blk EXCEPT ![cur].open = {}]
        /\ todo' = Tail(todo) \o (IF dirty THEN <<<<"discardopen">>>> ELSE <<>>)
        /\ UNCHANGED scr /\ Keep

\* cl_block_discardopen(), one block at a time.
DiscardOpen ==
    LET S == {b \in 1 .. Total - 1 : blk[b].st = "OPEN"}
    IN  /\ Busy("discardopen")
        /\ IF S = {} THEN Then(<<>>) /\ UNCHANGED blk
                     ELSE /\ blk' = [blk EXCEPT ![Min(S)].st = "DIRTY"]
                          /\ UNCHANGED todo
        /\ UNCHANGED scr /\ Keep

-----------------------------------------------------------------------------
Work ==
    \/ Alloc \/ Mark \/ Sweep \/ Save \/ SaveEntry \/ EraseSection \/ EraseScratch
    \/ Restore \/ Strike \/ AppendOpen \/ Commit
    \/ BootDone \/ Find \/ FindZero \/ Copy \/ MarkDiscarding \/ CloseNew
    \/ DiscardOld \/ SwitchList \/ Clean \/ DiscardOpen

FlashNext ==
    \/ Work \/ Crash
    \/ \E f \in Files : WriteFile(f) \/ RemoveFile(f)

FlashSpec == FlashInit /\ [][FlashNext]_flashVars

-----------------------------------------------------------------------------
Content == [st : {"FREE", "OPEN", "CLOSED", "DIRTY"}, sn : Files \cup {0, NONE},
            ver : {NONE, 0, 1, 2}, zero : {"FREE", "CLOSED", "DISCARDING", "DIRTY"},
            at : [Files -> 0 .. Total], open : SUBSET Files]

FlashTypeOK ==
    /\ blk \in [0 .. Total -> Content]
    /\ scr \in [1 .. ScratchEntries ->
                  [st : {"UNUSED", "COPIED", "STRUCK"}, orig : 0 .. Total \cup {NONE}, data : Content]]
    /\ mode \in {"up", "boot", "failed"}
    /\ got \in 0 .. Total \cup {NONE} /\ cur \in 0 .. Total \cup {NONE}
    /\ files \in [Files -> 0 .. 2]
    /\ spoilt \subseteq {"stray", "clash", "twin"}
    /\ writes \in 0 .. MaxWrites /\ crashes \in 0 .. MaxCrashes

\* A block of a file is where its header says, or waits in the scratch area.
Holds(b, f) ==
    LET ok(d) == d.st = "CLOSED" /\ d.sn = f /\ d.ver = files[f]
    IN  ok(blk[b]) \/ \E i \in Pending : scr[i].orig = b /\ ok(scr[i].data)

\* Once the device is mounted its serial number list names exactly the files
\* that were committed, and each of them has the contents of its last version.
AllThere ==
    mode = "up" =>
        \A f \in Files :
            LET b == blk[cur].at[f]
            IN  IF files[f] = 0 THEN b = 0 ELSE b # 0 /\ Holds(b, f)

\* AllThere, whenever and however often power fails, unless a block behind the
\* last one was allocated, one that the scratch area had to restore, or power
\* failed while there were two complete serial number lists.
Durable == spoilt = {} => AllThere

\* Under the same exceptions a device can always be mounted.
Mountable == spoilt = {} => mode # "failed"

\* At no moment, not even between the erasing of a section and its restoring,
\* is the only copy of a committed file outside of the blocks and the pending
\* entries of the scratch area, nor are all copies of the serial number list gone.
NothingInRam ==
    spoilt = {} =>
        \E l \in 1 .. Total - 1 :
            /\ IsList(l) /\ blk[l].zero \in {"CLOSED", "DISCARDING"}
            /\ \A f \in Files : files[f] # 0 => blk[l].at[f] # 0 /\ Holds(blk[l].at[f], f)
=============================================================================
