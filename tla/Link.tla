-------------------------------- MODULE Link ---------------------------------
(***************************************************************************)
(* The link between a host (src/link) and a device: the packet protocol of *)
(* hwpl/share/link_protocol*.c, the host's calls and its recovery in       *)
(* link_handle_err(), and the device's command loop (sys/link/link.c).     *)
(*                                                                         *)
(* A call sends the packets of its command one by one, each acknowledged   *)
(* by its checksum, and then reads the device's answer.  Packets have no   *)
(* numbers.  After an error the host sends packets of length zero until    *)
(* one is acknowledged, and drops what is still to be read.                *)
(*                                                                         *)
(* A packet or an acknowledgement is one element of the line: each side    *)
(* writes it with one call.  The device's physical layer is the one of     *)
(* the boot loader, link_phy_usb.c: it blocks, and does not flush.         *)
(*                                                                         *)
(* Command has one command of each of six shapes: no argument, with a      *)
(* reply or with a reply and data; one path; two paths; data from the      *)
(* device; data from the host.                                             *)
(***************************************************************************)
EXTENDS Naturals, Sequences, SequencesExt

CONSTANTS
    MaxTries,    \* MAX_TRIES of link.c
    MaxCalls,    \* bound: calls in a behaviour
    MaxFaults,   \* bound: elements of the line that are lost or damaged
    MaxTimeouts, \* bound: time-outs of the host while the device is at work
    MaxAborts    \* bound: calls in which the host is killed

ASSUME LinkAssumption ==
    /\ MaxTries \in Nat \ {0} /\ MaxCalls \in Nat /\ MaxFaults \in Nat
    /\ MaxTimeouts \in Nat /\ MaxAborts \in Nat

VARIABLES
    host,      \* the call the host is in, or its last one
    dev,       \* the device's command loop
    down, up,  \* the line to and from the device
    executed,  \* history: the commands executed, complete, since the call began
    slips,     \* history: why host and device may be out of step
    calls, faults, timeouts, aborts  \* counters for the bounds

bounds == <<calls, faults, timeouts, aborts>>
linkVars == <<host, dev, down, up, executed, slips, bounds>>

Command == {"readserialno", "close", "unlink", "rename", "read", "write"}

\* What a packet contains: a part of a command or of an answer.
Zero       == <<"zero", "zero">>
Body(p, c) == <<p, c>>
Bodies     == {Zero} \cup ({"op", "path", "new", "first", "last", "data"} \X Command)
                     \cup ({"reply"} \X {"fail", "zero", "count"})

\* Different contents have different checksums, and damage is always seen.
Garbled(x) == <<"garbled", x>>
Packet(b)  == [start |-> TRUE,  body |-> b, sum |-> b]
\* The acknowledgement's first byte is not looked at by wait_ack().
Ack(s)     == [start |-> FALSE, body |-> <<"ack", "ack">>, sum |-> s]
Nack(s)    == [start |-> FALSE, body |-> <<"nack", "nack">>, sum |-> s]

\* Mutant: the checksum is not looked at.
ChecksumIsOk_Skipped(p) == p.start
\* link_protocol_checksum_isok(), of what begins like a packet.
ChecksumIsOk(p) == p.start /\ p.body = p.sum
\* pkt.size == LINK_PACKET_DATA_SIZE: the transfer goes on.
Full(p)         == p.body[1] = "first"

\* The packets that the host writes for a command.
Packets(c) ==
    <<Body("op", c)>> \o
    (CASE c = "unlink" -> <<Body("path", c)>>
       [] c = "rename" -> <<Body("path", c), Body("new", c)>>
       [] c = "write"  -> <<Body("first", c), Body("last", c)>>
       [] OTHER        -> <<>>)

\* The transfers it then reads.
Answers(c) == CASE c = "readserialno" -> <<"reply", "data">>
                [] c = "read"         -> <<"data", "reply">>
                [] OTHER              -> <<"reply">>

Result == {"none", "ok", "dev", "prot", "phy", "killed"}

Idle == [pc |-> "idle", cmd |-> "close", i |-> 1, tries |-> 0, wrong |-> FALSE,
         result |-> "none", open |-> FALSE]

LinkInit ==
    /\ host = Idle
    /\ dev = [pc |-> "op", cmd |-> "none", got |-> 0, wrong |-> FALSE, err |-> "zero"]
    /\ down = <<>> /\ up = <<>>
    /\ executed = {} /\ slips = {}
    /\ calls = 0 /\ faults = 0 /\ timeouts = 0 /\ aborts = 0

-----------------------------------------------------------------------------
(* The host.  link_connect() reads the serial number before anything else. *)

\* What leaves host and device in step, and ends with the call.
Mild == {"unread", "hidden"}

Call(c) ==
    /\ host.pc = "idle" /\ calls < MaxCalls
    /\ host.open \/ c = "readserialno"
    /\ host' = [Idle EXCEPT !.pc = "ack", !.cmd = c, !.open = host.open]
    /\ down' = Append(down, Packet(Packets(c)[1]))
    /\ executed' = {} /\ slips' = slips \ Mild
    /\ calls' = calls + 1
    /\ UNCHANGED <<dev, up, faults, timeouts, aborts>>

\* The host returns, and is connected once it has read the right serial number.
Returns(r) ==
    [host EXCEPT !.pc = "idle", !.result = r,
                 !.open = IF host.cmd = "readserialno" THEN r = "ok" /\ ~host.wrong
                                                       ELSE @]

\* An answer to the packet that was sent last: ACK or NACK, with its checksum.
Acknowledges(t, b) == ~t.start /\ t.sum = b

\* link_protocol_masterwrite() goes on after wait_ack().
HostAck ==
    /\ host.pc = "ack" /\ up # <<>>
    /\ Acknowledges(Head(up), Packets(host.cmd)[host.i])
    /\ up' = Tail(up)
    /\ \/ /\ host.i < Len(Packets(host.cmd))
          /\ host' = [host EXCEPT !.i = @ + 1]
          /\ down' = Append(down, Packet(Packets(host.cmd)[host.i + 1]))
       \/ /\ host.i = Len(Packets(host.cmd))
          /\ host' = [host EXCEPT !.pc = "read", !.i = 1]
          /\ UNCHANGED down
    /\ UNCHANGED <<dev, executed, slips, bounds>>

\* What the host makes of a reply; link_readserialno() returns 0 for any of
\* them, and reads the number only if the reply is positive.
Outcome(b) == IF host.cmd # "readserialno" /\ b = Body("reply", "fail") THEN "dev"
                                                                        ELSE "ok"

\* link_protocol_masterread(): any packet with a good checksum is the answer.
HostRead ==
    /\ host.pc = "read" /\ up # <<>> /\ ChecksumIsOk(Head(up))
    /\ up' = Tail(up)
    /\ LET b    == Head(up).body
           ans  == Answers(host.cmd)
           last == host.i = Len(ans)
           data == ans[host.i] = "data"
           isIt == b = Body("data", host.cmd) \/ (b = Zero /\ host.cmd = "read")
       IN  host' = CASE last /\ data  -> Returns(IF isIt THEN "ok" ELSE "dev")
                     [] last /\ ~data -> Returns(Outcome(b))
                     [] ~last /\ data -> [host EXCEPT !.i = @ + 1, !.wrong = ~isIt]
                     [] OTHER         -> IF b = Body("reply", "count")
                                         THEN [host EXCEPT !.i = @ + 1]
                                         ELSE [Returns("ok") EXCEPT !.open = FALSE]
    /\ UNCHANGED <<dev, down, executed, slips, bounds>>

\* Which errors go to link_handle_err(): link_unlink(), link_rename() and the
\* end of link_readserialno() return them as they are.
Recovers == /\ host.cmd \notin {"unlink", "rename"}
            /\ ~(host.cmd = "readserialno" /\ host.pc = "read" /\ host.i = 2)

\* Whether another packet of length zero may be sent.
TriesLeft == host.tries + 1 < MaxTries

\* LINK_PROT_ERROR: "rest" stays on the line, and link_handle_err() sends
\* packets of length zero.
Failed(why, rest) ==
    /\ up' = rest
    /\ \/ /\ host.pc # "resync" /\ Recovers
          /\ host' = [host EXCEPT !.pc = "resync"]
          /\ down' = Append(down, Packet(Zero))
          /\ slips' = (slips \ {"damaged"}) \cup why
       \/ /\ host.pc # "resync" /\ ~Recovers
          /\ host' = Returns("prot")
          /\ slips' = slips \cup why \cup {"unreset"}
          /\ UNCHANGED down
       \/ /\ host.pc = "resync" /\ TriesLeft
          /\ host' = [host EXCEPT !.tries = @ + 1]
          /\ down' = Append(down, Packet(Zero))
          /\ slips' = slips \cup why
       \/ /\ host.pc = "resync" /\ ~TriesLeft
          /\ host' = Returns("phy")
          /\ slips' = slips \cup why \cup {"unreset"}
          /\ UNCHANGED down

\* What is not to be read any more is dropped - except after a bad checksum,
\* if link_handle_err() does not do it.
Flushed == IF host.pc = "read" /\ ~Recovers /\ Head(up).start THEN Tail(up) ELSE <<>>

\* Something else than the host waits for is read.
HostMismatch ==
    /\ up # <<>>
    /\ \/ host.pc = "ack"    /\ ~Acknowledges(Head(up), Packets(host.cmd)[host.i])
       \/ host.pc = "resync" /\ ~Acknowledges(Head(up), Zero)
       \/ host.pc = "read"   /\ ~ChecksumIsOk(Head(up))
    /\ Failed({}, Flushed)
    /\ UNCHANGED <<dev, executed, bounds>>

\* The device is blocked in a read and has nothing to read.
Quiet == down = <<>> /\ dev.pc \in {"op", "arg"}

\* Mutant: only the host's writes give up.
HostTimeout_WritesOnly ==
    /\ host.pc \in {"ack", "resync"} /\ up = <<>> /\ Quiet /\ Failed({}, <<>>)
    /\ UNCHANGED <<dev, executed, bounds>>

\* Nothing is read for TIMEOUT_VALUE milliseconds; "late": the device was
\* only slow.
HostTimeout ==
    /\ host.pc \in {"ack", "read", "resync"} /\ up = <<>>
    /\ \/ Quiet /\ Failed({}, <<>>) /\ UNCHANGED timeouts
       \/ /\ ~Quiet /\ timeouts < MaxTimeouts
          /\ timeouts' = timeouts + 1 /\ Failed({"late"}, <<>>)
    /\ UNCHANGED <<dev, executed, calls, faults, aborts>>

\* A packet of length zero is acknowledged.
HostResynced ==
    /\ host.pc = "resync" /\ up # <<>> /\ Acknowledges(Head(up), Zero)
    /\ up' = Tail(up) /\ host' = [host EXCEPT !.pc = "settle"]
    /\ UNCHANGED <<dev, down, executed, slips, bounds>>

\* Mutant: what has come in is not thrown away.
HostSettle_NoFlush ==
    /\ host.pc = "settle" /\ host' = Returns("prot")
    /\ UNCHANGED <<dev, down, up, executed, slips, bounds>>

\* link_phy_wait(10) and a last flush: in time if the device is done by then.
\* The acknowledgement may have been that of an earlier packet of length zero,
\* so of a line that was out of step all of them have to arrive.  A device that
\* has taken one for a part of a command may go on waiting for the rest.
HostSettle ==
    /\ host.pc = "settle"
    /\ up' = <<>> /\ host' = Returns("prot")
    /\ slips' = CASE ~Quiet -> slips \cup {"late"}
                   [] Quiet /\ ("damaged" \in slips \/ dev.pc # "op") -> slips
                   [] OTHER  -> slips \cap Mild
    /\ UNCHANGED <<dev, down, executed, bounds>>

\* The host's program is killed in a call; the next one opens the line anew.
Abort ==
    /\ host.pc # "idle" /\ aborts < MaxAborts
    /\ aborts' = aborts + 1
    /\ host' = [Idle EXCEPT !.result = "killed"] /\ up' = <<>>
    /\ slips' = slips \cup {"abort"}
    /\ UNCHANGED <<dev, down, executed, calls, faults, timeouts>>

-----------------------------------------------------------------------------
(* The device: link_update(), one packet at a time.                        *)

TakesArgument(c) == c \in {"unlink", "rename", "write"}

\* What a packet is taken for that comes where a command is expected.  A path
\* begins with a byte beyond LINK_CMD_TOTAL; data may begin with any.  A write
\* to the link's own descriptor fails before its data are read, and is like an
\* unknown command.
TakenFor(p) ==
    CASE dev.got = 0 /\ p.body[1] = "op" ->
             {p.body[2]} \cup IF p.body[2] = "write" THEN {"unknown"} ELSE {}
      [] dev.got = 0 /\ p.body[1] \in {"path", "new"} -> {"unknown"}
      [] OTHER -> Command \cup {"unknown", "none"}

\* A packet that is none of the host's commands is taken for one.
Mistaken(p, c) == c \in Command /\ ~(dev.got = 0 /\ p.body = Body("op", c))

\* The command begins: link_cmd_none() does nothing, and is not answered;
\* link_cmd_rename() sets the reply to 0.
Begins(p, c) ==
    dev' = [dev EXCEPT !.cmd = c, !.got = 0, !.wrong = Mistaken(p, c),
              !.err = IF c = "rename" THEN "zero" ELSE @,
              !.pc = CASE c = "none"         -> "op"
                       [] TakesArgument(c) -> "arg"
                       [] OTHER              -> "exec"]

\* Whether a transfer goes on after a packet, if the command was none that
\* the host has sent: its sizes may be any.
Longer(p) == IF Full(p) /\ dev.wrong THEN BOOLEAN ELSE {FALSE}

\* link_protocol_slaveread() for a command, and link_update()'s dispatch on
\* its first byte.  A full packet is the beginning of a longer transfer, which
\* a packet of length zero may end.
DevCommand ==
    /\ dev.pc = "op" /\ down # <<>>
    /\ LET p == Head(down)
       IN  \/ /\ ~ChecksumIsOk(p) /\ up' = Append(up, Nack(p.sum))
              /\ dev' = [dev EXCEPT !.got = 0] /\ UNCHANGED slips
           \/ /\ ChecksumIsOk(p) /\ up' = Append(up, Ack(p.sum))
              /\ \/ dev.got = 0 /\ Full(p) /\ dev' = [dev EXCEPT !.got = 1] /\ UNCHANGED slips
                 \/ dev.got = 0 /\ p.body = Zero /\ UNCHANGED <<dev, slips>>
                 \/ /\ dev.got = 1 \/ ~(Full(p) \/ p.body = Zero)
                    /\ \E c \in TakenFor(p) :
                          /\ Begins(p, c)
                          /\ slips' = slips \cup IF Mistaken(p, c) THEN {"mistaken"} ELSE {}
    /\ down' = Tail(down)
    /\ UNCHANGED <<host, executed, bounds>>

\* link_cmd_unlink(): without a path it returns, and the reply is the last one.
\* The path of something that was no command may be longer than a packet.
DevPath ==
    /\ dev.pc = "arg" /\ dev.cmd = "unlink" /\ down # <<>>
    /\ LET p == Head(down)
       IN  \/ /\ ~ChecksumIsOk(p)
              /\ dev' = [dev EXCEPT !.pc = "reply", !.wrong = TRUE]
              /\ up' = Append(up, Nack(p.sum)) /\ slips' = slips \cup {"unread"}
           \/ /\ ChecksumIsOk(p)
              /\ \E more \in Longer(p) :
                    dev' = [dev EXCEPT !.pc = IF more THEN "arg" ELSE "exec",
                                       !.wrong = @ \/ p.body # Body("path", "unlink")]
              /\ up' = Append(up, Ack(p.sum)) /\ UNCHANGED slips
    /\ down' = Tail(down)
    /\ UNCHANGED <<host, executed, bounds>>

\* link_cmd_rename() reads two paths, whatever becomes of the first; one that
\* is not read, or has not the size of the command, makes the reply an error.
DevRename ==
    /\ dev.pc = "arg" /\ dev.cmd = "rename" /\ down # <<>>
    /\ LET p    == Head(down)
           isIt == ChecksumIsOk(p) /\ p.body = Packets("rename")[dev.got + 2]
       IN  /\ up' = Append(up, IF ChecksumIsOk(p) THEN Ack(p.sum) ELSE Nack(p.sum))
           /\ \/ TRUE \in Longer(p) /\ ChecksumIsOk(p) /\ dev' = [dev EXCEPT !.wrong = TRUE]
              \/ \E e \in IF ~ChecksumIsOk(p) THEN {"fail"}
                         ELSE IF isIt /\ ~dev.wrong THEN {dev.err} ELSE {dev.err, "fail"} :
                    dev' = [dev EXCEPT !.wrong = @ \/ ~isIt, !.err = e, !.got = 1 - @,
                              !.pc = CASE dev.got = 0 -> "arg"
                                       [] dev.got = 1 /\ e = "fail" -> "reply"
                                       [] OTHER -> "exec"]
    /\ down' = Tail(down)
    /\ UNCHANGED <<host, executed, slips, bounds>>

\* link_cmd_write(): each packet goes to write(), which may fail.
DevWrite ==
    /\ dev.pc = "arg" /\ dev.cmd = "write" /\ down # <<>>
    /\ LET p    == Head(down)
           want == Packets("write")[dev.got + 2]
           goes == IF dev.wrong THEN Longer(p) ELSE {Full(p) /\ dev.got = 0}
       IN  \/ /\ dev' = [dev EXCEPT !.pc = "reply", !.got = 0, !.err = "fail", !.wrong = TRUE]
              /\ up' = Append(up, Nack(p.sum))
           \/ /\ ChecksumIsOk(p)
              /\ \E more \in goes :
                    dev' = [dev EXCEPT !.pc = IF more THEN "arg" ELSE "reply",
                                       !.got = IF more THEN 1 ELSE 0,
                                       !.wrong = @ \/ p.body # want,
                                       !.err = IF more THEN @ ELSE "count"]
              /\ up' = Append(up, Ack(p.sum))
    /\ down' = Tail(down)
    /\ UNCHANGED <<host, executed, slips, bounds>>

\* What the device sends for a command besides and before the reply.
\* link_protocol_slavewrite() sends a packet of length zero if read() has
\* nothing or fails; the link's own descriptor is not read, and nothing sent.
Sent(c, err) ==
    CASE c = "readserialno" -> <<Packet(Body("reply", err)), Packet(Body("data", c))>>
      [] c = "read" /\ err # "fail" ->
                               <<Packet(IF err = "zero" THEN Zero ELSE Body("data", c)),
                                 Packet(Body("reply", err))>>
      [] OTHER              -> <<Packet(Body("reply", err))>>

\* The replies of a command.
Errors(c) == CASE c = "readserialno" -> {"count"}
               [] c = "read"         -> {"count", "zero", "fail"}
               [] c = "unknown"      -> {"fail"}
               [] OTHER              -> {"zero", "fail"}

\* The command is executed, and the reply sent: that of a read() which failed
\* is the one of a read() that has found nothing.
DevExec ==
    /\ dev.pc = "exec"
    /\ \E e \in Errors(dev.cmd) :
          /\ up' = up \o Sent(dev.cmd, e)
          /\ dev' = [dev EXCEPT !.pc = "op", !.cmd = "none", !.err = e, !.wrong = FALSE]
          /\ \/ /\ executed' = executed \cup IF dev.wrong \/ e = "fail" THEN {} ELSE {dev.cmd}
                /\ UNCHANGED slips
             \/ /\ dev.cmd = "read" /\ e = "zero"
                /\ slips' = slips \cup {"hidden"} /\ UNCHANGED executed
    /\ UNCHANGED <<host, down, bounds>>

\* The command is over, and the reply is what data.reply holds.
DevReply ==
    /\ dev.pc = "reply"
    /\ up' = up \o Sent(dev.cmd, dev.err)
    /\ dev' = [dev EXCEPT !.pc = "op", !.cmd = "none", !.got = 0, !.wrong = FALSE]
    /\ executed' = executed \cup IF dev.wrong THEN {} ELSE {dev.cmd}
    /\ UNCHANGED <<host, down, slips, bounds>>

-----------------------------------------------------------------------------
(* The line loses or damages the next element, in its data or its checksum *)
(* (a damaged length is not modelled).                                     *)

Damaged(t) == {[t EXCEPT !.body = Garbled("data")], [t EXCEPT !.sum = Garbled("checksum")]}

Fault ==
    /\ faults < MaxFaults /\ faults' = faults + 1
    /\ \/ /\ down # <<>> /\ UNCHANGED up
          /\ \/ down' = Tail(down)
             \/ \E t \in Damaged(Head(down)) : down' = <<t>> \o Tail(down)
       \/ /\ up # <<>> /\ UNCHANGED down
          /\ \/ up' = Tail(up)
             \/ \E t \in Damaged(Head(up)) : up' = <<t>> \o Tail(up)
    /\ slips' = slips \cup IF host.pc \in {"resync", "settle"} /\ slips \ Mild # {}
                             THEN {"damaged"} ELSE {}
    /\ UNCHANGED <<host, dev, executed, calls, timeouts, aborts>>

HostNext == HostAck \/ HostRead \/ HostMismatch \/ HostTimeout \/ HostResynced \/ HostSettle
DevNext  == DevCommand \/ DevPath \/ DevRename \/ DevWrite \/ DevExec \/ DevReply

LinkNext == (\E c \in Command : Call(c)) \/ HostNext \/ DevNext \/ Abort \/ Fault

\* Both programs run; the caller, the line and whoever kills the host are free.
LinkSpec == LinkInit /\ [][LinkNext]_linkVars /\ WF_linkVars(HostNext) /\ WF_linkVars(DevNext)

-----------------------------------------------------------------------------
Sums    == Bodies \cup {Garbled("checksum")}
Element == [start : BOOLEAN, sum : Sums,
            body : Bodies \cup {Garbled("data"), <<"ack", "ack">>, <<"nack", "nack">>}]

\* The types of the variables; the device never holds a command that takes an
\* argument anywhere but at the argument, and the host counts its packets,
\* transfers and tries within their limits (link.c, link_protocol_slaveread()).
LinkTypeOK ==
    /\ host \in [pc : {"idle", "ack", "read", "resync", "settle"}, cmd : Command,
                 i : 1..3, tries : 0..(MaxTries - 1), wrong : BOOLEAN,
                 result : Result, open : BOOLEAN]
    /\ dev \in [pc : {"op", "arg", "exec", "reply"}, cmd : Command \cup {"none", "unknown"},
                got : 0..1, wrong : BOOLEAN, err : {"fail", "zero", "count"}]
    /\ dev.pc = "arg" => TakesArgument(dev.cmd)
    /\ down \in Seq(Element) /\ up \in Seq(Element)
    /\ executed \subseteq Command \cup {"unknown"}
    /\ slips \subseteq {"late", "unreset", "abort", "unread", "hidden", "mistaken", "damaged"}

\* Nothing is on the line, and the device waits for a command.
NothingPending == down = <<>> /\ up = <<>> /\ dev.pc = "op" /\ dev.got = 0

\* Between calls host and device are in step whatever was lost or damaged, as
\* soon as link_handle_err() has once ended in time, with a device that waits
\* for a command, after the last late answer, kill, error without recovery or
\* data that were taken for a command.
InStep == host.pc = "idle" /\ slips \subseteq Mild => NothingPending

\* A call that succeeds was executed, once at least and with its whole
\* argument, after the host made it - not the call before it, and not another
\* command (the reply of link_file.c's functions) - unless the device's read()
\* has failed unseen, or host and device were out of step for another reason.
Success  == host.cmd \in executed /\ ~host.wrong
Truthful == host.pc = "idle" /\ host.result = "ok" /\ slips = {} => Success

\* Every call returns, whatever the line does (the tries of link_handle_err()
\* are counted, and every read of the host has a time-out).
CallEnds == host.pc # "idle" ~> host.pc = "idle"
=============================================================================
