-------------------------------- MODULE Disk --------------------------------
(***************************************************************************)
(* The disk driver (include/comm/disk.h): read_disk and write_disk,        *)
(* port access by port access, against an ATA disk that works on its own.  *)
(*                                                                         *)
(* An address is four bytes and a sector count two; each byte register of  *)
(* the disk remembers the byte written before (LBA48).  After a command    *)
(* the disk is busy until it asks for data (DRQ); a sector of WORDS words  *)
(* is then moved word by word.  While it is busy or moving data the disk   *)
(* takes no notice of writes to its registers.                             *)
(*                                                                         *)
(* The driver never waits for the disk to be done with what it did before. *)
(* Prompt says that the disk always is by the next port write, Masked that *)
(* calls are not interleaved (interrupts are disabled during a call), and  *)
(* Resident that buffers are in memory: otherwise a store to the buffer    *)
(* may fault, and the fault's handler calls read_disk itself (swap_in).    *)
(***************************************************************************)
EXTENDS Integers, Sequences

CONSTANTS BYTE,       \* values of a byte (256)
          WORDS,      \* words of a sector (SECTOR_SIZE / 2)
          Sectors,    \* sectors the disk has
          MaxCount,   \* bound: sectors of a call
          Tasks,
          Masked, Prompt, Resident

ASSUME DiskAssumption ==
  /\ BYTE \in Nat /\ BYTE > 1
  /\ WORDS \in Nat \ {0}
  /\ Sectors \subseteq 0..(BYTE * BYTE * BYTE * BYTE - 1)
  /\ MaxCount \in 1..(BYTE * BYTE - 1)
  /\ "fault" \notin Tasks
  /\ {Masked, Prompt, Resident} \subseteq BOOLEAN

Callers == Tasks \cup {"fault"}
Ports == {"1F2", "1F3", "1F4", "1F5"}

VARIABLES
  reg,    \* the disk's registers: [last, before]
  dev,    \* what the disk is doing: [state, op, lba, left, data]
  disk,   \* the sectors
  call,   \* the call every caller is in
  image   \* history: the disk as it was when a caller began its call

vars == <<reg, dev, disk, call, image>>

(* Words say where they come from: a sector as delivered, or a buffer. *)
Fresh(s) == [i \in 1..WORDS |-> <<"disk", s, i>>]
Buffer(n) == [i \in 1..(n * WORDS) |-> <<"buffer", i>>]
Floating == <<"floating">>   \* what an idle bus reads as
Words == {Floating} \cup {<<"buffer", i>> : i \in 1..(MaxCount * WORDS)}
           \cup {<<"disk", s, i>> : s \in Sectors, i \in 1..WORDS}

Done == [state |-> "idle", op |-> "flush", lba |-> 0, left |-> 0, data |-> <<>>]
Returned == [at |-> "idle", op |-> "read", sector |-> 0, count |-> 0, k |-> 0, buf |-> <<>>]

Init ==
  /\ reg = [p \in Ports |-> [last |-> 0, before |-> 0]]
  /\ dev = Done
  /\ disk = [s \in Sectors |-> Fresh(s)]
  /\ call = [c \in Callers |-> Returned]
  /\ image = disk
-----------------------------------------------------------------------------
(* The disk. *)

Settled == Prompt => dev.state # "busy"
Listening == dev.state = "idle"

(* Shifting by n bytes divides by this. *)
Weight(n) ==
  CASE n = 0 -> 1 [] n = 1 -> BYTE [] n = 2 -> BYTE * BYTE [] n = 3 -> BYTE * BYTE * BYTE

ShiftedOnly(x, n) == x \div Weight(n)

(* Byte n of x, as the casts to uint8_t take it. *)
Byte(x, n) == (x \div Weight(n)) % BYTE

(* outb to a register of the disk *)
outb(port, value) ==
  reg' = IF Listening
           THEN [reg EXCEPT ![port] = [last |-> value, before |-> @.last]]
           ELSE reg

Address ==
  reg["1F3"].last + BYTE * (reg["1F4"].last + BYTE * (reg["1F5"].last
    + BYTE * (reg["1F3"].before + BYTE * (reg["1F4"].before + BYTE * reg["1F5"].before))))

(* A count of zero stands for as many sectors as there are counts. *)
Count ==
  LET n == reg["1F2"].last + BYTE * reg["1F2"].before
  IN IF n = 0 THEN BYTE * BYTE ELSE n

(* outb to 0x1F7: a read, write or flush command *)
Command(op) ==
  dev' = CASE ~Listening -> dev
           [] Listening /\ op = "flush" -> [Done EXCEPT !.state = "busy"]
           [] Listening /\ op # "flush" ->
                [state |-> "busy", op |-> op, lba |-> Address, left |-> Count, data |-> <<>>]

(* The disk is ready to move the next sector, or has done what it had to.  *)
(* Sectors it does not have read as nothing and are not written.           *)
Fetch ==
  /\ dev.state = "busy" /\ dev.op = "read"
  /\ dev' = [dev EXCEPT !.state = "drq", !.lba = @ + 1, !.left = @ - 1,
                        !.data = IF dev.lba \in Sectors THEN disk[dev.lba]
                                 ELSE [i \in 1..WORDS |-> Floating]]
  /\ UNCHANGED <<reg, disk, call, image>>

Accept ==
  /\ dev.state = "busy" /\ dev.op = "write" /\ dev.data = <<>>
  /\ dev' = [dev EXCEPT !.state = "drq", !.left = @ - 1]
  /\ UNCHANGED <<reg, disk, call, image>>

Commit ==
  /\ dev.state = "busy" /\ dev.op = "write" /\ dev.data # <<>>
  /\ disk' = IF dev.lba \in Sectors THEN [disk EXCEPT ![dev.lba] = dev.data] ELSE disk
  /\ dev' = IF dev.left = 0 THEN Done
            ELSE [dev EXCEPT !.state = "drq", !.lba = @ + 1, !.left = @ - 1, !.data = <<>>]
  /\ UNCHANGED <<reg, call, image>>

Flush ==
  /\ dev.state = "busy" /\ dev.op = "flush"
  /\ dev' = Done
  /\ UNCHANGED <<reg, disk, call, image>>

Device == Fetch \/ Accept \/ Commit \/ Flush
-----------------------------------------------------------------------------
(* The driver. *)

At(c, label) == call[c].at = label

(* A fault's handler runs to its end, and so does a masked call. *)
MayRun(c) ==
  c \in Tasks =>
    /\ At("fault", "idle")
    /\ Masked => \A t \in Tasks \ {c} : At(t, "idle")

Step(c, label) == MayRun(c) /\ At(c, label)

(* A fault's handler begins at a store of read_disk to its buffer. *)
MayCall(c) ==
  c = "fault" => ~Resident /\ \E t \in Tasks : At(t, "move") /\ call[t].op = "read"

(* The call is made; then 0x1F6 is written, which selects the drive. *)
Call(c, op, sector, count) ==
  /\ Step(c, "idle")
  /\ MayCall(c)
  /\ call' = [call EXCEPT ![c] = [at |-> "setup", op |-> op, sector |-> sector, count |-> count,
                                  k |-> 1, buf |-> IF op = "read" THEN <<>> ELSE Buffer(count)]]
  /\ image' = disk
  /\ UNCHANGED <<reg, dev, disk>>

read_disk(c, sector, count) == Call(c, "read", sector, count)
write_disk(c, sector, count) == c \in Tasks /\ Call(c, "write", sector, count)

LowBytesFirst(sector, count) ==
  << <<"1F2", Byte(count, 0)>>, <<"1F3", Byte(sector, 0)>>,
     <<"1F4", Byte(sector, 1)>>, <<"1F5", Byte(sector, 2)>>,
     <<"1F2", Byte(count, 1)>>, <<"1F3", Byte(sector, 3)>>, <<"1F4", 0>>, <<"1F5", 0>> >>

ShortCount(sector, count) ==
  << <<"1F2", 0>>, <<"1F3", Byte(sector, 3)>>, <<"1F4", 0>>, <<"1F5", 0>>,
     <<"1F2", Byte(count, 0)>>, <<"1F3", Byte(sector, 0)>>,
     <<"1F4", Byte(sector, 1)>>, <<"1F5", Byte(sector, 2)>> >>

(* What is written to the registers, in this order. *)
Setup(sector, count) ==
  << <<"1F2", Byte(count, 1)>>, <<"1F3", Byte(sector, 3)>>, <<"1F4", 0>>, <<"1F5", 0>>,
     <<"1F2", Byte(count, 0)>>, <<"1F3", Byte(sector, 0)>>,
     <<"1F4", Byte(sector, 1)>>, <<"1F5", Byte(sector, 2)>> >>

SetRegister(c) ==
  LET k == call[c].k
      writes == Setup(call[c].sector, call[c].count)
  IN /\ Step(c, "setup")
     /\ Settled
     /\ outb(writes[k][1], writes[k][2])
     /\ call' = [call EXCEPT ![c].at = IF k = Len(writes) THEN "command" ELSE "setup",
                             ![c].k = IF k = Len(writes) THEN 0 ELSE k + 1]
     /\ UNCHANGED <<dev, disk, image>>

(* 0x24 or 0x34; k counts the words that have been moved. *)
SendCommand(c) ==
  /\ Step(c, "command")
  /\ Settled
  /\ Command(call[c].op)
  /\ call' = [call EXCEPT ![c].at = "poll"]
  /\ UNCHANGED <<reg, disk, image>>

(* (inb(0x1F7) & 0x88) == 0x8 *)
DataWanted(status) == status = "drq"

Poll(c) ==
  /\ Step(c, "poll")
  /\ DataWanted(dev.state)
  /\ call' = [call EXCEPT ![c].at = "move"]
  /\ UNCHANGED <<reg, dev, disk, image>>

OneTooMany(k) == k \div WORDS + 1
SectorsMoved(k) == k \div WORDS

(* The loops' counters after a word: another word, sector, or the end. *)
AfterWord(c, k) ==
  CASE k % WORDS # 0 -> "move"
    [] k % WORDS = 0 /\ SectorsMoved(k) < call[c].count -> "poll"
    [] k % WORDS = 0 /\ SectorsMoved(k) >= call[c].count ->
         IF call[c].op = "read" THEN "done" ELSE "flush"

(* inw: the next word of the sector; the last one ends it. *)
ReadWord(c) ==
  LET moving == dev.state = "drq" /\ dev.op = "read"
      k == call[c].k + 1
      last == Len(dev.data) = 1
  IN /\ Step(c, "move")
     /\ call[c].op = "read"
     /\ call' = [call EXCEPT ![c].buf = Append(@, IF moving THEN Head(dev.data) ELSE Floating),
                             ![c].k = k, ![c].at = AfterWord(c, k)]
     /\ dev' = CASE ~moving -> dev
                 [] moving /\ last /\ dev.left = 0 -> Done
                 [] moving /\ ~(last /\ dev.left = 0) ->
                      [dev EXCEPT !.data = Tail(@), !.state = IF last THEN "busy" ELSE "drq"]
     /\ UNCHANGED <<reg, disk, image>>

(* outw: the disk takes the word, and is busy when it has a sector's. *)
WriteWord(c) ==
  LET moving == dev.state = "drq" /\ dev.op = "write"
      k == call[c].k + 1
      data == Append(dev.data, call[c].buf[k])
  IN /\ Step(c, "move")
     /\ call[c].op = "write"
     /\ call' = [call EXCEPT ![c].k = k, ![c].at = AfterWord(c, k)]
     /\ dev' = IF moving
                 THEN [dev EXCEPT !.data = data,
                                  !.state = IF Len(data) = WORDS THEN "busy" ELSE "drq"]
                 ELSE dev
     /\ UNCHANGED <<reg, disk, image>>

SendFlush(c) ==
  /\ Step(c, "flush")
  /\ Settled
  /\ Command("flush")
  /\ call' = [call EXCEPT ![c].at = "done"]
  /\ UNCHANGED <<reg, disk, image>>

Return(c) ==
  /\ Step(c, "done")
  /\ call' = [call EXCEPT ![c] = Returned]
  /\ UNCHANGED <<reg, dev, disk, image>>
-----------------------------------------------------------------------------
InCall(c) ==
  SetRegister(c) \/ SendCommand(c) \/ Poll(c) \/ ReadWord(c) \/ WriteWord(c)
    \/ SendFlush(c) \/ Return(c)

OnDisk(sector, count) == sector..(sector + count - 1) \subseteq Sectors

Next ==
  \/ Device
  \/ \E c \in Callers :
       \/ InCall(c)
       \/ \E sector \in Sectors, count \in 1..MaxCount :
            OnDisk(sector, count) /\ (read_disk(c, sector, count) \/ write_disk(c, sector, count))

(* The disk goes on with what it was told to do, and so does a caller: no  *)
(* task is masked for ever, as every masked call ends if these two hold.   *)
Fairness == WF_vars(Device) /\ \A c \in Callers : WF_vars(InCall(c))

Spec == Init /\ [][Next]_vars /\ Fairness
-----------------------------------------------------------------------------
TypeOK ==
  /\ reg \in [Ports -> [last : 0..(BYTE - 1), before : 0..(BYTE - 1)]]
  /\ dev.state \in {"idle", "busy", "drq"} /\ dev.op \in {"read", "write", "flush"}
  /\ dev.lba \in Nat /\ dev.left \in 0..(BYTE * BYTE)
  /\ dev.data \in Seq(Words) /\ Len(dev.data) <= WORDS
  /\ disk \in [Sectors -> [1..WORDS -> Words]]
  /\ \A c \in Callers :
       /\ call[c].at \in {"idle", "setup", "command", "poll", "move", "flush", "done"}
       /\ call[c].op \in {"read", "write"}
       /\ call[c].buf \in Seq(Words)
       /\ call[c].k \in 0..(MaxCount * WORDS) \cup 1..8
  /\ image \in [Sectors -> [1..WORDS -> Words]]

(* The words of a sector of a call's buffer *)
Part(c, s) == [i \in 1..WORDS |-> call[c].buf[(s - call[c].sector) * WORDS + i]]
Addressed(c) == call[c].sector..(call[c].sector + call[c].count - 1)

(***************************************************************************)
(* disk.h:49: when read_disk returns, the buffer holds the sectors it was  *)
(* called for, in order, and nothing more; the disk is as it was.          *)
(***************************************************************************)
ReadsReturnSectors ==
  \A c \in Callers : At(c, "done") /\ call[c].op = "read" =>
    /\ Len(call[c].buf) = call[c].count * WORDS
    /\ \A s \in Addressed(c) : Part(c, s) = disk[s]
    /\ disk = image

(***************************************************************************)
(* disk.h:110, "the flush command makes sure that the data is on the       *)
(* disk": when write_disk returns, the sectors it was called for hold the  *)
(* buffer, and no other sector has changed.                                *)
(***************************************************************************)
WritesLand ==
  \A c \in Callers : At(c, "done") /\ call[c].op = "write" =>
    disk = [s \in Sectors |-> IF s \in Addressed(c) THEN Part(c, s) ELSE image[s]]

(***************************************************************************)
(* The polling loop (disk.h:70 and 103) has no bound: every call ends      *)
(* nevertheless, as the disk asks for data as often as the call moves it.  *)
(***************************************************************************)
CallsEnd == \A c \in Callers : ~At(c, "idle") ~> At(c, "idle")
=============================================================================
