----------------------------- MODULE DiskProofs -----------------------------
(***************************************************************************)
(* Theorems about Disk, for every width of a byte, size of a sector, set   *)
(* of sectors and of tasks: if calls are not interleaved, the disk is done *)
(* with what it did before by the next port write, and buffers are in      *)
(* memory.                                                                 *)
(***************************************************************************)
EXTENDS Disk, TLAPS

(* The disk has nothing to do, but perhaps a flush. *)
Quiet == dev.op = "flush" /\ dev.state # "drq" /\ dev.left = 0 /\ dev.data = <<>>
Still == Quiet /\ dev.state = "idle"

(* The registers after the writes before the k-th of a call's setup *)
RegistersSet(r) ==
  /\ r.k \in 2..5 => reg["1F2"].last = Byte(r.count, 1)
  /\ r.k \in 3..6 => reg["1F3"].last = Byte(r.sector, 3)
  /\ r.k \in 4..7 => reg["1F4"].last = 0
  /\ r.k \in 5..8 => reg["1F5"].last = 0
  /\ r.k > 5 => reg["1F2"] = [last |-> Byte(r.count, 0), before |-> Byte(r.count, 1)]
  /\ r.k > 6 => reg["1F3"] = [last |-> Byte(r.sector, 0), before |-> Byte(r.sector, 3)]
  /\ r.k > 7 => reg["1F4"] = [last |-> Byte(r.sector, 1), before |-> 0]

(* A sector of the call's buffer; the first m of its sectors are on disk. *)
PartOf(r, m) == [i \in 1..WORDS |-> r.buf[m * WORDS + i]]

Landed(r, m) ==
  \A s \in Sectors :
    disk[s] = IF s \in r.sector..(r.sector + m - 1) THEN PartOf(r, s - r.sector) ELSE image[s]

(* The buffer of read_disk holds the words that have been read. *)
Gathered(r) ==
  /\ disk = image /\ Len(r.buf) = r.k
  /\ \A m \in Nat, i \in 1..WORDS :
       m * WORDS + i <= r.k => r.buf[m * WORDS + i] = disk[r.sector + m][i]

(***************************************************************************)
(* What the disk is doing for a call r: it looks for sector m, hands it    *)
(* over, i words having been read, waits for the first sector, takes       *)
(* sector m, i words having been written, or stores sector m.              *)
(***************************************************************************)
Seeking(r, m) ==
  /\ dev.op = "read" /\ dev.state = "busy" /\ dev.data = <<>>
  /\ dev.lba = r.sector + m /\ dev.left = r.count - m /\ r.k = m * WORDS

Reading(r, m, i) ==
  /\ dev.op = "read" /\ dev.state = "drq"
  /\ dev.lba = r.sector + m + 1 /\ dev.left = r.count - m - 1 /\ r.k = m * WORDS + i
  /\ Len(dev.data) = WORDS - i
  /\ \A j \in 1..(WORDS - i) : dev.data[j] = disk[r.sector + m][i + j]

Awaiting(r) ==
  /\ dev.op = "write" /\ dev.state = "busy" /\ dev.data = <<>>
  /\ dev.lba = r.sector /\ dev.left = r.count /\ r.k = 0 /\ Landed(r, 0)

Taking(r, m, i) ==
  /\ dev.op = "write" /\ dev.state = "drq"
  /\ dev.lba = r.sector + m /\ dev.left = r.count - m - 1 /\ r.k = m * WORDS + i
  /\ Len(dev.data) = i /\ \A j \in 1..i : dev.data[j] = r.buf[m * WORDS + j]
  /\ Landed(r, m)

Storing(r, m) ==
  /\ dev.op = "write" /\ dev.state = "busy"
  /\ dev.lba = r.sector + m /\ dev.left = r.count - m - 1 /\ r.k = (m + 1) * WORDS
  /\ Len(dev.data) = WORDS /\ \A j \in 1..WORDS : dev.data[j] = r.buf[m * WORDS + j]
  /\ Landed(r, m)

Ms(r) == 0..(r.count - 1)
Is == 0..(WORDS - 1)

CallRecords ==
  [at : {"idle", "setup", "command", "poll", "move", "flush", "done"}, op : {"read", "write"},
   sector : Nat, count : 0..MaxCount, k : Nat, buf : Seq(Words)]

DevRecords ==
  [state : {"idle", "busy", "drq"}, op : {"read", "write", "flush"}, lba : Nat, left : Nat,
   data : Seq(Words)]

(* A call that is under way *)
Under(r) ==
  /\ r.count \in 1..MaxCount /\ OnDisk(r.sector, r.count)
  /\ r.op = "write" => r.buf = Buffer(r.count)
  /\ r.at \in {"setup", "command"} => disk = image /\ (r.op = "read" => r.buf = <<>>)
  /\ r.at = "setup" => Quiet /\ r.k \in 1..8 /\ (r.k > 1 => Still /\ RegistersSet(r))
  /\ r.at = "command" => Still /\ r.k = 0 /\ Address = r.sector /\ Count = r.count
  /\ r.at \in {"poll", "move", "done"} /\ r.op = "read" => Gathered(r)
  /\ r.at = "poll" =>
       IF r.op = "read" THEN \E m \in Ms(r) : Seeking(r, m) \/ Reading(r, m, 0)
       ELSE \/ Awaiting(r)
            \/ \E m \in Ms(r) : Taking(r, m, 0)
            \/ \E m \in Ms(r) : m + 1 < r.count /\ Storing(r, m)
  /\ r.at = "move" =>
       IF r.op = "read" THEN \E m \in Ms(r), i \in Is : Reading(r, m, i)
       ELSE \E m \in Ms(r), i \in Is : Taking(r, m, i)
  /\ r.at = "flush" =>
       r.op = "write" /\ (Storing(r, r.count - 1) \/ (Still /\ Landed(r, r.count)))
  /\ r.at = "done" => Quiet /\ (r.op = "write" => Landed(r, r.count))
  /\ r.at \in {"flush", "done"} => r.k = r.count * WORDS

Types ==
  /\ reg \in [Ports -> [last : 0..(BYTE - 1), before : 0..(BYTE - 1)]]
  /\ dev \in DevRecords /\ call \in [Callers -> CallRecords]
  /\ disk \in [Sectors -> [1..WORDS -> Words]] /\ image \in [Sectors -> [1..WORDS -> Words]]

OneCall ==
  /\ At("fault", "idle")
  /\ \A c \in Callers : At(c, "idle") => call[c].k = 0
  /\ \A c, e \in Tasks : ~At(c, "idle") /\ ~At(e, "idle") => c = e

DiskInv ==
  /\ Types /\ OneCall
  /\ \A r \in {call[c] : c \in Tasks} : r.at # "idle" => Under(r)
  /\ (\A c \in Tasks : At(c, "idle")) => Quiet
-----------------------------------------------------------------------------
(* Arithmetic *)

LEMMA DivMod ==
  ASSUME NEW a \in Nat, NEW b \in Nat \ {0}
  PROVE  /\ a \div b \in Nat
         /\ a % b \in 0..(b - 1)
         /\ a = b * (a \div b) + (a % b)
<1>1. PICK q \in Nat : q = a \div b
  OBVIOUS
<1>2. PICK r \in 0..(b - 1) : r = a % b
  OBVIOUS
<1>3. a = b * q + r
  BY <1>1, <1>2, SMTT(30)
<1>4. a = b * (a \div b) + (a % b)
  BY <1>1, <1>2, <1>3, Zenon
<1> QED BY <1>1, <1>2, <1>4

(* Quotient and remainder are unique. *)
LEMMA OneDivision ==
  ASSUME NEW b \in Nat \ {0}, NEW p \in Nat, NEW q \in Nat, NEW r \in 0..(b - 1),
         NEW t \in 0..(b - 1), b * p + r = b * q + t
  PROVE  p = q /\ r = t
<1>1. b * p \in Nat /\ b * q \in Nat
  OBVIOUS
<1>2. CASE p < q
  <2>1. b * (p + 1) <= b * q
    BY <1>2, SMTT(30)
  <2>2. b * (p + 1) = b * p + b
    BY SMTT(30)
  <2> QED BY <1>1, <2>1, <2>2
<1>3. CASE q < p
  <2>1. b * (q + 1) <= b * p
    BY <1>3, SMTT(30)
  <2>2. b * (q + 1) = b * q + b
    BY SMTT(30)
  <2> QED BY <1>1, <2>1, <2>2
<1>4. CASE p = q
  <2>1. b * p = b * q
    BY <1>4
  <2> QED BY <1>1, <1>4, <2>1
<1> QED BY <1>2, <1>3, <1>4

LEMMA DivExact ==
  ASSUME NEW b \in Nat \ {0}, NEW q \in Nat, NEW r \in 0..(b - 1), NEW a, a = b * q + r
  PROVE  a \div b = q /\ a % b = r
<1>1. a \in Nat
  OBVIOUS
<1>2. PICK p \in Nat, t \in 0..(b - 1) : p = a \div b /\ t = a % b /\ a = b * p + t
  BY <1>1, DivMod
<1>3. b * p + t = b * q + r
  BY <1>2
<1>4. p = q /\ t = r
  BY <1>3, OneDivision
<1> QED BY <1>2, <1>4

LEMMA ByteRange ==
  /\ BYTE \in Nat \ {0} /\ BYTE > 1 /\ WORDS \in Nat \ {0} /\ MaxCount \in Nat
  /\ \A x \in Nat, n \in 0..3 : Byte(x, n) \in 0..(BYTE - 1)
<1>1. BYTE \in Nat \ {0} /\ BYTE > 1 /\ WORDS \in Nat \ {0} /\ MaxCount \in Nat
  <2>1. BYTE * BYTE \in Nat
    BY DiskAssumption
  <2> QED BY <2>1, DiskAssumption
<1>2. ASSUME NEW x \in Nat, NEW n \in 0..3 PROVE Byte(x, n) \in 0..(BYTE - 1)
  <2>1. Weight(n) \in Nat \ {0}
    <3>1. BYTE * BYTE \in Nat \ {0}
      BY <1>1, SMTT(30)
    <3>2. BYTE * BYTE * BYTE \in Nat \ {0}
      BY <1>1, <3>1, SMTT(30)
    <3> QED BY <1>1, <3>1, <3>2 DEF Weight
  <2>2. x \div Weight(n) \in Nat
    BY <2>1, DivMod
  <2> QED BY <1>1, <2>2, DivMod DEF Byte
<1> QED BY <1>1, <1>2

(* The bytes of an address and of a count, put together again *)
LEMMA BytesOf ==
  ASSUME NEW x \in Nat, x < BYTE * BYTE * BYTE * BYTE
  PROVE  Byte(x, 0) + BYTE * (Byte(x, 1) + BYTE * (Byte(x, 2) + BYTE * (Byte(x, 3)
           + BYTE * (0 + BYTE * 0)))) = x
<1> DEFINE B == BYTE
<1>1. B \in Nat \ {0} /\ B > 1
  BY ByteRange
<1> HIDE DEF B
<1>2. PICK q1 \in Nat, r0 \in 0..(B - 1) : q1 = x \div B /\ r0 = x % B /\ x = B * q1 + r0
  BY <1>1, DivMod
<1>3. PICK q2 \in Nat, r1 \in 0..(B - 1) : q2 = q1 \div B /\ r1 = q1 % B /\ q1 = B * q2 + r1
  BY <1>1, DivMod
<1>4. PICK q3 \in Nat, r2 \in 0..(B - 1) : q3 = q2 \div B /\ r2 = q2 % B /\ q2 = B * q3 + r2
  BY <1>1, DivMod
<1>5. /\ B * B \in Nat \ {0} /\ B * B * B \in Nat \ {0}
      /\ B * r1 + r0 \in 0..(B * B - 1)
  <2>1. B * B \in Nat \ {0}
    BY <1>1, SMTT(30)
  <2>2. B * B * B \in Nat \ {0}
    BY <1>1, <2>1, SMTT(30)
  <2>3. B * r1 <= B * (B - 1)
    BY <1>1, SMTT(30)
  <2>4. B * (B - 1) = B * B - B
    BY <1>1, SMTT(30)
  <2>5. B * r1 \in Nat
    BY <1>1
  <2> QED BY <1>1, <2>1, <2>2, <2>3, <2>4, <2>5
<1>6. x \div (B * B) = q2
  <2>1. B * (B * q2 + r1) + r0 = (B * B) * q2 + (B * r1 + r0)
    BY <1>1, SMTT(30)
  <2>2. x = (B * B) * q2 + (B * r1 + r0)
    BY <1>2, <1>3, <2>1
  <2> QED BY <1>5, <2>2, DivExact
<1>7. (B * B) * r2 + (B * r1 + r0) \in 0..(B * B * B - 1)
  <2>1. (B * B) * r2 <= (B * B) * (B - 1)
    BY <1>1, <1>5, SMTT(30)
  <2>2. (B * B) * (B - 1) = B * B * B - B * B
    BY <1>1, SMTT(30)
  <2>3. (B * B) * r2 \in Nat
    BY <1>5
  <2> QED BY <1>5, <2>1, <2>2, <2>3
<1>8. x = (B * B * B) * q3 + ((B * B) * r2 + (B * r1 + r0))
  <2>1. B * (B * (B * q3 + r2) + r1) + r0 = (B * B * B) * q3 + ((B * B) * r2 + (B * r1 + r0))
    BY <1>1, SMTT(30)
  <2> QED BY <1>2, <1>3, <1>4, <2>1
<1>9. x \div (B * B * B) = q3
  BY <1>5, <1>7, <1>8, DivExact
<1>10. q3 \in 0..(B - 1)
  <2>1. ASSUME q3 >= B PROVE FALSE
    <3>1. (B * B * B) * B <= (B * B * B) * q3
      BY <1>1, <1>5, <2>1, SMTT(30)
    <3>2. (B * B * B) * B = B * B * B * B
      BY <1>1, SMTT(30)
    <3>3. x < B * B * B * B
      BY DEF B
    <3>4. (B * B * B) * q3 \in Nat /\ B * B * B * B \in Nat
      BY <1>1, <1>5
    <3> QED BY <1>7, <1>8, <3>1, <3>2, <3>3, <3>4
  <2> QED BY <1>1, <2>1
<1>11. q3 % B = q3
  <2>1. q3 = B * 0 + q3
    BY <1>1, <1>10
  <2> QED BY <1>1, <1>10, <2>1, DivExact
<1>12. x \div 1 = x
  <2>1. x = 1 * x + 0 /\ 1 \in Nat \ {0} /\ 0 \in 0..(1 - 1)
    OBVIOUS
  <2> QED BY <2>1, DivExact
<1>13. Byte(x, 0) = r0 /\ Byte(x, 1) = r1 /\ Byte(x, 2) = r2 /\ Byte(x, 3) = q3
  <2>1. Weight(0) = 1 /\ Weight(1) = B /\ Weight(2) = B * B /\ Weight(3) = B * B * B
    BY DEF Weight, B
  <2>2. Byte(x, 0) = (x \div 1) % B /\ Byte(x, 1) = (x \div B) % B
        /\ Byte(x, 2) = (x \div (B * B)) % B /\ Byte(x, 3) = (x \div (B * B * B)) % B
    BY <2>1, Zenon DEF Byte, B
  <2> QED BY <1>2, <1>3, <1>4, <1>6, <1>9, <1>11, <1>12, <2>2, Zenon
<1>14. r0 + B * (r1 + B * (r2 + B * (q3 + B * (0 + B * 0)))) = x
  <2>1. 0 + B * 0 = 0 /\ B * 0 = 0
    BY <1>1
  <2>2. r0 + B * (r1 + B * (r2 + B * (q3 + 0))) = B * (B * (B * q3 + r2) + r1) + r0
    BY <1>1, SMTT(30)
  <2> QED BY <1>2, <1>3, <1>4, <2>1, <2>2
<1> QED BY <1>13, <1>14, Zenon DEF B

LEMMA BytesOfCount ==
  ASSUME NEW x \in Nat, x < BYTE * BYTE
  PROVE  Byte(x, 0) + BYTE * Byte(x, 1) = x
<1> DEFINE B == BYTE
<1>1. B \in Nat \ {0} /\ B > 1
  BY ByteRange
<1> HIDE DEF B
<1>2. PICK q1 \in Nat, r0 \in 0..(B - 1) : q1 = x \div B /\ r0 = x % B /\ x = B * q1 + r0
  BY <1>1, DivMod
<1>3. q1 \in 0..(B - 1)
  <2>1. ASSUME q1 >= B PROVE FALSE
    <3>1. B * B <= B * q1
      BY <1>1, <2>1, SMTT(30)
    <3>2. x < B * B
      BY DEF B
    <3>3. B * B \in Nat /\ B * q1 \in Nat
      BY <1>1
    <3> QED BY <1>2, <3>1, <3>2, <3>3
  <2> QED BY <1>1, <2>1
<1>4. q1 % B = q1
  <2>1. q1 = B * 0 + q1
    BY <1>1, <1>3
  <2> QED BY <1>1, <1>3, <2>1, DivExact
<1>5. x \div 1 = x
  <2>1. x = 1 * x + 0 /\ 1 \in Nat \ {0} /\ 0 \in 0..(1 - 1)
    OBVIOUS
  <2> QED BY <2>1, DivExact
<1>6. Byte(x, 0) = r0 /\ Byte(x, 1) = q1
  <2>1. Weight(0) = 1 /\ Weight(1) = B
    BY DEF Weight, B
  <2>2. Byte(x, 0) = (x \div 1) % B /\ Byte(x, 1) = (x \div B) % B
    BY <2>1, Zenon DEF Byte, B
  <2> QED BY <1>2, <1>4, <1>5, <2>2, Zenon
<1>7. r0 + B * q1 = x
  BY <1>1, <1>2
<1> QED BY <1>6, <1>7, Zenon DEF B
-----------------------------------------------------------------------------
(* Calls *)

(* The call under way is the only one. *)
LEMMA TheCall ==
  ASSUME DiskInv, Masked, NEW c \in Callers, NEW label, Step(c, label), label # "idle"
  PROVE  /\ c \in Tasks /\ call[c] \in CallRecords /\ call[c].at = label
         /\ Under(call[c])
         /\ \A e \in Callers \ {c} : call[e].at = "idle"
<1>1. c \in Tasks /\ call[c].at = label
  BY DEF DiskInv, OneCall, Step, At, Callers
<1>2. PICK r : r = call[c]
  OBVIOUS
<1>3. r \in CallRecords
  BY <1>2 DEF DiskInv, Types
<1>4. Under(r)
  BY <1>1, <1>2 DEF DiskInv
<1>5. \A e \in Callers \ {c} : call[e].at = "idle"
  BY <1>1 DEF DiskInv, OneCall, At, Callers
<1> QED BY <1>1, <1>2, <1>3, <1>4, <1>5

(* The call of c becomes r. *)
LEMMA CallBecomes ==
  ASSUME DiskInv, NEW c \in Tasks, \A e \in Callers \ {c} : call[e].at = "idle",
         NEW r \in CallRecords, call' = [call EXCEPT ![c] = r],
         reg' \in [Ports -> [last : 0..(BYTE - 1), before : 0..(BYTE - 1)]],
         dev' \in DevRecords, disk' \in [Sectors -> [1..WORDS -> Words]],
         image' \in [Sectors -> [1..WORDS -> Words]],
         r.at = "idle" => Quiet' /\ r.k = 0,
         r.at # "idle" => Under(r)'
  PROVE  DiskInv'
<1>1. call \in [Callers -> CallRecords] /\ c \in Callers /\ "fault" \in Callers /\ c # "fault"
  BY DiskAssumption DEF DiskInv, Types, Callers
<1>2. call'[c] = r /\ \A e \in Callers \ {c} : call'[e] = call[e]
  BY <1>1
<1>3. Types'
  BY <1>1 DEF Types
<1>4. OneCall'
  <2>1. \A e \in Callers : e # c => call'[e].at = "idle" /\ call'[e].k = 0
    BY <1>2 DEF DiskInv, OneCall, At
  <2> QED BY <1>1, <1>2, <2>1 DEF OneCall, At, Callers
<1>5. ASSUME NEW e \in Tasks, call'[e].at # "idle"
      PROVE  e = c
  BY <1>2, <1>5 DEF Callers
<1>6. \A x \in {call'[e] : e \in Tasks} : x.at # "idle" => x = r
  BY <1>2, <1>5
<1>7. \A x \in {call'[e] : e \in Tasks} : x.at # "idle" => Under(x)'
  BY <1>2, <1>6
<1>8. (\A e \in Tasks : At(e, "idle")') => Quiet'
  BY <1>2 DEF At
<1> QED BY <1>3, <1>4, <1>7, <1>8 DEF DiskInv

(* The device does something for the call of c. *)
LEMMA CallStays ==
  ASSUME DiskInv, call' = call, reg' = reg, image' = image,
         dev' \in DevRecords, disk' \in [Sectors -> [1..WORDS -> Words]],
         (\A c \in Tasks : At(c, "idle")) => Quiet',
         \A r \in {call[c] : c \in Tasks} : r.at # "idle" /\ Under(r) => Under(r)'
  PROVE  DiskInv'
<1>1. Types'
  BY DEF DiskInv, Types
<1>2. OneCall'
  BY DEF DiskInv, OneCall, At
<1>3. \A r \in {call'[c] : c \in Tasks} : r.at # "idle" => Under(r)'
  BY DEF DiskInv
<1>4. (\A e \in Tasks : At(e, "idle")') => Quiet'
  BY DEF At
<1> QED BY <1>1, <1>2, <1>3, <1>4 DEF DiskInv

LEMMA DataIs ==
  /\ <<>> \in Seq(Words) /\ Len(<<>>) = 0
  /\ \A d \in Seq(Words) : Len(d) \in Nat /\ (Len(d) = 0 => d = <<>>)
  /\ \A f \in [1..WORDS -> Words] : f \in Seq(Words) /\ Len(f) = WORDS
BY ByteRange

(* The loops' counters after a word *)
LEMMA WordCount ==
  ASSUME NEW m \in Nat, NEW i \in 0..(WORDS - 1)
  PROVE  /\ m * WORDS \in Nat /\ (m + 1) * WORDS = m * WORDS + WORDS
         /\ i + 1 < WORDS => (m * WORDS + i + 1) % WORDS = i + 1
         /\ i + 1 = WORDS => /\ m * WORDS + i + 1 = (m + 1) * WORDS
                             /\ ((m + 1) * WORDS) % WORDS = 0
                             /\ ((m + 1) * WORDS) \div WORDS = m + 1
<1>1. WORDS \in Nat \ {0}
  BY ByteRange
<1>2. m * WORDS \in Nat /\ (m + 1) * WORDS = m * WORDS + WORDS
  BY <1>1, SMTT(30)
<1>3. ASSUME i + 1 < WORDS PROVE (m * WORDS + i + 1) % WORDS = i + 1
  <2>1. m * WORDS + i + 1 = WORDS * m + (i + 1)
    BY <1>1, SMTT(30)
  <2>2. i + 1 \in 0..(WORDS - 1)
    BY <1>1, <1>3
  <2>3. PICK b \in Nat \ {0} : b = WORDS
    BY <1>1
  <2>4. PICK r \in 0..(b - 1) : r = i + 1
    BY <2>2, <2>3
  <2>5. PICK a : a = b * m + r
    OBVIOUS
  <2>6. a % b = r
    BY <2>5, DivExact
  <2> QED BY <2>1, <2>3, <2>4, <2>5, <2>6, Zenon
<1>4. /\ ((m + 1) * WORDS) % WORDS = 0
      /\ ((m + 1) * WORDS) \div WORDS = m + 1
  <2>1. (m + 1) * WORDS = WORDS * (m + 1) + 0
    BY <1>1, SMTT(30)
  <2>2. 0 \in 0..(WORDS - 1) /\ m + 1 \in Nat
    BY <1>1
  <2> QED BY <1>1, <2>1, <2>2, DivExact
<1>5. i + 1 = WORDS => m * WORDS + i + 1 = (m + 1) * WORDS
  BY <1>1, <1>2
<1> QED BY <1>2, <1>3, <1>4, <1>5

(* A call's sectors are sectors of the disk. *)
LEMMA OwnSector ==
  ASSUME NEW r \in CallRecords, r.count \in 1..MaxCount, OnDisk(r.sector, r.count), NEW m \in Ms(r)
  PROVE  /\ r.sector + m \in Sectors /\ r.sector + m \in Nat /\ m \in Nat /\ m + 1 <= r.count
         /\ r.count \in Nat /\ r.sector \in Nat /\ r.count - m - 1 \in Nat
<1>1. r.count \in Nat /\ r.sector \in Nat /\ m \in Nat /\ m + 1 <= r.count
  BY DEF CallRecords, Ms
<1>2. r.sector + m \in r.sector..(r.sector + r.count - 1)
  BY <1>1
<1> QED BY <1>1, <1>2 DEF OnDisk

LEMMA InitInv == Init => DiskInv
<1> SUFFICES ASSUME Init PROVE DiskInv
  OBVIOUS
<1>1. \A s \in Sectors : Fresh(s) \in [1..WORDS -> Words]
  BY DEF Fresh, Words
<1>2. reg \in [Ports -> [last : 0..(BYTE - 1), before : 0..(BYTE - 1)]]
  <2>1. 0 \in 0..(BYTE - 1)
    BY ByteRange
  <2> QED BY <2>1 DEF Init
<1>3. dev \in DevRecords
  BY DataIs DEF Init, Done, DevRecords
<1>4. Returned \in CallRecords
  BY DataIs, ByteRange DEF Returned, CallRecords
<1>5. call \in [Callers -> CallRecords]
  BY <1>4 DEF Init
<1>6. \A c \in Callers : call[c] = Returned /\ Returned.at = "idle" /\ Returned.k = 0
  BY DEF Init, Returned
<1>7. "fault" \in Callers /\ Tasks \subseteq Callers
  BY DEF Callers
<1>8. disk \in [Sectors -> [1..WORDS -> Words]] /\ image = disk
  BY <1>1 DEF Init
<1>9. Quiet
  BY DEF Init, Done, Quiet
<1>10. Types
  BY <1>2, <1>3, <1>5, <1>8 DEF Types
<1>11. OneCall
  BY <1>6, <1>7 DEF OneCall, At
<1>12. \A r \in {call[c] : c \in Tasks} : r.at = "idle"
  BY <1>6, <1>7
<1> QED BY <1>9, <1>10, <1>11, <1>12 DEF DiskInv

(* What a call that is under way tells of the disk *)
LEMMA DiskDoes ==
  ASSUME NEW r \in CallRecords, r.at # "idle", Under(r)
  PROVE  \/ Quiet
         \/ /\ r.op = "read" /\ r.at \in {"poll", "move"} /\ Gathered(r)
            /\ \E m \in Ms(r) : \/ r.at = "poll" /\ Seeking(r, m)
                                \/ r.at = "poll" /\ Reading(r, m, 0)
                                \/ r.at = "move" /\ \E i \in Is : Reading(r, m, i)
         \/ /\ r.op = "write" /\ r.at \in {"poll", "move", "flush"}
            /\ \/ r.at = "poll" /\ Awaiting(r)
               \/ \E m \in Ms(r) : r.at = "poll" /\ Taking(r, m, 0)
               \/ \E m \in Ms(r), i \in Is : r.at = "move" /\ Taking(r, m, i)
               \/ \E m \in Ms(r) : r.at = "poll" /\ m + 1 < r.count /\ Storing(r, m)
               \/ r.at = "flush" /\ Storing(r, r.count - 1)
<1>1. r.at \in {"setup", "command", "poll", "move", "flush", "done"} /\ r.op \in {"read", "write"}
  BY DEF CallRecords
<1>2. CASE r.at \in {"setup", "command", "done"}
  BY <1>2 DEF Under, Still
<1>3. CASE r.at = "poll"
  BY <1>1, <1>3 DEF Under
<1>4. CASE r.at = "move"
  BY <1>1, <1>4 DEF Under
<1>5. CASE r.at = "flush"
  BY <1>1, <1>5 DEF Under, Still
<1> QED BY <1>1, <1>2, <1>3, <1>4, <1>5
-----------------------------------------------------------------------------
(* The disk's steps *)

LEMMA FetchKeeps ==
  ASSUME DiskInv, Masked, Prompt, Resident, Fetch
  PROVE  DiskInv'
<1>1. /\ dev \in DevRecords /\ dev.state = "busy" /\ dev.op = "read"
      /\ reg' = reg /\ disk' = disk /\ call' = call /\ image' = image
      /\ disk \in [Sectors -> [1..WORDS -> Words]]
  BY DEF Fetch, DiskInv, Types
<1>2. ~Quiet
  BY <1>1 DEF Quiet
<1>3. PICK d \in [1..WORDS -> Words] :
        d = IF dev.lba \in Sectors THEN disk[dev.lba] ELSE [i \in 1..WORDS |-> Floating]
  <2>1. [i \in 1..WORDS |-> Floating] \in [1..WORDS -> Words]
    BY DEF Words
  <2> QED BY <1>1, <2>1
<1>4. d \in Seq(Words) /\ Len(d) = WORDS
  BY DataIs
<1>5. dev' = [dev EXCEPT !.state = "drq", !.lba = @ + 1, !.left = @ - 1, !.data = d]
  BY <1>3 DEF Fetch
<1>6. \E t \in Tasks : call[t].at # "idle"
  BY <1>2 DEF DiskInv, At
<1>7. ASSUME NEW r \in CallRecords, r.at # "idle", Under(r)
      PROVE  dev' \in DevRecords /\ Under(r)'
  <2>1. r.op = "read" /\ r.at = "poll" /\ Gathered(r) /\ \E m \in Ms(r) : Seeking(r, m)
    <3>1. \A m \in Ms(r) : ~Reading(r, m, 0) /\ ~Taking(r, m, 0) /\ ~Storing(r, m)
      BY <1>1 DEF Reading, Taking, Storing
    <3>2. \A m \in Ms(r), i \in Is : ~Reading(r, m, i) /\ ~Taking(r, m, i)
      BY <1>1 DEF Reading, Taking
    <3>3. ~Awaiting(r) /\ ~Storing(r, r.count - 1)
      BY <1>1 DEF Awaiting, Storing
    <3> QED BY <1>2, <1>7, <3>1, <3>2, <3>3, DiskDoes
  <2>2. PICK m \in Ms(r) : Seeking(r, m)
    BY <2>1
  <2>3. r.count \in 1..MaxCount /\ OnDisk(r.sector, r.count)
    BY <1>7 DEF Under
  <2>4. /\ r.sector + m \in Sectors /\ r.sector + m \in Nat /\ m \in Nat /\ m + 1 <= r.count
        /\ r.count \in Nat /\ r.sector \in Nat
    BY <2>3, OwnSector
  <2>5. /\ dev.lba = r.sector + m /\ dev.left = r.count - m /\ r.k = m * WORDS
    BY <2>2 DEF Seeking
  <2>6. d = disk[r.sector + m]
    BY <1>3, <2>4, <2>5
  <2>7. dev' \in DevRecords
    <3>1. dev' = [state |-> "drq", op |-> dev.op, lba |-> dev.lba + 1, left |-> dev.left - 1, data |-> d]
      BY <1>1, <1>5 DEF DevRecords
    <3>2. dev.lba + 1 \in Nat /\ dev.left - 1 \in Nat
      BY <2>4, <2>5
    <3> QED BY <1>1, <1>4, <3>1, <3>2 DEF DevRecords
  <2>8. /\ dev'.op = "read" /\ dev'.state = "drq" /\ dev'.data = d
        /\ dev'.lba = r.sector + m + 1 /\ dev'.left = r.count - m - 1
    BY <1>1, <1>5, <2>4, <2>5 DEF DevRecords
  <2>9. r.k = m * WORDS + 0
    BY <2>4, <2>5, ByteRange
  <2>10. \A j \in 1..(WORDS - 0) : d[j] = disk[r.sector + m][0 + j]
    BY <2>6, ByteRange
  <2>11. Len(d) = WORDS - 0
    BY <1>4, ByteRange
  <2>12. Reading(r, m, 0)'
    BY <1>1, <2>8, <2>9, <2>10, <2>11 DEF Reading
  <2>13. Gathered(r)'
    BY <1>1, <2>1 DEF Gathered
  <2> QED BY <1>7, <2>1, <2>7, <2>12, <2>13 DEF Under
<1>8. dev' \in DevRecords
  <2>1. PICK r \in {call[t] : t \in Tasks} : r.at # "idle"
    BY <1>6
  <2>2. r \in CallRecords /\ Under(r)
    BY <2>1 DEF DiskInv, Types, Callers
  <2> QED BY <1>7, <2>1, <2>2
<1>9. \A r \in {call[c] : c \in Tasks} : r \in CallRecords
  BY DEF DiskInv, Types, Callers
<1>10. \A r \in {call[c] : c \in Tasks} : r.at # "idle" /\ Under(r) => Under(r)'
  BY <1>7, <1>9
<1>11. ~(\A c \in Tasks : At(c, "idle"))
  BY <1>6 DEF At
<1> QED BY <1>1, <1>8, <1>10, <1>11, CallStays

LEMMA AcceptKeeps ==
  ASSUME DiskInv, Masked, Prompt, Resident, Accept
  PROVE  DiskInv'
<1>1. /\ dev \in DevRecords /\ dev.state = "busy" /\ dev.op = "write" /\ dev.data = <<>>
      /\ reg' = reg /\ disk' = disk /\ call' = call /\ image' = image
      /\ disk \in [Sectors -> [1..WORDS -> Words]]
      /\ dev' = [dev EXCEPT !.state = "drq", !.left = @ - 1]
  BY DEF Accept, DiskInv, Types
<1>2. ~Quiet
  BY <1>1 DEF Quiet
<1>3. \E t \in Tasks : call[t].at # "idle"
  BY <1>2 DEF DiskInv, At
<1>4. ASSUME NEW r \in CallRecords, r.at # "idle", Under(r)
      PROVE  dev' \in DevRecords /\ Under(r)'
  <2>1. r.op = "write" /\ r.at = "poll" /\ Awaiting(r)
    <3>1. \A m : ~Seeking(r, m) /\ ~Reading(r, m, 0) /\ ~Taking(r, m, 0)
      BY <1>1 DEF Seeking, Reading, Taking
    <3>2. \A m, i : ~Reading(r, m, i) /\ ~Taking(r, m, i)
      BY <1>1 DEF Reading, Taking
    <3>3. \A m : ~Storing(r, m)
      BY <1>1, DataIs, ByteRange DEF Storing
    <3> QED BY <1>2, <1>4, <3>1, <3>2, <3>3, DiskDoes
  <2>3. r.count \in 1..MaxCount /\ OnDisk(r.sector, r.count) /\ 0 \in Ms(r)
    BY <1>4, ByteRange DEF Under, Ms
  <2>4. /\ r.count \in Nat \ {0} /\ r.sector \in Nat
    BY <2>3, ByteRange DEF CallRecords
  <2>5. dev.lba = r.sector /\ dev.left = r.count /\ r.k = 0 /\ Landed(r, 0)
    BY <2>1 DEF Awaiting
  <2>7. dev' \in DevRecords
    <3>1. dev' = [state |-> "drq", op |-> dev.op, lba |-> dev.lba, left |-> dev.left - 1, data |-> dev.data]
      BY <1>1 DEF DevRecords
    <3>2. dev.left - 1 \in Nat
      BY <2>4, <2>5
    <3> QED BY <1>1, <3>1, <3>2 DEF DevRecords
  <2>8. /\ dev'.op = "write" /\ dev'.state = "drq" /\ dev'.data = <<>>
        /\ dev'.lba = r.sector + 0 /\ dev'.left = r.count - 0 - 1
    BY <1>1, <2>4, <2>5 DEF DevRecords
  <2>9. r.k = 0 * WORDS + 0
    BY <2>5, ByteRange
  <2>10. Landed(r, 0)'
    BY <1>1, <2>5 DEF Landed
  <2>12. Taking(r, 0, 0)'
    BY <1>1, <2>8, <2>9, <2>10 DEF Taking
  <2> QED BY <1>4, <2>1, <2>3, <2>7, <2>12 DEF Under
<1>5. dev' \in DevRecords
  <2>1. PICK r \in {call[t] : t \in Tasks} : r.at # "idle"
    BY <1>3
  <2>2. r \in CallRecords /\ Under(r)
    BY <2>1 DEF DiskInv, Types, Callers
  <2> QED BY <1>4, <2>1, <2>2
<1>6. \A r \in {call[c] : c \in Tasks} : r \in CallRecords
  BY DEF DiskInv, Types, Callers
<1>7. \A r \in {call[c] : c \in Tasks} : r.at # "idle" /\ Under(r) => Under(r)'
  BY <1>4, <1>6
<1>8. ~(\A c \in Tasks : At(c, "idle"))
  BY <1>3 DEF At
<1> QED BY <1>1, <1>5, <1>7, <1>8, CallStays

(* Storing sector m makes it the last of the sectors that have landed. *)
LEMMA CommitLands ==
  ASSUME NEW r \in CallRecords, r.count \in 1..MaxCount, OnDisk(r.sector, r.count), NEW m \in Ms(r),
         disk \in [Sectors -> [1..WORDS -> Words]], dev \in DevRecords,
         Storing(r, m), Commit
  PROVE  disk' \in [Sectors -> [1..WORDS -> Words]] /\ Landed(r, m + 1)'
<1>1. /\ r.sector + m \in Sectors /\ r.sector + m \in Nat /\ m \in Nat /\ m + 1 <= r.count
      /\ r.count \in Nat /\ r.sector \in Nat
  BY OwnSector
<1>2. /\ dev.lba = r.sector + m /\ Len(dev.data) = WORDS /\ Landed(r, m)
      /\ \A j \in 1..WORDS : dev.data[j] = r.buf[m * WORDS + j]
  BY DEF Storing
<1>3. disk' = [disk EXCEPT ![r.sector + m] = dev.data] /\ image' = image
  BY <1>1, <1>2 DEF Commit
<1>4. dev.data \in [1..WORDS -> Words]
  BY <1>2 DEF DevRecords
<1>5. dev.data = PartOf(r, m)
  BY <1>2, <1>4 DEF PartOf
<1>6. disk' \in [Sectors -> [1..WORDS -> Words]]
  BY <1>1, <1>3, <1>4
<1>7. ASSUME NEW s \in Sectors
      PROVE  disk'[s] = IF s \in r.sector..(r.sector + (m + 1) - 1)
                          THEN PartOf(r, s - r.sector) ELSE image'[s]
  <2>1. CASE s = r.sector + m
    <3>1. s \in r.sector..(r.sector + (m + 1) - 1) /\ s - r.sector = m
      BY <1>1, <2>1
    <3> QED BY <1>1, <1>3, <1>5, <2>1, <3>1
  <2>2. CASE s # r.sector + m
    <3>1. s \in r.sector..(r.sector + (m + 1) - 1) <=> s \in r.sector..(r.sector + m - 1)
      BY <1>1, <2>2
    <3>2. disk'[s] = disk[s]
      BY <1>3, <2>2
    <3> QED BY <1>2, <1>3, <3>1, <3>2 DEF Landed
  <2> QED BY <2>1, <2>2
<1> QED BY <1>6, <1>7 DEF Landed

LEMMA CommitKeeps ==
  ASSUME DiskInv, Masked, Prompt, Resident, Commit
  PROVE  DiskInv'
<1>1. /\ dev \in DevRecords /\ dev.state = "busy" /\ dev.op = "write" /\ dev.data # <<>>
      /\ reg' = reg /\ call' = call /\ image' = image
      /\ disk \in [Sectors -> [1..WORDS -> Words]]
      /\ dev' = IF dev.left = 0 THEN Done
                ELSE [dev EXCEPT !.state = "drq", !.lba = @ + 1, !.left = @ - 1, !.data = <<>>]
  BY DEF Commit, DiskInv, Types
<1>2. ~Quiet
  BY <1>1 DEF Quiet
<1>3. \E t \in Tasks : call[t].at # "idle"
  BY <1>2 DEF DiskInv, At
<1>4. ASSUME NEW r \in CallRecords, r.at # "idle", Under(r)
      PROVE  dev' \in DevRecords /\ disk' \in [Sectors -> [1..WORDS -> Words]] /\ Under(r)'
  <2>1. /\ r.op = "write"
        /\ \/ r.at = "poll" /\ \E m \in Ms(r) : m + 1 < r.count /\ Storing(r, m)
           \/ r.at = "flush" /\ Storing(r, r.count - 1)
    <3>1. \A m, i : ~Reading(r, m, i) /\ ~Taking(r, m, i)
      BY <1>1 DEF Reading, Taking
    <3>2. \A m : ~Seeking(r, m)
      BY <1>1 DEF Seeking
    <3>3. ~Awaiting(r)
      BY <1>1 DEF Awaiting
    <3> QED BY <1>2, <1>4, <3>1, <3>2, <3>3, DiskDoes
  <2>2. r.count \in 1..MaxCount /\ OnDisk(r.sector, r.count) /\ r.count - 1 \in Ms(r) /\ r.count \in Nat
    <3>1. r.count \in 1..MaxCount /\ OnDisk(r.sector, r.count)
      BY <1>4 DEF Under
    <3> QED BY <3>1, ByteRange DEF Ms
  <2>3. CASE r.at = "poll"
    <3>1. PICK m \in Ms(r) : m + 1 < r.count /\ Storing(r, m)
      BY <2>1, <2>3
    <3>2. disk' \in [Sectors -> [1..WORDS -> Words]] /\ Landed(r, m + 1)'
      BY <1>1, <2>2, <3>1, CommitLands
    <3>3. /\ r.sector + m \in Nat /\ m \in Nat /\ r.count \in Nat /\ r.sector \in Nat /\ m + 1 \in Ms(r)
      BY <2>2, <3>1, OwnSector DEF Ms
    <3>4. dev.lba = r.sector + m /\ dev.left = r.count - m - 1 /\ r.k = (m + 1) * WORDS
      BY <3>1 DEF Storing
    <3>5. dev' = [state |-> "drq", op |-> "write", lba |-> dev.lba + 1, left |-> dev.left - 1,
                  data |-> <<>>]
      <4>1. dev.left # 0
        BY <3>1, <3>3, <3>4
      <4>2. dev' = [dev EXCEPT !.state = "drq", !.lba = @ + 1, !.left = @ - 1, !.data = <<>>]
        BY <1>1, <4>1
      <4> QED BY <1>1, <4>2 DEF DevRecords
    <3>6. dev.lba + 1 = r.sector + (m + 1) /\ dev.left - 1 = r.count - (m + 1) - 1
          /\ dev.lba + 1 \in Nat /\ dev.left - 1 \in Nat
      BY <3>1, <3>3, <3>4
    <3>7. dev' \in DevRecords
      BY <3>5, <3>6, DataIs DEF DevRecords
    <3>8. r.k = (m + 1) * WORDS + 0
      BY <3>3, <3>4, ByteRange
    <3>9. Taking(r, m + 1, 0)'
      BY <3>2, <3>5, <3>6, <3>8, DataIs DEF Taking
    <3> QED BY <1>4, <2>1, <2>3, <3>2, <3>3, <3>7, <3>9 DEF Under
  <2>4. CASE r.at = "flush"
    <3>1. Storing(r, r.count - 1)
      BY <2>1, <2>4
    <3>2. disk' \in [Sectors -> [1..WORDS -> Words]] /\ Landed(r, (r.count - 1) + 1)'
      BY <1>1, <2>2, <3>1, CommitLands
    <3>3. (r.count - 1) + 1 = r.count
      BY <2>2
    <3>4. Landed(r, r.count)'
      BY <3>2, <3>3
    <3>5. dev' = Done
      <4>1. dev.left = r.count - (r.count - 1) - 1
        BY <3>1 DEF Storing
      <4>2. dev.left = 0
        BY <2>2, <4>1
      <4> QED BY <1>1, <4>2
    <3>6. Still' /\ dev' \in DevRecords
      BY <3>5, DataIs DEF Still, Quiet, Done, DevRecords
    <3> QED BY <1>4, <2>1, <2>4, <3>2, <3>4, <3>6 DEF Under
  <2> QED BY <2>1, <2>3, <2>4
<1>5. dev' \in DevRecords /\ disk' \in [Sectors -> [1..WORDS -> Words]]
  <2>1. PICK r \in {call[t] : t \in Tasks} : r.at # "idle"
    BY <1>3
  <2>2. r \in CallRecords /\ Under(r)
    BY <2>1 DEF DiskInv, Types, Callers
  <2> QED BY <1>4, <2>1, <2>2
<1>6. \A r \in {call[c] : c \in Tasks} : r \in CallRecords
  BY DEF DiskInv, Types, Callers
<1>7. \A r \in {call[c] : c \in Tasks} : r.at # "idle" /\ Under(r) => Under(r)'
  BY <1>4, <1>6
<1>8. ~(\A c \in Tasks : At(c, "idle"))
  BY <1>3 DEF At
<1> QED BY <1>1, <1>5, <1>7, <1>8, CallStays

LEMMA FlushKeeps ==
  ASSUME DiskInv, Masked, Prompt, Resident, Flush
  PROVE  DiskInv'
<1>1. /\ dev.state = "busy" /\ dev.op = "flush" /\ dev' = Done
      /\ reg' = reg /\ call' = call /\ image' = image /\ disk' = disk
      /\ disk \in [Sectors -> [1..WORDS -> Words]]
  BY DEF Flush, DiskInv, Types
<1>2. Still' /\ Quiet' /\ dev' \in DevRecords
  BY <1>1, DataIs DEF Still, Quiet, Done, DevRecords
<1>3. ASSUME NEW r \in CallRecords, r.at # "idle", Under(r)
      PROVE  Under(r)'
  <2>1. \A m, i : ~Reading(r, m, i) /\ ~Taking(r, m, i) /\ ~Seeking(r, m) /\ ~Storing(r, m)
    BY <1>1 DEF Reading, Taking, Seeking, Storing
  <2>2. ~Awaiting(r) /\ ~Still
    BY <1>1 DEF Awaiting, Still
  <2>3. r.at \notin {"command", "poll", "move", "flush"}
    BY <1>3, <2>1, <2>2 DEF Under
  <2>4. r.at = "setup" => r.k = 1
    BY <1>3, <2>2 DEF Under
  <2>5. (Gathered(r) => Gathered(r)') /\ (Landed(r, r.count) => Landed(r, r.count)')
    BY <1>1 DEF Gathered, Landed
  <2>6. disk = image => disk' = image'
    BY <1>1
  <2> QED BY <1>2, <1>3, <2>3, <2>4, <2>5, <2>6 DEF Under
<1>4. \A r \in {call[c] : c \in Tasks} : r \in CallRecords
  BY DEF DiskInv, Types, Callers
<1>5. \A r \in {call[c] : c \in Tasks} : r.at # "idle" /\ Under(r) => Under(r)'
  BY <1>3, <1>4
<1> QED BY <1>1, <1>2, <1>5, CallStays
-----------------------------------------------------------------------------
(* The driver's steps *)

(* What the disk does for a call, and has done, when only its label changes *)
LEMMA SameDoing ==
  ASSUME NEW r \in CallRecords, NEW at, disk' = disk, image' = image, NEW n, n = [r EXCEPT !.at = at]
  PROVE  /\ n.at = at /\ n.op = r.op /\ n.sector = r.sector /\ n.count = r.count
         /\ n.k = r.k /\ n.buf = r.buf
         /\ Ms(n) = Ms(r)
         /\ Gathered(r) => Gathered(n)'
         /\ \A m : Landed(r, m) => Landed(n, m)'
         /\ dev' = dev => \A m, i : (Reading(r, m, i) => Reading(n, m, i)') /\ (Taking(r, m, i) => Taking(n, m, i)')
<1>1. /\ n.at = at /\ n.op = r.op /\ n.sector = r.sector /\ n.count = r.count
      /\ n.k = r.k /\ n.buf = r.buf
  BY DEF CallRecords
<1>2. Ms(n) = Ms(r)
  BY <1>1 DEF Ms
<1>3. Gathered(r) => Gathered(n)'
  BY <1>1 DEF Gathered
<1>4. ASSUME NEW m, Landed(r, m) PROVE Landed(n, m)'
  BY <1>1, <1>4 DEF Landed, PartOf
<1>5. ASSUME dev' = dev, NEW m, NEW i, Reading(r, m, i) PROVE Reading(n, m, i)'
  BY <1>1, <1>5 DEF Reading
<1>6. ASSUME dev' = dev, NEW m, NEW i, Taking(r, m, i) PROVE Taking(n, m, i)'
  <2>1. Landed(n, m)'
    BY <1>4, <1>6 DEF Taking
  <2> QED BY <1>1, <1>6, <2>1 DEF Taking
<1> QED BY <1>1, <1>2, <1>3, <1>4, <1>5, <1>6

LEMMA PollKeeps ==
  ASSUME DiskInv, Masked, Prompt, Resident, NEW c \in Callers, Poll(c)
  PROVE  DiskInv'
<1>1. PICK r : r = call[c]
  OBVIOUS
<1>2. c \in Tasks /\ r \in CallRecords /\ r.at = "poll" /\ Under(r)
      /\ \A e \in Callers \ {c} : call[e].at = "idle"
  BY <1>1, TheCall DEF Poll
<1>3. PICK n : n = [r EXCEPT !.at = "move"]
  OBVIOUS
<1>4. n \in CallRecords /\ call' = [call EXCEPT ![c] = n]
  BY <1>1, <1>2, <1>3 DEF Poll, CallRecords, DiskInv, Types
<1>5. dev' = dev /\ disk' = disk /\ reg' = reg /\ image' = image /\ dev.state = "drq"
  BY DEF Poll, DataWanted
<1>6. \A m : ~Seeking(r, m) /\ ~Storing(r, m)
  BY <1>5 DEF Seeking, Storing
<1>7. ~Awaiting(r)
  BY <1>5 DEF Awaiting
<1>8. 0 \in Is
  BY ByteRange DEF Is
<1>9. /\ n.at = "move" /\ n.op = r.op /\ n.sector = r.sector /\ n.count = r.count
      /\ n.k = r.k /\ n.buf = r.buf
      /\ Ms(n) = Ms(r)
      /\ Gathered(r) => Gathered(n)'
      /\ \A m, i : (Reading(r, m, i) => Reading(n, m, i)') /\ (Taking(r, m, i) => Taking(n, m, i)')
  BY <1>2, <1>3, <1>5, SameDoing
<1>10. r.count \in 1..MaxCount /\ OnDisk(r.sector, r.count) /\ (r.op = "write" => r.buf = Buffer(r.count))
  BY <1>2 DEF Under
<1>11. CASE r.op = "read"
  <2>1. PICK m \in Ms(r) : Reading(r, m, 0)
    BY <1>2, <1>6, <1>11 DEF Under
  <2>2. m \in Ms(n) /\ Reading(n, m, 0)' /\ Gathered(n)'
    BY <1>2, <1>9, <1>11, <2>1 DEF Under
  <2>3. Under(n)'
    BY <1>8, <1>9, <1>10, <1>11, <2>2 DEF Under
  <2> QED BY <1>2, <1>4, <1>5, <1>9, <2>3, CallBecomes DEF DiskInv, Types
<1>12. CASE r.op = "write"
  <2>1. PICK m \in Ms(r) : Taking(r, m, 0)
    BY <1>2, <1>6, <1>7, <1>12 DEF Under
  <2>2. m \in Ms(n) /\ Taking(n, m, 0)'
    BY <1>9, <2>1
  <2>3. Under(n)'
    BY <1>8, <1>9, <1>10, <1>12, <2>2 DEF Under
  <2> QED BY <1>2, <1>4, <1>5, <1>9, <2>3, CallBecomes DEF DiskInv, Types
<1> QED BY <1>2, <1>11, <1>12 DEF CallRecords

LEMMA SendCommandKeeps ==
  ASSUME DiskInv, Masked, Prompt, Resident, NEW c \in Callers, SendCommand(c)
  PROVE  DiskInv'
<1>1. PICK r : r = call[c]
  OBVIOUS
<1>2. c \in Tasks /\ r \in CallRecords /\ r.at = "command" /\ Under(r)
      /\ \A e \in Callers \ {c} : call[e].at = "idle"
  BY <1>1, TheCall DEF SendCommand
<1>3. PICK n : n = [r EXCEPT !.at = "poll"]
  OBVIOUS
<1>4. n \in CallRecords /\ call' = [call EXCEPT ![c] = n]
  BY <1>1, <1>2, <1>3 DEF SendCommand, CallRecords, DiskInv, Types
<1>5. disk' = disk /\ reg' = reg /\ image' = image /\ Command(r.op)
  BY <1>1 DEF SendCommand
<1>6. /\ Still /\ r.k = 0 /\ Address = r.sector /\ Count = r.count /\ disk = image
      /\ (r.op = "read" => r.buf = <<>>) /\ (r.op = "write" => r.buf = Buffer(r.count))
      /\ r.count \in 1..MaxCount /\ OnDisk(r.sector, r.count)
  BY <1>2 DEF Under
<1>7. r.op \in {"read", "write"} /\ r.sector \in Nat /\ r.count \in Nat \ {0}
  BY <1>2, <1>6, ByteRange DEF CallRecords
<1>8. dev' = [state |-> "busy", op |-> r.op, lba |-> r.sector, left |-> r.count, data |-> <<>>]
  BY <1>5, <1>6, <1>7 DEF Command, Still, Listening
<1>9. dev' \in DevRecords
  BY <1>7, <1>8, DataIs DEF DevRecords
<1>10. /\ n.at = "poll" /\ n.op = r.op /\ n.sector = r.sector /\ n.count = r.count
       /\ n.k = r.k /\ n.buf = r.buf /\ Ms(n) = Ms(r)
       /\ Gathered(r) => Gathered(n)'
       /\ \A m : Landed(r, m) => Landed(n, m)'
  BY <1>2, <1>3, <1>5, SameDoing
<1>11. CASE r.op = "read"
  <2>1. Gathered(r)
    <3>1. \A m \in Nat, i \in 1..WORDS : m * WORDS \in Nat
      BY ByteRange
    <3>2. \A m \in Nat, i \in 1..WORDS : ~(m * WORDS + i <= 0)
      BY <3>1, ByteRange
    <3> QED BY <1>6, <1>11, <3>2, DataIs DEF Gathered
  <2>2. 0 \in Ms(n)
    BY <1>7, <1>10 DEF Ms
  <2>3. Seeking(n, 0)'
    <3>1. r.sector = r.sector + 0 /\ r.count = r.count - 0 /\ 0 = 0 * WORDS
      BY <1>7, ByteRange
    <3>2. n.sector + 0 = r.sector /\ n.count - 0 = r.count /\ n.k = 0 * WORDS
      BY <1>6, <1>10, <3>1
    <3>3. /\ dev'.op = "read" /\ dev'.state = "busy" /\ dev'.data = <<>>
          /\ dev'.lba = r.sector /\ dev'.left = r.count
      BY <1>8, <1>11
    <3> QED BY <3>2, <3>3 DEF Seeking
  <2>4. Under(n)'
    BY <1>6, <1>10, <1>11, <2>1, <2>2, <2>3 DEF Under
  <2> QED BY <1>2, <1>4, <1>5, <1>9, <1>10, <2>4, CallBecomes DEF DiskInv, Types
<1>12. CASE r.op = "write"
  <2>1. Landed(r, 0)
    <3>1. r.sector..(r.sector + 0 - 1) = {}
      BY <1>7
    <3> QED BY <1>6, <3>1 DEF Landed
  <2>2. Awaiting(n)'
    BY <1>6, <1>8, <1>10, <1>12, <2>1 DEF Awaiting
  <2>3. Under(n)'
    BY <1>6, <1>10, <1>12, <2>2 DEF Under
  <2> QED BY <1>2, <1>4, <1>5, <1>9, <1>10, <2>3, CallBecomes DEF DiskInv, Types
<1> QED BY <1>7, <1>11, <1>12

LEMMA SendFlushKeeps ==
  ASSUME DiskInv, Masked, Prompt, Resident, NEW c \in Callers, SendFlush(c)
  PROVE  DiskInv'
<1>1. PICK r : r = call[c]
  OBVIOUS
<1>2. c \in Tasks /\ r \in CallRecords /\ r.at = "flush" /\ Under(r)
      /\ \A e \in Callers \ {c} : call[e].at = "idle"
  BY <1>1, TheCall DEF SendFlush
<1>3. PICK n : n = [r EXCEPT !.at = "done"]
  OBVIOUS
<1>4. n \in CallRecords /\ call' = [call EXCEPT ![c] = n]
  BY <1>1, <1>2, <1>3 DEF SendFlush, CallRecords, DiskInv, Types
<1>5. disk' = disk /\ reg' = reg /\ image' = image /\ Command("flush") /\ dev.state # "busy"
  BY <1>1 DEF SendFlush, Settled
<1>6. /\ r.count \in 1..MaxCount /\ OnDisk(r.sector, r.count) /\ r.k = r.count * WORDS
      /\ r.op = "write" /\ r.buf = Buffer(r.count) /\ Still /\ Landed(r, r.count)
  <2>1. ~Storing(r, r.count - 1)
    BY <1>5 DEF Storing
  <2> QED BY <1>2, <2>1 DEF Under
<1>7. dev' = [Done EXCEPT !.state = "busy"]
  BY <1>5, <1>6 DEF Command, Still, Listening
<1>8. dev' \in DevRecords /\ Quiet'
  BY <1>7, DataIs DEF DevRecords, Done, Quiet
<1>9. /\ n.at = "done" /\ n.op = r.op /\ n.sector = r.sector /\ n.count = r.count
      /\ n.k = r.k /\ n.buf = r.buf
      /\ \A m : Landed(r, m) => Landed(n, m)'
  BY <1>2, <1>3, <1>5, SameDoing
<1>10. Under(n)'
  BY <1>6, <1>8, <1>9 DEF Under
<1> QED BY <1>2, <1>4, <1>5, <1>8, <1>9, <1>10, CallBecomes DEF DiskInv, Types

LEMMA ReturnKeeps ==
  ASSUME DiskInv, Masked, Prompt, Resident, NEW c \in Callers, Return(c)
  PROVE  DiskInv'
<1>1. PICK r : r = call[c]
  OBVIOUS
<1>2. c \in Tasks /\ r \in CallRecords /\ r.at = "done" /\ Under(r)
      /\ \A e \in Callers \ {c} : call[e].at = "idle"
  BY <1>1, TheCall DEF Return
<1>3. Returned \in CallRecords /\ Returned.at = "idle" /\ Returned.k = 0
  BY DataIs, ByteRange DEF Returned, CallRecords
<1>4. call' = [call EXCEPT ![c] = Returned] /\ dev' = dev /\ disk' = disk /\ reg' = reg /\ image' = image
  BY DEF Return
<1>5. Quiet'
  BY <1>2, <1>4 DEF Under, Quiet
<1> QED BY <1>2, <1>3, <1>4, <1>5, CallBecomes DEF DiskInv, Types

(* The buffer of write_disk *)
LEMMA BufferIs ==
  ASSUME NEW n \in 1..MaxCount
  PROVE  Buffer(n) \in Seq(Words)
<1>1. n \in Nat /\ WORDS \in Nat \ {0} /\ MaxCount \in Nat /\ n <= MaxCount
  BY ByteRange
<1>2. n * WORDS <= MaxCount * WORDS /\ n * WORDS \in Nat /\ MaxCount * WORDS \in Nat
  BY <1>1, SMTT(30)
<1>3. PICK a \in Nat, b \in Nat : a = n * WORDS /\ b = MaxCount * WORDS /\ a <= b
  BY <1>2
<1>4. \A i \in 1..a : <<"buffer", i>> \in Words
  BY <1>3 DEF Words
<1>5. [i \in 1..a |-> <<"buffer", i>>] \in Seq(Words)
  BY <1>4
<1> QED BY <1>3, <1>5 DEF Buffer

LEMMA CallKeeps ==
  ASSUME DiskInv, Masked, Prompt, Resident, NEW c \in Callers, NEW op \in {"read", "write"},
         NEW sector \in Sectors, NEW count \in 1..MaxCount, OnDisk(sector, count),
         Call(c, op, sector, count)
  PROVE  DiskInv'
<1>1. c \in Tasks /\ At(c, "idle") /\ \A t \in Tasks : At(t, "idle")
  BY DEF Call, Step, MayRun, MayCall, Callers
<1>2. Quiet /\ \A e \in Callers \ {c} : call[e].at = "idle"
  BY <1>1 DEF DiskInv, OneCall, At, Callers
<1>3. PICK b : b = IF op = "read" THEN <<>> ELSE Buffer(count)
  OBVIOUS
<1>4. b \in Seq(Words)
  BY <1>3, BufferIs, DataIs
<1>5. PICK n : n = [at |-> "setup", op |-> op, sector |-> sector, count |-> count, k |-> 1, buf |-> b]
  OBVIOUS
<1>6. call' = [call EXCEPT ![c] = n] /\ image' = disk /\ reg' = reg /\ dev' = dev /\ disk' = disk
  BY <1>3, <1>5 DEF Call
<1>7. sector \in Nat
  <2>1. BYTE * BYTE * BYTE * BYTE \in Nat
    BY ByteRange
  <2> QED BY <2>1, DiskAssumption
<1>8. n \in CallRecords
  BY <1>4, <1>5, <1>7, ByteRange DEF CallRecords
<1>9. n.at = "setup" /\ n.op = op /\ n.sector = sector /\ n.count = count /\ n.k = 1 /\ n.buf = b
  BY <1>5
<1>10. Quiet'
  BY <1>2, <1>6 DEF Quiet
<1>11. Under(n)'
  BY <1>3, <1>6, <1>9, <1>10 DEF Under
<1> QED BY <1>1, <1>2, <1>6, <1>8, <1>9, <1>11, CallBecomes DEF DiskInv, Types

(* The writes to the registers, one by one *)
LEMMA SetupIs ==
  ASSUME NEW sector, NEW count
  PROVE  /\ Len(Setup(sector, count)) = 8
         /\ Setup(sector, count)[1] = <<"1F2", Byte(count, 1)>>
         /\ Setup(sector, count)[2] = <<"1F3", Byte(sector, 3)>>
         /\ Setup(sector, count)[3] = <<"1F4", 0>>
         /\ Setup(sector, count)[4] = <<"1F5", 0>>
         /\ Setup(sector, count)[5] = <<"1F2", Byte(count, 0)>>
         /\ Setup(sector, count)[6] = <<"1F3", Byte(sector, 0)>>
         /\ Setup(sector, count)[7] = <<"1F4", Byte(sector, 1)>>
         /\ Setup(sector, count)[8] = <<"1F5", Byte(sector, 2)>>
BY DEF Setup

(* A write to a register that the disk takes notice of *)
LEMMA WriteIs ==
  ASSUME reg \in [Ports -> [last : 0..(BYTE - 1), before : 0..(BYTE - 1)]],
         NEW port \in Ports, NEW value \in 0..(BYTE - 1), Listening, outb(port, value)
  PROVE  /\ reg' \in [Ports -> [last : 0..(BYTE - 1), before : 0..(BYTE - 1)]]
         /\ reg'[port] = [last |-> value, before |-> reg[port].last]
         /\ \A p \in Ports \ {port} : reg'[p] = reg[p]
<1>1. reg' = [reg EXCEPT ![port] = [last |-> value, before |-> reg[port].last]]
  BY DEF outb
<1>2. [last |-> value, before |-> reg[port].last] \in [last : 0..(BYTE - 1), before : 0..(BYTE - 1)]
  OBVIOUS
<1> QED BY <1>1, <1>2

(* After the last write, the registers hold the sector and the count. *)
LEMMA SetupAddresses ==
  ASSUME NEW r, r.sector \in Nat, r.count \in Nat \ {0}, r.sector < BYTE * BYTE * BYTE * BYTE,
         r.count < BYTE * BYTE,
         reg'["1F2"] = [last |-> Byte(r.count, 0), before |-> Byte(r.count, 1)],
         reg'["1F3"] = [last |-> Byte(r.sector, 0), before |-> Byte(r.sector, 3)],
         reg'["1F4"] = [last |-> Byte(r.sector, 1), before |-> 0],
         reg'["1F5"] = [last |-> Byte(r.sector, 2), before |-> 0]
  PROVE  Address' = r.sector /\ Count' = r.count
<1>1. PICK x \in Nat : x = r.sector /\ x < BYTE * BYTE * BYTE * BYTE
  OBVIOUS
<1>2. Byte(x, 0) + BYTE * (Byte(x, 1) + BYTE * (Byte(x, 2) + BYTE * (Byte(x, 3)
        + BYTE * (0 + BYTE * 0)))) = x
  BY <1>1, BytesOf
<1>3. /\ reg'["1F3"].last = Byte(x, 0) /\ reg'["1F3"].before = Byte(x, 3)
      /\ reg'["1F4"].last = Byte(x, 1) /\ reg'["1F4"].before = 0
      /\ reg'["1F5"].last = Byte(x, 2) /\ reg'["1F5"].before = 0
  BY <1>1
<1>4. Address' = x
  BY <1>2, <1>3, Zenon DEF Address
<1>5. PICK y \in Nat \ {0} : y = r.count /\ y < BYTE * BYTE
  OBVIOUS
<1>6. Byte(y, 0) + BYTE * Byte(y, 1) = y
  BY <1>5, BytesOfCount
<1>7. reg'["1F2"].last = Byte(y, 0) /\ reg'["1F2"].before = Byte(y, 1)
  BY <1>5
<1>8. reg'["1F2"].last + BYTE * reg'["1F2"].before = y /\ y # 0
  BY <1>6, <1>7, Zenon
<1>9. Count' = y
  BY <1>8, Zenon DEF Count
<1> QED BY <1>1, <1>4, <1>5, <1>9

LEMMA SetRegisterKeeps ==
  ASSUME DiskInv, Masked, Prompt, Resident, NEW c \in Callers, SetRegister(c)
  PROVE  DiskInv'
<1>1. PICK r : r = call[c]
  OBVIOUS
<1>2. c \in Tasks /\ r \in CallRecords /\ r.at = "setup" /\ Under(r)
      /\ \A e \in Callers \ {c} : call[e].at = "idle"
  BY <1>1, TheCall DEF SetRegister
<1>3. PICK w : w = Setup(r.sector, r.count)
  OBVIOUS
<1>4. /\ Len(w) = 8
      /\ w[1] = <<"1F2", Byte(r.count, 1)>> /\ w[2] = <<"1F3", Byte(r.sector, 3)>>
      /\ w[3] = <<"1F4", 0>> /\ w[4] = <<"1F5", 0>>
      /\ w[5] = <<"1F2", Byte(r.count, 0)>> /\ w[6] = <<"1F3", Byte(r.sector, 0)>>
      /\ w[7] = <<"1F4", Byte(r.sector, 1)>> /\ w[8] = <<"1F5", Byte(r.sector, 2)>>
  BY <1>3, SetupIs
<1>5. /\ r.count \in 1..MaxCount /\ OnDisk(r.sector, r.count)
      /\ r.op = "write" => r.buf = Buffer(r.count)
      /\ r.op = "read" => r.buf = <<>>
      /\ disk = image /\ Quiet /\ r.k \in 1..8 /\ (r.k > 1 => RegistersSet(r))
  BY <1>2 DEF Under
<1>6. PICK n : n = [r EXCEPT !.at = IF r.k = 8 THEN "command" ELSE "setup",
                             !.k = IF r.k = 8 THEN 0 ELSE r.k + 1]
  OBVIOUS
<1>7. /\ outb(w[r.k][1], w[r.k][2]) /\ Settled
      /\ dev' = dev /\ disk' = disk /\ image' = image
      /\ call' = [call EXCEPT ![c].at = IF r.k = 8 THEN "command" ELSE "setup",
                              ![c].k = IF r.k = 8 THEN 0 ELSE r.k + 1]
  BY <1>1, <1>3, <1>4 DEF SetRegister
<1>8. n \in CallRecords /\ call' = [call EXCEPT ![c] = n]
  <2>1. call \in [Callers -> CallRecords]
    BY DEF DiskInv, Types
  <2>2. n \in CallRecords
    <3>1. PICK a \in {"command", "setup"}, q \in Nat :
            a = (IF r.k = 8 THEN "command" ELSE "setup") /\ q = (IF r.k = 8 THEN 0 ELSE r.k + 1)
      BY <1>5
    <3>2. n = [r EXCEPT !.at = a, !.k = q]
      BY <1>6, <3>1
    <3> QED BY <1>2, <3>2 DEF CallRecords
  <2> QED BY <1>1, <1>6, <1>7, <2>1, <2>2 DEF CallRecords
<1>9. /\ n.op = r.op /\ n.sector = r.sector /\ n.count = r.count /\ n.buf = r.buf
      /\ n.at = (IF r.k = 8 THEN "command" ELSE "setup") /\ n.k = (IF r.k = 8 THEN 0 ELSE r.k + 1)
  BY <1>2, <1>6 DEF CallRecords
<1>10. Still /\ Listening /\ dev \in DevRecords
  BY <1>5, <1>7 DEF DiskInv, Types, DevRecords, Settled, Quiet, Still, Listening
<1>11. Still' /\ Quiet'
  BY <1>7, <1>10 DEF Still, Quiet
<1>12. r.sector \in Nat /\ r.count \in Nat \ {0}
  BY <1>2, <1>5, ByteRange DEF CallRecords
<1>13. /\ \A i \in 0..3 : Byte(r.sector, i) \in 0..(BYTE - 1) /\ Byte(r.count, i) \in 0..(BYTE - 1)
       /\ 0 \in 0..(BYTE - 1)
  BY <1>12, ByteRange
<1>14. reg \in [Ports -> [last : 0..(BYTE - 1), before : 0..(BYTE - 1)]]
  BY DEF DiskInv, Types
<1>15. ASSUME NEW port \in Ports, NEW value \in 0..(BYTE - 1), w[r.k] = <<port, value>>,
              reg'[port] = [last |-> value, before |-> reg[port].last]
                /\ (\A p \in Ports \ {port} : reg'[p] = reg[p])
              => Under(n)'
       PROVE  DiskInv'
  <2>1. outb(port, value)
    <3>1. w[r.k][1] = port /\ w[r.k][2] = value
      BY <1>15
    <3> QED BY <1>7, <3>1, Zenon
  <2>2. /\ reg' \in [Ports -> [last : 0..(BYTE - 1), before : 0..(BYTE - 1)]]
        /\ reg'[port] = [last |-> value, before |-> reg[port].last]
        /\ \A p \in Ports \ {port} : reg'[p] = reg[p]
    BY <1>10, <1>14, <2>1, WriteIs
  <2>3. Under(n)' /\ n.at # "idle"
    BY <1>9, <1>15, <2>2
  <2>4. dev' \in DevRecords
    BY <1>7, <1>10
  <2> QED BY <1>2, <1>7, <1>8, <2>2, <2>3, <2>4, CallBecomes DEF DiskInv, Types
<1>16. /\ n.count \in 1..MaxCount /\ OnDisk(n.sector, n.count)
       /\ n.op = "write" => n.buf = Buffer(n.count)
       /\ n.op = "read" => n.buf = <<>>
       /\ disk' = image'
  BY <1>5, <1>7, <1>9
<1>17. ASSUME r.k \in 1..7, RegistersSet(n)' PROVE Under(n)'
  <2>1. n.at = "setup" /\ n.k \in 1..8
    BY <1>9, <1>17
  <2> QED BY <1>11, <1>16, <1>17, <2>1 DEF Under
<1>18. CASE r.k = 1
  <2>1. ASSUME reg'["1F2"] = [last |-> Byte(r.count, 1), before |-> reg["1F2"].last]
        PROVE  Under(n)'
    BY <1>9, <1>17, <1>18, <2>1 DEF RegistersSet
  <2> QED BY <1>4, <1>13, <1>15, <1>18, <2>1 DEF Ports
<1>19. CASE r.k = 2
  <2>1. ASSUME reg'["1F3"] = [last |-> Byte(r.sector, 3), before |-> reg["1F3"].last],
               \A p \in Ports \ {"1F3"} : reg'[p] = reg[p]
        PROVE  Under(n)'
    BY <1>5, <1>9, <1>17, <1>19, <2>1 DEF RegistersSet, Ports
  <2> QED BY <1>4, <1>13, <1>15, <1>19, <2>1 DEF Ports
<1>20. CASE r.k = 3
  <2>1. ASSUME reg'["1F4"] = [last |-> 0, before |-> reg["1F4"].last],
               \A p \in Ports \ {"1F4"} : reg'[p] = reg[p]
        PROVE  Under(n)'
    BY <1>5, <1>9, <1>17, <1>20, <2>1 DEF RegistersSet, Ports
  <2> QED BY <1>4, <1>13, <1>15, <1>20, <2>1 DEF Ports
<1>21. CASE r.k = 4
  <2>1. ASSUME reg'["1F5"] = [last |-> 0, before |-> reg["1F5"].last],
               \A p \in Ports \ {"1F5"} : reg'[p] = reg[p]
        PROVE  Under(n)'
    BY <1>5, <1>9, <1>17, <1>21, <2>1 DEF RegistersSet, Ports
  <2> QED BY <1>4, <1>13, <1>15, <1>21, <2>1 DEF Ports
<1>22. CASE r.k = 5
  <2>1. ASSUME reg'["1F2"] = [last |-> Byte(r.count, 0), before |-> reg["1F2"].last],
               \A p \in Ports \ {"1F2"} : reg'[p] = reg[p]
        PROVE  Under(n)'
    BY <1>5, <1>9, <1>17, <1>22, <2>1 DEF RegistersSet, Ports
  <2> QED BY <1>4, <1>13, <1>15, <1>22, <2>1 DEF Ports
<1>23. CASE r.k = 6
  <2>1. ASSUME reg'["1F3"] = [last |-> Byte(r.sector, 0), before |-> reg["1F3"].last],
               \A p \in Ports \ {"1F3"} : reg'[p] = reg[p]
        PROVE  Under(n)'
    BY <1>5, <1>9, <1>17, <1>23, <2>1 DEF RegistersSet, Ports
  <2> QED BY <1>4, <1>13, <1>15, <1>23, <2>1 DEF Ports
<1>24. CASE r.k = 7
  <2>1. ASSUME reg'["1F4"] = [last |-> Byte(r.sector, 1), before |-> reg["1F4"].last],
               \A p \in Ports \ {"1F4"} : reg'[p] = reg[p]
        PROVE  Under(n)'
    BY <1>5, <1>9, <1>17, <1>24, <2>1 DEF RegistersSet, Ports
  <2> QED BY <1>4, <1>13, <1>15, <1>24, <2>1 DEF Ports
<1>25. CASE r.k = 8
  <2>1. ASSUME reg'["1F5"] = [last |-> Byte(r.sector, 2), before |-> reg["1F5"].last],
               \A p \in Ports \ {"1F5"} : reg'[p] = reg[p]
        PROVE  Under(n)'
    <3>1. /\ reg'["1F2"] = [last |-> Byte(r.count, 0), before |-> Byte(r.count, 1)]
          /\ reg'["1F3"] = [last |-> Byte(r.sector, 0), before |-> Byte(r.sector, 3)]
          /\ reg'["1F4"] = [last |-> Byte(r.sector, 1), before |-> 0]
          /\ reg'["1F5"] = [last |-> Byte(r.sector, 2), before |-> 0]
      BY <1>5, <1>25, <2>1 DEF RegistersSet, Ports
    <3>2. r.sector < BYTE * BYTE * BYTE * BYTE /\ r.count < BYTE * BYTE
      <4>1. r.sector \in r.sector..(r.sector + r.count - 1)
        BY <1>12
      <4>2. BYTE * BYTE * BYTE * BYTE \in Nat /\ BYTE * BYTE \in Nat
        BY ByteRange
      <4> QED BY <1>5, <1>12, <4>1, <4>2, DiskAssumption DEF OnDisk
    <3>3. Address' = r.sector /\ Count' = r.count
      BY <1>12, <3>1, <3>2, SetupAddresses
    <3>4. n.at = "command" /\ n.k = 0 /\ Address' = n.sector /\ Count' = n.count
      BY <1>9, <1>25, <3>3
    <3> QED BY <1>11, <1>16, <3>4 DEF Under
  <2> QED BY <1>4, <1>13, <1>15, <1>25, <2>1 DEF Ports
<1>26. r.k = 1 \/ r.k = 2 \/ r.k = 3 \/ r.k = 4 \/ r.k = 5 \/ r.k = 6 \/ r.k = 7 \/ r.k = 8
  BY <1>5
<1> QED BY <1>18, <1>19, <1>20, <1>21, <1>22, <1>23, <1>24, <1>25, <1>26

LEMMA AfterWordIs ==
  ASSUME NEW c \in Callers, NEW m \in Nat, NEW i \in Is, NEW k, k = m * WORDS + i + 1,
         call[c].count \in Nat
  PROVE  /\ i + 1 < WORDS => AfterWord(c, k) = "move"
         /\ i + 1 = WORDS => /\ k = (m + 1) * WORDS
                             /\ m + 1 < call[c].count => AfterWord(c, k) = "poll"
                             /\ m + 1 >= call[c].count =>
                                  AfterWord(c, k) = IF call[c].op = "read" THEN "done" ELSE "flush"
<1>1. i \in 0..(WORDS - 1) /\ WORDS \in Nat \ {0}
  BY ByteRange DEF Is
<1>2. ASSUME i + 1 < WORDS PROVE AfterWord(c, k) = "move"
  <2>1. k % WORDS = i + 1
    BY <1>1, <1>2, WordCount
  <2>2. k % WORDS # 0
    BY <1>1, <2>1
  <2> QED BY <2>2 DEF AfterWord
<1>3. ASSUME i + 1 = WORDS
      PROVE  k = (m + 1) * WORDS /\ k % WORDS = 0 /\ SectorsMoved(k) = m + 1
  BY <1>1, <1>3, WordCount DEF SectorsMoved
<1>4. m + 1 < call[c].count => ~(m + 1 >= call[c].count)
  OBVIOUS
<1>5. ASSUME i + 1 = WORDS, m + 1 < call[c].count PROVE AfterWord(c, k) = "poll"
  BY <1>3, <1>4, <1>5 DEF AfterWord
<1>6. ASSUME i + 1 = WORDS, m + 1 >= call[c].count
      PROVE  AfterWord(c, k) = IF call[c].op = "read" THEN "done" ELSE "flush"
  BY <1>3, <1>4, <1>6 DEF AfterWord
<1> QED BY <1>2, <1>3, <1>5, <1>6

(* Every word of a buffer is one word of one sector. *)
LEMMA OneWord ==
  ASSUME NEW q \in Nat, NEW m \in Nat, NEW j \in 1..WORDS, NEW i \in Is,
         NEW u, NEW v, u = q * WORDS, v = m * WORDS, u + j = v + i + 1
  PROVE  q = m /\ j = i + 1
<1>1. PICK b \in Nat \ {0} : b = WORDS /\ i \in 0..(b - 1)
  BY ByteRange DEF Is
<1>2. PICK x \in 0..(b - 1) : x = j - 1
  BY <1>1
<1>3. PICK y \in 0..(b - 1) : y = i
  BY <1>1
<1>4. b * q \in Nat /\ b * m \in Nat
  BY <1>1
<1>5. q * WORDS = b * q /\ m * WORDS = b * m
  BY <1>1, SMTT(30)
<1>6. u = b * q /\ v = b * m
  BY <1>5
<1>7. u \in Nat /\ v \in Nat
  BY <1>4, <1>6, Zenon
<1>8. u + x = v + y
  BY <1>1, <1>2, <1>3, <1>7
<1>9. b * q + x = b * m + y
  BY <1>6, <1>8, Zenon
<1>10. q = m /\ x = y
  BY <1>9, OneDivision
<1> QED BY <1>2, <1>3, <1>10

(* The next word of sector m is read. *)
LEMMA GatheredGrows ==
  ASSUME NEW r \in CallRecords, NEW m \in Nat, NEW i \in Is, r.sector + m \in Sectors,
         disk \in [Sectors -> [1..WORDS -> Words]],
         Gathered(r), r.k = m * WORDS + i, disk' = disk, image' = image,
         NEW w, w = disk[r.sector + m][i + 1],
         NEW n, n.sector = r.sector, n.k = r.k + 1, n.buf = Append(r.buf, w)
  PROVE  /\ Gathered(n)' /\ w \in Words /\ n.buf \in Seq(Words)
<1>1. WORDS \in Nat \ {0} /\ i \in 0..(WORDS - 1) /\ m * WORDS \in Nat
  BY ByteRange DEF Is
<1>2. w \in Words
  <2>1. i + 1 \in 1..WORDS
    BY <1>1
  <2> QED BY <2>1
<1>3. /\ r.buf \in Seq(Words) /\ r.k \in Nat /\ Len(r.buf) = r.k /\ disk = image
      /\ \A q \in Nat, j \in 1..WORDS :
           q * WORDS + j <= r.k => r.buf[q * WORDS + j] = disk[r.sector + q][j]
  BY DEF Gathered, CallRecords
<1>4. /\ n.buf \in Seq(Words) /\ Len(n.buf) = r.k + 1 /\ n.buf[r.k + 1] = w
      /\ \A x \in 1..r.k : n.buf[x] = r.buf[x]
  BY <1>2, <1>3
<1>5. ASSUME NEW q \in Nat, NEW j \in 1..WORDS, q * WORDS + j <= r.k + 1
      PROVE  n.buf[q * WORDS + j] = disk[r.sector + q][j]
  <2>1. q * WORDS \in Nat /\ j \in Nat \ {0}
    BY <1>1
  <2>2. CASE q * WORDS + j <= r.k
    <3>1. q * WORDS + j \in 1..r.k
      BY <1>3, <2>1, <2>2
    <3>2. r.buf[q * WORDS + j] = disk[r.sector + q][j]
      BY <1>3, <2>2
    <3>3. n.buf[q * WORDS + j] = r.buf[q * WORDS + j]
      BY <1>4, <3>1
    <3> QED BY <3>2, <3>3
  <2>3. CASE q * WORDS + j = r.k + 1
    <3>1. PICK u \in Nat, v \in Nat : u = q * WORDS /\ v = m * WORDS
      BY <1>1, <2>1
    <3>2. r.k = v + i /\ u + j = r.k + 1
      BY <2>3, <3>1, Zenon
    <3>3. u + j = v + i + 1
      BY <1>1, <1>3, <2>1, <3>2
    <3>4. q = m /\ j = i + 1
      BY <3>1, <3>3, OneWord
    <3> QED BY <1>4, <2>3, <3>4
  <2>4. q * WORDS + j <= r.k \/ q * WORDS + j = r.k + 1
    BY <1>3, <1>5, <2>1
  <2> QED BY <2>2, <2>3, <2>4
<1>6. Gathered(n)'
  BY <1>3, <1>4, <1>5 DEF Gathered
<1> QED BY <1>2, <1>4, <1>6

LEMMA ReadWordKeeps ==
  ASSUME DiskInv, Masked, Prompt, Resident, NEW c \in Callers, ReadWord(c)
  PROVE  DiskInv'
<1>1. PICK r : r = call[c]
  OBVIOUS
<1>2. c \in Tasks /\ r \in CallRecords /\ r.at = "move" /\ Under(r) /\ r.op = "read"
      /\ \A e \in Callers \ {c} : call[e].at = "idle"
  BY <1>1, TheCall DEF ReadWord
<1>3. PICK m \in Ms(r), i \in Is : Reading(r, m, i)
  BY <1>2 DEF Under
<1>4. r.count \in 1..MaxCount /\ OnDisk(r.sector, r.count) /\ Gathered(r)
  BY <1>2 DEF Under
<1>5. /\ r.sector + m \in Sectors /\ r.sector + m \in Nat /\ m \in Nat /\ m + 1 <= r.count
      /\ r.count \in Nat /\ r.sector \in Nat /\ r.count - m - 1 \in Nat
  BY <1>2, <1>4, OwnSector
<1>6. WORDS \in Nat \ {0} /\ i \in 0..(WORDS - 1) /\ m * WORDS \in Nat
  BY <1>5, ByteRange DEF Is
<1>7. /\ dev.op = "read" /\ dev.state = "drq"
      /\ dev.lba = r.sector + m + 1 /\ dev.left = r.count - m - 1 /\ r.k = m * WORDS + i
      /\ Len(dev.data) = WORDS - i
      /\ \A j \in 1..(WORDS - i) : dev.data[j] = disk[r.sector + m][i + j]
  BY <1>3 DEF Reading
<1>8. PICK w : w = disk[r.sector + m][i + 1]
  OBVIOUS
<1>9. /\ dev \in DevRecords /\ disk \in [Sectors -> [1..WORDS -> Words]] /\ dev.data \in Seq(Words)
      /\ call \in [Callers -> CallRecords]
  BY DEF DiskInv, Types, DevRecords
<1>10. Head(dev.data) = w
  <2>1. 1 \in 1..(WORDS - i) /\ Len(dev.data) >= 1
    BY <1>6, <1>7
  <2>2. dev.data[1] = w
    BY <1>7, <1>8, <2>1
  <2> QED BY <1>9, <2>1, <2>2
<1>11. PICK a, k, s : a = AfterWord(c, r.k + 1) /\ k = r.k + 1 /\ s = Append(r.buf, w)
  OBVIOUS
<1>12. PICK n : n = [r EXCEPT !.buf = s, !.k = k, !.at = a]
  OBVIOUS
<1>13. /\ n.op = "read" /\ n.sector = r.sector /\ n.count = r.count /\ n.at = a
       /\ n.k = r.k + 1 /\ n.buf = Append(r.buf, w)
  BY <1>2, <1>11, <1>12 DEF CallRecords
<1>14. /\ disk' = disk /\ image' = image /\ reg' = reg
       /\ dev' = IF Len(dev.data) = 1 /\ dev.left = 0 THEN Done
                 ELSE [dev EXCEPT !.data = Tail(@), !.state = IF Len(dev.data) = 1 THEN "busy" ELSE "drq"]
  BY <1>7 DEF ReadWord
<1>15. call' = [call EXCEPT ![c] = n]
  <2>1. call' = [call EXCEPT ![c].buf = Append(@, w), ![c].k = k, ![c].at = a]
    BY <1>1, <1>7, <1>10, <1>11 DEF ReadWord
  <2> QED BY <1>1, <1>9, <1>11, <1>12, <2>1
<1>16. Gathered(n)' /\ n.buf \in Seq(Words)
  BY <1>2, <1>4, <1>5, <1>7, <1>8, <1>9, <1>13, <1>14, GatheredGrows
<1>17. k = m * WORDS + i + 1 /\ k \in Nat
  BY <1>6, <1>7, <1>11
<1>18. r.k + 1 = k /\ call[c].count \in Nat /\ call[c].op = "read"
  BY <1>1, <1>2, <1>5, <1>11
<1>19. /\ i + 1 < WORDS => a = "move"
       /\ i + 1 = WORDS => /\ k = (m + 1) * WORDS
                           /\ m + 1 < r.count => a = "poll"
                           /\ m + 1 >= r.count => a = "done"
  BY <1>1, <1>5, <1>11, <1>17, <1>18, AfterWordIs
<1>20. ASSUME a \in {"move", "poll", "done"}, dev' \in DevRecords, Under(n)' PROVE DiskInv'
  <2>1. n \in CallRecords
    <3>1. s \in Seq(Words)
      BY <1>11, <1>13, <1>16
    <3> QED BY <1>2, <1>12, <1>17, <1>20, <3>1 DEF CallRecords
  <2>2. n.at # "idle"
    BY <1>13, <1>20
  <2>3. /\ reg' \in [Ports -> [last : 0..(BYTE - 1), before : 0..(BYTE - 1)]]
        /\ disk' \in [Sectors -> [1..WORDS -> Words]] /\ image' \in [Sectors -> [1..WORDS -> Words]]
    BY <1>14 DEF DiskInv, Types
  <2> QED BY <1>2, <1>15, <1>20, <2>1, <2>2, <2>3, CallBecomes
<1>21. CASE i + 1 < WORDS
  <2>1. Len(dev.data) # 1
    BY <1>6, <1>7, <1>21
  <2>2. dev' = [state |-> "drq", op |-> "read", lba |-> dev.lba, left |-> dev.left, data |-> Tail(dev.data)]
    <3>1. dev' = [dev EXCEPT !.data = Tail(@), !.state = "drq"]
      BY <1>14, <2>1
    <3> QED BY <1>7, <1>9, <3>1 DEF DevRecords
  <2>3. /\ Tail(dev.data) \in Seq(Words) /\ Len(Tail(dev.data)) = WORDS - (i + 1)
        /\ \A j \in 1..(WORDS - (i + 1)) : Tail(dev.data)[j] = disk[r.sector + m][i + 1 + j]
    <3>1. PICK d : d = dev.data
      OBVIOUS
    <3>2. d \in Seq(Words) /\ Len(d) = WORDS - i /\ Len(d) > 1
      BY <1>6, <1>7, <1>9, <1>21, <3>1
    <3>3. /\ Tail(d) \in Seq(Words) /\ Len(Tail(d)) = Len(d) - 1
          /\ \A j \in 1..(Len(d) - 1) : Tail(d)[j] = d[j + 1]
      BY <3>2
    <3>4. Len(d) - 1 = WORDS - (i + 1)
      BY <1>6, <3>2
    <3>5. ASSUME NEW j \in 1..(WORDS - (i + 1)) PROVE Tail(d)[j] = disk[r.sector + m][i + 1 + j]
      <4>1. j + 1 \in 1..(WORDS - i) /\ i + (j + 1) = i + 1 + j
        BY <1>6
      <4>2. d[j + 1] = disk[r.sector + m][i + (j + 1)]
        BY <1>7, <3>1, <4>1
      <4> QED BY <3>3, <3>4, <4>1, <4>2
    <3> QED BY <3>1, <3>3, <3>4, <3>5
  <2>4. dev' \in DevRecords
    BY <1>9, <2>2, <2>3 DEF DevRecords
  <2>5. /\ dev'.op = "read" /\ dev'.state = "drq" /\ dev'.lba = dev.lba /\ dev'.left = dev.left
        /\ dev'.data = Tail(dev.data)
    BY <2>2
  <2>6. n.k = m * WORDS + (i + 1)
    BY <1>6, <1>7, <1>13
  <2>7. Reading(n, m, i + 1)'
    BY <1>7, <1>13, <1>14, <2>3, <2>5, <2>6 DEF Reading
  <2>8. i + 1 \in Is /\ m \in Ms(n)
    BY <1>5, <1>6, <1>13, <1>21 DEF Is, Ms
  <2>9. a = "move"
    BY <1>19, <1>21
  <2>10. Under(n)'
    BY <1>4, <1>13, <1>16, <2>7, <2>8, <2>9 DEF Under
  <2> QED BY <1>20, <2>4, <2>9, <2>10
<1>22. CASE i + 1 = WORDS /\ m + 1 < r.count
  <2>1. Len(dev.data) = 1 /\ dev.left # 0
    BY <1>5, <1>6, <1>7, <1>22
  <2>2. dev' = [state |-> "busy", op |-> "read", lba |-> dev.lba, left |-> dev.left, data |-> Tail(dev.data)]
    <3>1. dev' = [dev EXCEPT !.data = Tail(@), !.state = "busy"]
      BY <1>14, <2>1
    <3> QED BY <1>7, <1>9, <3>1 DEF DevRecords
  <2>3. Tail(dev.data) = <<>>
    <3>1. PICK d : d = dev.data
      OBVIOUS
    <3>2. d \in Seq(Words) /\ Len(d) = 1
      BY <1>9, <2>1, <3>1
    <3>3. d # <<>>
      <4>1. 0 # 1
        OBVIOUS
      <4>2. Len(<<>>) = 0
        BY DataIs
      <4> QED BY <3>2, <4>1, <4>2, Zenon
    <3>4. Tail(d) \in Seq(Words) /\ Len(Tail(d)) = Len(d) - 1
      BY <3>2, <3>3
    <3>5. Len(Tail(d)) = 0
      BY <3>2, <3>4
    <3> QED BY <3>1, <3>4, <3>5, DataIs
  <2>4. dev' \in DevRecords
    BY <1>9, <2>2, <2>3, DataIs DEF DevRecords
  <2>5. n.k = (m + 1) * WORDS
    BY <1>11, <1>13, <1>19, <1>22
  <2>6. dev.lba = r.sector + (m + 1) /\ dev.left = r.count - (m + 1)
    BY <1>5, <1>7
  <2>7. Seeking(n, m + 1)'
    BY <1>13, <2>2, <2>3, <2>5, <2>6 DEF Seeking
  <2>8. m + 1 \in Ms(n)
    BY <1>5, <1>13, <1>22 DEF Ms
  <2>9. a = "poll"
    BY <1>19, <1>22
  <2>10. Under(n)'
    BY <1>4, <1>13, <1>16, <2>7, <2>8, <2>9 DEF Under
  <2> QED BY <1>20, <2>4, <2>9, <2>10
<1>23. CASE i + 1 = WORDS /\ m + 1 = r.count
  <2>1. Len(dev.data) = 1 /\ dev.left = 0
    <3>1. r.count - m - 1 = 0 /\ WORDS - i = 1
      BY <1>5, <1>6, <1>23
    <3> QED BY <1>7, <3>1, Zenon
  <2>2. dev' = Done
    BY <1>14, <2>1
  <2>3. dev' \in DevRecords /\ Quiet'
    BY <2>2, DataIs DEF Done, Quiet, DevRecords
  <2>4. n.k = n.count * WORDS
    BY <1>11, <1>13, <1>19, <1>23
  <2>5. a = "done"
    BY <1>5, <1>19, <1>23
  <2>6. Under(n)'
    BY <1>4, <1>13, <1>16, <2>3, <2>4, <2>5 DEF Under
  <2> QED BY <1>20, <2>3, <2>5, <2>6
<1> QED BY <1>5, <1>6, <1>21, <1>22, <1>23

LEMMA WriteWordKeeps ==
  ASSUME DiskInv, Masked, Prompt, Resident, NEW c \in Callers, WriteWord(c)
  PROVE  DiskInv'
<1>1. PICK r : r = call[c]
  OBVIOUS
<1>2. c \in Tasks /\ r \in CallRecords /\ r.at = "move" /\ Under(r) /\ r.op = "write"
      /\ \A e \in Callers \ {c} : call[e].at = "idle"
  BY <1>1, TheCall DEF WriteWord
<1>3. PICK m \in Ms(r), i \in Is : Taking(r, m, i)
  BY <1>2 DEF Under
<1>4. r.count \in 1..MaxCount /\ OnDisk(r.sector, r.count) /\ r.buf = Buffer(r.count)
  BY <1>2 DEF Under
<1>5. /\ r.sector + m \in Sectors /\ r.sector + m \in Nat /\ m \in Nat /\ m + 1 <= r.count
      /\ r.count \in Nat /\ r.sector \in Nat /\ r.count - m - 1 \in Nat
  BY <1>2, <1>4, OwnSector
<1>6. WORDS \in Nat \ {0} /\ i \in 0..(WORDS - 1) /\ m * WORDS \in Nat
  BY <1>5, ByteRange DEF Is
<1>7. /\ dev.op = "write" /\ dev.state = "drq"
      /\ dev.lba = r.sector + m /\ dev.left = r.count - m - 1 /\ r.k = m * WORDS + i
      /\ Len(dev.data) = i /\ Landed(r, m)
      /\ \A j \in 1..i : dev.data[j] = r.buf[m * WORDS + j]
  BY <1>3 DEF Taking
<1>8. /\ dev \in DevRecords /\ disk \in [Sectors -> [1..WORDS -> Words]] /\ dev.data \in Seq(Words)
      /\ call \in [Callers -> CallRecords]
  BY DEF DiskInv, Types, DevRecords
<1>9. PICK w : w = r.buf[m * WORDS + i + 1]
  OBVIOUS
<1>10. PICK a, k, d : a = AfterWord(c, r.k + 1) /\ k = r.k + 1 /\ d = Append(dev.data, w)
  OBVIOUS
<1>11. k = m * WORDS + i + 1 /\ k \in Nat
  BY <1>6, <1>7, <1>10
<1>12. w \in Words
  <2>1. (m + 1) * WORDS = m * WORDS + WORDS
    BY <1>5, <1>6, WordCount
  <2>2. (m + 1) * WORDS <= r.count * WORDS /\ r.count * WORDS \in Nat
    BY <1>5, <1>6, SMTT(30)
  <2>3. PICK u \in Nat, v \in Nat, z \in Nat : u = m * WORDS /\ v = r.count * WORDS /\ z = (m + 1) * WORDS
    <3>1. (m + 1) * WORDS \in Nat
      BY <1>5, <1>6
    <3> QED BY <1>6, <2>2, <3>1, Zenon
  <2>4. u + i + 1 \in 1..v
    <3>1. z = u + WORDS /\ z <= v
      BY <2>1, <2>2, <2>3
    <3> QED BY <1>6, <2>3, <3>1
  <2>5. r.buf = [x \in 1..v |-> <<"buffer", x>>]
    BY <1>4, <2>3 DEF Buffer
  <2>6. r.buf \in Seq(Words)
    BY <1>2 DEF CallRecords
  <2>7. DOMAIN r.buf = 1..v
    BY <2>5
  <2>8. w = r.buf[u + i + 1]
    BY <1>9, <2>3, Zenon
  <2>9. PICK x : x = u + i + 1
    OBVIOUS
  <2>10. r.buf[x] \in Words
    <3>1. x \in DOMAIN r.buf
      BY <2>4, <2>7, <2>9
    <3>2. r.buf \in [1..Len(r.buf) -> Words]
      BY <2>6
    <3> QED BY <3>1, <3>2
  <2> QED BY <2>8, <2>9, <2>10
<1>13. /\ d \in Seq(Words) /\ Len(d) = i + 1 /\ d # <<>>
       /\ \A j \in 1..(i + 1) : d[j] = r.buf[m * WORDS + j]
  <2>1. PICK e : e = dev.data
    OBVIOUS
  <2>2. e \in Seq(Words) /\ Len(e) = i /\ d = Append(e, w)
    BY <1>7, <1>8, <1>10, <2>1
  <2>3. d \in Seq(Words) /\ Len(d) = i + 1 /\ d[i + 1] = w /\ \A j \in 1..i : d[j] = e[j]
    BY <1>6, <1>12, <2>2
  <2>4. PICK u \in Nat : u = m * WORDS
    BY <1>6
  <2>5. (u + i) + 1 = u + (i + 1)
    BY <1>6, <2>4
  <2>6. w = r.buf[u + (i + 1)]
    BY <1>9, <2>4, <2>5, Zenon
  <2>7. \A j \in 1..i : e[j] = r.buf[u + j]
    BY <1>7, <2>1, <2>4, Zenon
  <2>8. \A j \in 1..(i + 1) : j \in 1..i \/ j = i + 1
    BY <1>6
  <2>9. \A j \in 1..(i + 1) : d[j] = r.buf[u + j]
    BY <2>3, <2>6, <2>7, <2>8
  <2>10. Len(d) # 0
    BY <1>6, <2>3
  <2>11. d # <<>>
    BY <2>10, DataIs, Zenon
  <2> QED BY <2>3, <2>4, <2>9, <2>11, Zenon
<1>14. PICK n : n = [r EXCEPT !.k = k, !.at = a]
  OBVIOUS
<1>15. /\ n.op = "write" /\ n.sector = r.sector /\ n.count = r.count /\ n.at = a
       /\ n.k = k /\ n.buf = r.buf
  BY <1>2, <1>14 DEF CallRecords
<1>16. /\ disk' = disk /\ image' = image /\ reg' = reg
       /\ dev' = [dev EXCEPT !.data = d, !.state = IF Len(d) = WORDS THEN "busy" ELSE "drq"]
       /\ call' = [call EXCEPT ![c].k = k, ![c].at = a]
  <2>1. Append(dev.data, call[c].buf[call[c].k + 1]) = d
    <3>1. call[c].k + 1 = m * WORDS + i + 1 /\ call[c].buf = r.buf
      BY <1>1, <1>10, <1>11
    <3> QED BY <1>9, <1>10, <3>1, Zenon
  <2>2. call[c].k + 1 = k
    BY <1>1, <1>10
  <2>3. AfterWord(c, call[c].k + 1) = a
    BY <1>1, <1>10
  <2> QED BY <1>7, <2>1, <2>2, <2>3, Zenon DEF WriteWord
<1>17. call' = [call EXCEPT ![c] = n]
  BY <1>1, <1>8, <1>14, <1>16
<1>18. Landed(n, m)'
  BY <1>7, <1>15, <1>16 DEF Landed, PartOf
<1>19. /\ i + 1 < WORDS => a = "move"
       /\ i + 1 = WORDS => /\ k = (m + 1) * WORDS
                           /\ m + 1 < r.count => a = "poll"
                           /\ m + 1 >= r.count => a = "flush"
  <2>1. r.k + 1 = k /\ call[c].count \in Nat /\ call[c].op = "write"
    BY <1>1, <1>2, <1>5, <1>10
  <2> QED BY <1>1, <1>5, <1>10, <1>11, <2>1, AfterWordIs
<1>20. ASSUME a \in {"move", "poll", "flush"}, dev' \in DevRecords, Under(n)' PROVE DiskInv'
  <2>1. n \in CallRecords
    BY <1>2, <1>11, <1>14, <1>20 DEF CallRecords
  <2>2. n.at # "idle"
    BY <1>15, <1>20
  <2>3. /\ reg' \in [Ports -> [last : 0..(BYTE - 1), before : 0..(BYTE - 1)]]
        /\ disk' \in [Sectors -> [1..WORDS -> Words]] /\ image' \in [Sectors -> [1..WORDS -> Words]]
    BY <1>16 DEF DiskInv, Types
  <2> QED BY <1>2, <1>17, <1>20, <2>1, <2>2, <2>3, CallBecomes
<1>21. CASE i + 1 < WORDS
  <2>1. dev' = [state |-> "drq", op |-> "write", lba |-> dev.lba, left |-> dev.left, data |-> d]
    <3>1. Len(d) # WORDS
      BY <1>6, <1>13, <1>21
    <3>2. dev' = [dev EXCEPT !.data = d, !.state = "drq"]
      BY <1>16, <3>1
    <3> QED BY <1>7, <1>8, <3>2 DEF DevRecords
  <2>2. dev' \in DevRecords
    BY <1>8, <1>13, <2>1 DEF DevRecords
  <2>3. /\ dev'.op = "write" /\ dev'.state = "drq" /\ dev'.lba = dev.lba /\ dev'.left = dev.left
        /\ dev'.data = d
    BY <2>1
  <2>4. n.k = m * WORDS + (i + 1)
    BY <1>6, <1>11, <1>15
  <2>5. Taking(n, m, i + 1)'
    BY <1>7, <1>13, <1>15, <1>18, <2>3, <2>4 DEF Taking
  <2>6. i + 1 \in Is /\ m \in Ms(n)
    BY <1>5, <1>6, <1>15, <1>21 DEF Is, Ms
  <2>7. a = "move"
    BY <1>19, <1>21
  <2>8. Under(n)'
    BY <1>4, <1>15, <2>5, <2>6, <2>7 DEF Under
  <2> QED BY <1>20, <2>2, <2>7, <2>8
<1>22. CASE i + 1 = WORDS
  <2>1. dev' = [state |-> "busy", op |-> "write", lba |-> dev.lba, left |-> dev.left, data |-> d]
    <3>1. Len(d) = WORDS
      BY <1>13, <1>22
    <3>2. dev' = [dev EXCEPT !.data = d, !.state = "busy"]
      BY <1>16, <3>1
    <3> QED BY <1>7, <1>8, <3>2 DEF DevRecords
  <2>2. dev' \in DevRecords
    BY <1>8, <1>13, <2>1 DEF DevRecords
  <2>3. /\ dev'.op = "write" /\ dev'.state = "busy" /\ dev'.lba = dev.lba /\ dev'.left = dev.left
        /\ dev'.data = d
    BY <2>1
  <2>4. n.k = (m + 1) * WORDS
    BY <1>15, <1>19, <1>22
  <2>5. Storing(n, m)'
    BY <1>7, <1>13, <1>15, <1>18, <1>22, <2>3, <2>4 DEF Storing
  <2>6. m \in Ms(n)
    BY <1>5, <1>15 DEF Ms
  <2>7. CASE m + 1 < r.count
    <3>1. a = "poll"
      BY <1>19, <1>22, <2>7
    <3>2. Under(n)'
      BY <1>4, <1>15, <2>5, <2>6, <2>7, <3>1 DEF Under
    <3> QED BY <1>20, <2>2, <3>1, <3>2
  <2>8. CASE m + 1 = r.count
    <3>1. a = "flush"
      BY <1>5, <1>19, <1>22, <2>8
    <3>2. m = n.count - 1 /\ n.k = n.count * WORDS
      <4>1. m = r.count - 1
        BY <1>5, <2>8
      <4> QED BY <1>15, <2>4, <2>8, <4>1
    <3>3. Storing(n, n.count - 1)'
      BY <2>5, <3>2
    <3>4. Under(n)'
      BY <1>4, <1>15, <3>1, <3>2, <3>3 DEF Under
    <3> QED BY <1>20, <2>2, <3>1, <3>4
  <2> QED BY <1>5, <2>7, <2>8
<1> QED BY <1>6, <1>21, <1>22
-----------------------------------------------------------------------------
LEMMA StepKeeps ==
  ASSUME DiskInv, Masked, Prompt, Resident, [Next]_vars
  PROVE  DiskInv'
<1>1. CASE Device
  BY <1>1, FetchKeeps, AcceptKeeps, CommitKeeps, FlushKeeps DEF Device
<1>2. ASSUME NEW c \in Callers, InCall(c) PROVE DiskInv'
  BY <1>2, SetRegisterKeeps, SendCommandKeeps, PollKeeps, ReadWordKeeps, WriteWordKeeps,
     SendFlushKeeps, ReturnKeeps DEF InCall
<1>3. ASSUME NEW c \in Callers, NEW sector \in Sectors, NEW count \in 1..MaxCount,
             OnDisk(sector, count), read_disk(c, sector, count) \/ write_disk(c, sector, count)
      PROVE  DiskInv'
  BY <1>3, CallKeeps DEF read_disk, write_disk
<1>4. CASE UNCHANGED vars
  <2>1. reg' = reg /\ dev' = dev /\ disk' = disk /\ call' = call /\ image' = image
    BY <1>4 DEF vars
  <2>2. ASSUME NEW r, Under(r) PROVE Under(r)'
    <3>1. Address' = Address /\ Count' = Count /\ (Quiet => Quiet') /\ (Still => Still')
      BY <2>1 DEF Address, Count, Quiet, Still
    <3>2. (RegistersSet(r) => RegistersSet(r)') /\ (Gathered(r) => Gathered(r)')
      BY <2>1 DEF RegistersSet, Gathered
    <3>3. \A m : Landed(r, m) => Landed(r, m)'
      BY <2>1 DEF Landed
    <3>4. \A m : (Seeking(r, m) => Seeking(r, m)') /\ (Storing(r, m) => Storing(r, m)')
      BY <2>1, <3>3 DEF Seeking, Storing
    <3>5. \A m, i : (Reading(r, m, i) => Reading(r, m, i)') /\ (Taking(r, m, i) => Taking(r, m, i)')
      BY <2>1, <3>3 DEF Reading, Taking
    <3>6. Awaiting(r) => Awaiting(r)'
      BY <2>1, <3>3 DEF Awaiting
    <3>7. disk = image => disk' = image'
      BY <2>1
    <3> QED BY <2>2, <3>1, <3>2, <3>3, <3>4, <3>5, <3>6, <3>7 DEF Under
  <2>3. \A r \in {call[c] : c \in Tasks} : r.at # "idle" /\ Under(r) => Under(r)'
    BY <2>2
  <2>4. (\A c \in Tasks : At(c, "idle")) => Quiet'
    BY <2>1 DEF DiskInv, Quiet
  <2> QED BY <2>1, <2>3, <2>4, CallStays DEF DiskInv, Types
<1> QED BY <1>1, <1>2, <1>3, <1>4 DEF Next

(* Products with a bounded factor are bounded. *)
LEMMA Within ==
  ASSUME NEW a \in Nat, NEW b \in Nat, a <= b
  PROVE  a * WORDS \in Nat /\ b * WORDS \in Nat /\ a * WORDS <= b * WORDS
<1>1. WORDS \in Nat
  BY ByteRange
<1> QED BY <1>1, SMTT(30)

(* The counters of a call that is under way *)
LEMMA CountersBounded ==
  ASSUME NEW r \in CallRecords, r.at # "idle", Under(r), dev \in DevRecords
  PROVE  r.k \in 0..(MaxCount * WORDS) \cup 1..8 /\ dev.left \in 0..MaxCount /\ Len(dev.data) <= WORDS
<1>1. r.count \in 1..MaxCount /\ OnDisk(r.sector, r.count) /\ WORDS \in Nat \ {0} /\ MaxCount \in Nat
      /\ r.k \in Nat /\ r.count \in Nat
  BY ByteRange DEF Under, CallRecords
<1>2. MaxCount * WORDS \in Nat
  BY <1>1
<1>3. ASSUME NEW q \in Nat, q <= r.count, r.k <= q * WORDS
      PROVE  r.k \in 0..(MaxCount * WORDS)
  <2>1. q <= MaxCount
    BY <1>1, <1>3
  <2>2. q * WORDS \in Nat /\ q * WORDS <= MaxCount * WORDS
    BY <1>1, <2>1, Within
  <2> QED BY <1>1, <1>2, <1>3, <2>2
<1>4. \A m \in Ms(r) : m \in Nat /\ m + 1 \in Nat /\ m <= r.count /\ m + 1 <= r.count
                       /\ r.count - m \in 0..MaxCount /\ r.count - m - 1 \in 0..MaxCount
  BY <1>1 DEF Ms
<1>5. ASSUME NEW m \in Ms(r), NEW i \in Is, r.k = m * WORDS + i
      PROVE  r.k <= (m + 1) * WORDS
  <2>1. i \in 0..(WORDS - 1)
    BY <1>5 DEF Is
  <2>2. (m + 1) * WORDS = m * WORDS + WORDS /\ m * WORDS \in Nat
    BY <1>4, <2>1, WordCount
  <2>3. PICK u \in Nat : u = m * WORDS
    BY <2>2
  <2>4. u + i <= u + WORDS
    BY <1>1, <2>1, <2>3
  <2> QED BY <1>5, <2>2, <2>3, <2>4, Zenon
<1>6. 0 \in Is
  BY <1>1 DEF Is
<1>7. CASE Quiet
  <2>1. dev.left \in 0..MaxCount /\ Len(dev.data) <= WORDS
    BY <1>1, <1>7, DataIs DEF Quiet
  <2>2. r.k \in 0..(MaxCount * WORDS) \cup 1..8
    <3>1. r.at \in {"setup", "command", "done", "poll", "move", "flush"}
      BY DEF CallRecords
    <3>2. r.at \notin {"poll", "move"}
      BY <1>7 DEF Under, Quiet, Seeking, Reading, Awaiting, Taking, Storing
    <3>3. CASE r.at = "setup"
      BY <3>3 DEF Under
    <3>4. CASE r.at = "command"
      BY <1>2, <3>4 DEF Under
    <3>5. CASE r.at \in {"flush", "done"}
      <4>1. r.k = r.count * WORDS
        BY <3>5 DEF Under
      <4>2. r.k <= r.count * WORDS
        BY <1>1, <4>1
      <4> QED BY <1>1, <1>3, <4>2
    <3> QED BY <3>1, <3>2, <3>3, <3>4, <3>5
  <2> QED BY <2>1, <2>2
<1>8. ASSUME NEW m \in Ms(r), Seeking(r, m)
      PROVE  r.k \in 0..(MaxCount * WORDS) /\ dev.left \in 0..MaxCount /\ Len(dev.data) <= WORDS
  <2>1. r.k = m * WORDS /\ dev.left = r.count - m /\ dev.data = <<>>
    BY <1>8 DEF Seeking
  <2>2. r.k <= m * WORDS
    BY <1>1, <2>1
  <2>3. Len(dev.data) <= WORDS
    BY <1>1, <2>1, DataIs
  <2> QED BY <1>3, <1>4, <2>1, <2>2, <2>3
<1>9. ASSUME NEW m \in Ms(r), NEW i \in Is, Reading(r, m, i)
      PROVE  r.k \in 0..(MaxCount * WORDS) /\ dev.left \in 0..MaxCount /\ Len(dev.data) <= WORDS
  <2>1. r.k = m * WORDS + i /\ dev.left = r.count - m - 1 /\ Len(dev.data) = WORDS - i
    BY <1>9 DEF Reading
  <2>2. r.k <= (m + 1) * WORDS
    BY <1>5, <2>1
  <2>3. Len(dev.data) <= WORDS
    BY <1>1, <2>1 DEF Is
  <2> QED BY <1>3, <1>4, <2>1, <2>2, <2>3
<1>10. ASSUME NEW m \in Ms(r), NEW i \in Is, Taking(r, m, i)
       PROVE  r.k \in 0..(MaxCount * WORDS) /\ dev.left \in 0..MaxCount /\ Len(dev.data) <= WORDS
  <2>1. r.k = m * WORDS + i /\ dev.left = r.count - m - 1 /\ Len(dev.data) = i
    BY <1>10 DEF Taking
  <2>2. r.k <= (m + 1) * WORDS
    BY <1>5, <2>1
  <2>3. Len(dev.data) <= WORDS
    BY <1>1, <2>1 DEF Is
  <2> QED BY <1>3, <1>4, <2>1, <2>2, <2>3
<1>11. ASSUME NEW m \in Ms(r), Storing(r, m)
       PROVE  r.k \in 0..(MaxCount * WORDS) /\ dev.left \in 0..MaxCount /\ Len(dev.data) <= WORDS
  <2>1. r.k = (m + 1) * WORDS /\ dev.left = r.count - m - 1 /\ Len(dev.data) = WORDS
    BY <1>11 DEF Storing
  <2>2. r.k <= (m + 1) * WORDS /\ Len(dev.data) <= WORDS
    BY <1>1, <2>1
  <2> QED BY <1>3, <1>4, <2>1, <2>2
<1>12. ASSUME Awaiting(r)
       PROVE  r.k \in 0..(MaxCount * WORDS) /\ dev.left \in 0..MaxCount /\ Len(dev.data) <= WORDS
  BY <1>1, <1>2, <1>12, DataIs DEF Awaiting
<1>13. r.count - 1 \in Ms(r)
  BY <1>1 DEF Ms
<1> QED BY <1>6, <1>7, <1>8, <1>9, <1>10, <1>11, <1>12, <1>13, DiskDoes

LEMMA InvTypeOK ==
  ASSUME DiskInv
  PROVE  TypeOK
<1>1. /\ Types /\ OneCall /\ dev \in DevRecords /\ call \in [Callers -> CallRecords]
  BY DEF DiskInv, Types
<1>2. /\ dev.state \in {"idle", "busy", "drq"} /\ dev.op \in {"read", "write", "flush"}
      /\ dev.lba \in Nat /\ dev.data \in Seq(Words)
  BY <1>1 DEF DevRecords
<1>3. 0 \in 0..(MaxCount * WORDS) /\ 0 \in 0..MaxCount /\ WORDS \in Nat
  <2>1. MaxCount * WORDS \in Nat
    BY ByteRange
  <2> QED BY <2>1, ByteRange
<1>4. ASSUME NEW c \in Tasks, NEW r, r = call[c], r.at # "idle"
      PROVE  /\ r.k \in 0..(MaxCount * WORDS) \cup 1..8
             /\ dev.left \in 0..MaxCount /\ Len(dev.data) <= WORDS
  <2>1. r \in CallRecords /\ Under(r)
    BY <1>1, <1>4 DEF DiskInv, Callers
  <2> QED BY <1>1, <1>4, <2>1, CountersBounded
<1>5. dev.left \in 0..MaxCount /\ Len(dev.data) <= WORDS
  <2>1. CASE \A c \in Tasks : At(c, "idle")
    <3>1. dev.left = 0 /\ dev.data = <<>>
      BY <2>1 DEF DiskInv, Quiet
    <3> QED BY <1>3, <3>1, DataIs
  <2>2. CASE \E c \in Tasks : call[c].at # "idle"
    BY <1>4, <2>2
  <2> QED BY <2>1, <2>2 DEF At
<1>6. dev.left \in 0..(BYTE * BYTE)
  <2>1. BYTE * BYTE \in Nat
    BY ByteRange
  <2> QED BY <1>5, <2>1, DiskAssumption
<1>7. ASSUME NEW c \in Callers, NEW r, r = call[c]
      PROVE  /\ r.at \in {"idle", "setup", "command", "poll", "move", "flush", "done"}
             /\ r.op \in {"read", "write"} /\ r.buf \in Seq(Words)
             /\ r.k \in 0..(MaxCount * WORDS) \cup 1..8
  <2>1. r \in CallRecords
    BY <1>1, <1>7
  <2>2. r.k \in 0..(MaxCount * WORDS) \cup 1..8
    <3>1. CASE r.at = "idle"
      <4>1. r.k = 0
        BY <1>1, <1>7, <3>1 DEF OneCall, At
      <4> QED BY <1>3, <4>1
    <3>2. CASE r.at # "idle"
      <4>1. c \in Tasks
        BY <1>1, <1>7, <3>2 DEF OneCall, At, Callers
      <4> QED BY <1>4, <1>7, <3>2, <4>1
    <3> QED BY <3>1, <3>2
  <2> QED BY <2>1, <2>2 DEF CallRecords
<1> QED BY <1>1, <1>2, <1>5, <1>6, <1>7 DEF TypeOK, Types

LEMMA InvReads ==
  ASSUME DiskInv
  PROVE  ReadsReturnSectors
<1> SUFFICES ASSUME NEW c \in Callers, At(c, "done"), call[c].op = "read"
             PROVE  /\ Len(call[c].buf) = call[c].count * WORDS
                    /\ \A s \in Addressed(c) : Part(c, s) = disk[s]
                    /\ disk = image
  BY DEF ReadsReturnSectors
<1>1. PICK r : r = call[c]
  OBVIOUS
<1>2. c \in Tasks /\ r \in CallRecords /\ r.at = "done" /\ r.op = "read"
  BY <1>1 DEF DiskInv, Types, OneCall, At, Callers
<1>3. Under(r)
  BY <1>1, <1>2 DEF DiskInv
<1>4. /\ Gathered(r) /\ r.k = r.count * WORDS /\ r.count \in 1..MaxCount /\ OnDisk(r.sector, r.count)
      /\ r.count \in Nat /\ r.sector \in Nat
  BY <1>2, <1>3, ByteRange DEF Under, CallRecords
<1>5. Len(r.buf) = r.count * WORDS /\ disk = image
  BY <1>4 DEF Gathered
<1>6. ASSUME NEW s \in r.sector..(r.sector + r.count - 1)
      PROVE  [i \in 1..WORDS |-> r.buf[(s - r.sector) * WORDS + i]] = disk[s]
  <2>1. s \in Sectors /\ disk[s] \in [1..WORDS -> Words]
    BY <1>4 DEF OnDisk, DiskInv, Types
  <2>2. PICK m \in Nat : m = s - r.sector /\ r.sector + m = s /\ m + 1 <= r.count
    BY <1>4
  <2>3. ASSUME NEW i \in 1..WORDS PROVE r.buf[m * WORDS + i] = disk[s][i]
    <3>1. (m + 1) * WORDS <= r.count * WORDS /\ r.count * WORDS \in Nat
      <4>1. m + 1 \in Nat
        OBVIOUS
      <4> QED BY <1>4, <2>2, <4>1, Within
    <3>2. (m + 1) * WORDS = m * WORDS + WORDS /\ m * WORDS \in Nat /\ WORDS \in Nat
      BY ByteRange, SMTT(30)
    <3>3. PICK u \in Nat, v \in Nat : u = m * WORDS /\ v = r.count * WORDS
      BY <3>1, <3>2
    <3>4. u + WORDS <= v
      BY <3>1, <3>2, <3>3, Zenon
    <3>5. u + i <= v
      BY <3>2, <3>3, <3>4
    <3>6. m * WORDS + i <= r.k
      BY <1>4, <3>3, <3>5, Zenon
    <3> QED BY <1>4, <2>2, <3>6 DEF Gathered
  <2> QED BY <2>1, <2>2, <2>3
<1>7. \A s \in Addressed(c) : Part(c, s) = disk[s]
  BY <1>1, <1>6, Zenon DEF Addressed, Part
<1> QED BY <1>1, <1>5, <1>7

LEMMA InvWrites ==
  ASSUME DiskInv
  PROVE  WritesLand
<1> SUFFICES ASSUME NEW c \in Callers, At(c, "done"), call[c].op = "write"
             PROVE  disk = [s \in Sectors |-> IF s \in Addressed(c) THEN Part(c, s) ELSE image[s]]
  BY DEF WritesLand
<1>1. PICK r : r = call[c]
  OBVIOUS
<1>2. c \in Tasks /\ r.at = "done" /\ r.op = "write"
  BY <1>1 DEF DiskInv, OneCall, At, Callers
<1>3. Under(r)
  BY <1>1, <1>2 DEF DiskInv
<1>4. Landed(r, r.count)
  BY <1>2, <1>3 DEF Under
<1>5. \A s \in Sectors : disk[s] = IF s \in Addressed(c) THEN Part(c, s) ELSE image[s]
  BY <1>1, <1>4, Zenon DEF Landed, PartOf, Addressed, Part
<1>6. disk \in [Sectors -> [1..WORDS -> Words]]
  BY DEF DiskInv, Types
<1> QED BY <1>5, <1>6

LEMMA Invariant ==
  ASSUME Masked, Prompt, Resident
  PROVE  Spec => []DiskInv
<1>1. Init => DiskInv
  BY InitInv
<1>2. DiskInv /\ [Next]_vars => DiskInv'
  BY StepKeeps
<1> QED BY <1>1, <1>2, PTL DEF Spec

(***************************************************************************)
(* read_disk and write_disk never count past the words of the call, and    *)
(* the disk never has more sectors left than it was asked for.             *)
(***************************************************************************)
THEOREM TypeCorrect ==
  ASSUME Masked, Prompt, Resident
  PROVE  Spec => []TypeOK
<1>1. DiskInv => TypeOK
  BY InvTypeOK
<1> QED BY <1>1, Invariant, PTL

(***************************************************************************)
(* disk.h:49: read_disk returns the sectors it was called for, in order,   *)
(* if its call is not interleaved with another and its stores do not       *)
(* fault.  The two halves of every register, the sector count and the      *)
(* loops' counters together address exactly those sectors.                 *)
(***************************************************************************)
THEOREM ReadsAreRight ==
  ASSUME Masked, Prompt, Resident
  PROVE  Spec => []ReadsReturnSectors
<1>1. DiskInv => ReadsReturnSectors
  BY InvReads
<1> QED BY <1>1, Invariant, PTL

(***************************************************************************)
(* disk.h:110: when write_disk returns, the sectors it was called for hold *)
(* its buffer and no other sector has changed, under the same conditions.  *)
(***************************************************************************)
THEOREM WritesAreRight ==
  ASSUME Masked, Prompt, Resident
  PROVE  Spec => []WritesLand
<1>1. DiskInv => WritesLand
  BY InvWrites
<1> QED BY <1>1, Invariant, PTL
=============================================================================
