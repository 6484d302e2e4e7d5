--------------------------- MODULE FileSysProofs ---------------------------
(***************************************************************************)
(* Theorems about FileSys, for disks, sectors and files of every size and  *)
(* for any number of clients that keep to the rules of CarefulWrite.       *)
(***************************************************************************)
EXTENDS FileSys, FiniteSetTheorems, SequenceTheorems, WellFoundedInduction, TLAPS

-----------------------------------------------------------------------------
(* The invariant *)

Fcbs ==
  [file_name : Names \cup {"usr", "root"}, first_sector : Int, last_sector : Int,
   sector_count : Int, file_size : Int]
Cells == Bytes \cup {Blank, Program} \cup Fcbs
Blocks == [data : [0..(BLOCK - 1) -> Cells], next : Int]

(* Sector k of a file, and its cell j. *)
Sec(d, f, k) == Follow(d, f.first_sector, k)
Cell(d, f, j) == read_disk(d, Sec(d, f, NTH_BLOCK(j))).data[IN_BLOCK_OFFSET(j)]

(* The files of a disk: the root and those it has entries for. *)
Size(d) == RootFcb(d).file_size
FcbAt(d, i) == IF i = 0 THEN RootFcb(d) ELSE Cell(d, RootFcb(d), i - 1)

(* An FCB and the chain it describes. *)
Well(d, u, f) ==
  /\ f \in Fcbs /\ f.sector_count \in Nat \ {0}
  /\ f.file_size \in 0..MaxSize /\ f.file_size <= f.sector_count * BLOCK
  /\ \A k \in 0..(f.sector_count - 1) : Sec(d, f, k) \in u \ {SECTOR_WITH_ROOT_FCB}
  /\ \A k, l \in 0..(f.sector_count - 1) : Sec(d, f, k) = Sec(d, f, l) => k = l
  /\ Sec(d, f, f.sector_count - 1) = f.last_sector

Apart(d, f, g) ==
  \A k \in 0..(f.sector_count - 1), l \in 0..(g.sector_count - 1) :
    Sec(d, f, k) # Sec(d, g, l)

Links(d) ==
  \A s \in Sectors : d[s].next \in Sectors \cup
    IF s < SWAP_START THEN {None, Mistyped} ELSE {None, Overwritten}

Sound(d, u) ==
  /\ d \in [Sectors -> Blocks] /\ Links(d) /\ Size(d) \in Nat
  /\ u \subseteq 0..(SWAP_START - 1) /\ SECTOR_WITH_ROOT_FCB \in u
  /\ \A i \in 0..Size(d) : Well(d, u, FcbAt(d, i))
  /\ \A i, j \in 0..Size(d) : i # j => Apart(d, FcbAt(d, i), FcbAt(d, j))

(* A file holds a text. *)
Holds(d, f, t) ==
  /\ Len(t) = f.file_size
  /\ \A j \in 1..f.file_size : Cell(d, f, j - 1) = t[j]

Texts(d, t) ==
  /\ t \in [DOMAIN t -> Seq(Bytes \cup {Program})]
  /\ DOMAIN t \subseteq Names \cup {"usr"}
  /\ \A i \in 1..Size(d) :
       LET f == FcbAt(d, i)
       IN f.file_name \in DOMAIN t /\ Holds(d, f, t[f.file_name])
  /\ \A i, j \in 1..Size(d) : FcbAt(d, i).file_name = FcbAt(d, j).file_name => i = j
  /\ \A name \in DOMAIN t : \E i \in 1..Size(d) : FcbAt(d, i).file_name = name

(* f is the FCB g or was it before the file grew. *)
Older(f, g) ==
  /\ f.first_sector = g.first_sector
  /\ f = g \/ /\ SectorsFor(f.file_size) <= f.sector_count
              /\ f.sector_count <= g.sector_count

Handle ==
  [file : Fcbs, path : Names \cup {RootPath, "usr"}, index : Nat,
   read_seek : Nat, write_seek : Nat, read_sector : Int, write_sector : Int]

OpenOn(h, g, i) ==
  /\ Older(h.file, g)
  /\ h.path = RootPath <=> i = 0
  /\ i # 0 => g.file_name = h.path /\ h.file.file_name = h.path

Placed(d, h) ==
  /\ h \in Handle
  /\ h.file.file_size \in 0..MaxSize
  /\ h.read_seek <= h.file.file_size /\ h.write_seek <= h.file.file_size
  /\ h.read_sector = Sec(d, h.file, NTH_BLOCK(h.read_seek))
  /\ h.write_sector = Sec(d, h.file, NTH_BLOCK(h.write_seek))

Handles(d, hs) ==
  /\ hs = [c \in Clients |-> hs[c]]
  /\ \A c \in Clients :
       hs[c] = Closed \/ /\ Placed(d, hs[c])
                         /\ \E i \in 0..Size(d) : OpenOn(hs[c], FcbAt(d, i), i)

Swapped(d, w) ==
  /\ w \in Seq([sector : Int, page : Blocks])
  /\ \A k \in 1..Len(w) :
       w[k].sector = SWAP_START + k - 1 /\ w[k].sector \in Sectors
         /\ d[w[k].sector] = w[k].page

FileInv ==
  /\ Sound(disk, used)
  /\ Texts(disk, text)
  /\ Handles(disk, handle)
  /\ Swapped(disk, swap)
-----------------------------------------------------------------------------
(* Arithmetic and induction *)

LEMMA Constants ==
  /\ BLOCK \in Nat \ {0} /\ NSectors \in Nat /\ NSectors > 3
  /\ SWAP_START \in 3..NSectors /\ MaxSize \in Nat
  /\ "usr" \notin Names /\ RootPath \notin Names /\ Programs \subseteq Names \cup {"usr"}
BY FileSysAssumption

LEMMA DivMod ==
  ASSUME NEW a \in Nat, NEW b \in Nat \ {0}
  PROVE  /\ a \div b \in Nat
         /\ a % b \in 0..(b - 1)
         /\ a = b * (a \div b) + (a % b)
<1>1. PICK q \in Nat : q = a \div b
  OBVIOUS
<1>2. PICK r \in 0..(b - 1) : r = a % b
  OBVIOUS
<1>3. a = b * q + r
  BY <1>1, <1>2, SMTT(30)
<1>4. a = b * (a \div b) + (a % b)
  BY <1>1, <1>2, <1>3, Zenon
<1> QED BY <1>1, <1>2, <1>4

LEMMA Products ==
  ASSUME NEW b \in Nat, NEW p \in Nat, NEW q \in Nat
  PROVE  /\ b * p \in Nat /\ b * (p + 1) = b * p + b
         /\ b * (p + 2) = b * p + 2 * b
         /\ p < q => b * p + b <= b * q
         /\ p <= q => b * p <= b * q
         /\ b * (p + q) = b * p + b * q
         /\ p * b = b * p
<1>1. b * p \in Nat /\ b * (p + 1) = b * p + b /\ b * (p + 2) = b * p + 2 * b
  BY SMTT(30)
<1>2. p < q => b * (p + 1) <= b * q
  BY SMTT(30)
<1>3. p <= q => b * p <= b * q
  BY SMTT(30)
<1>4. b * (p + q) = b * p + b * q /\ p * b = b * p
  BY SMTT(30)
<1> QED BY <1>1, <1>2, <1>3, <1>4

(* A position is a sector and an offset, in one way. *)
LEMMA Position ==
  ASSUME NEW x \in Nat
  PROVE  /\ NTH_BLOCK(x) \in Nat /\ IN_BLOCK_OFFSET(x) \in 0..(BLOCK - 1)
         /\ x = BLOCK * NTH_BLOCK(x) + IN_BLOCK_OFFSET(x)
BY Constants, DivMod DEF NTH_BLOCK, IN_BLOCK_OFFSET

LEMMA PositionIs ==
  ASSUME NEW q \in Nat, NEW r \in 0..(BLOCK - 1), NEW x, x = BLOCK * q + r
  PROVE  NTH_BLOCK(x) = q /\ IN_BLOCK_OFFSET(x) = r
<1>1. BLOCK \in Nat \ {0}
  BY Constants
<1>2. x \in Nat
  BY <1>1, Products
<1>3. PICK p \in Nat, t \in 0..(BLOCK - 1) :
        p = NTH_BLOCK(x) /\ t = IN_BLOCK_OFFSET(x) /\ x = BLOCK * p + t
  BY <1>2, Position
<1>4. PICK m \in Nat, n \in Nat :
        m = BLOCK * p /\ n = BLOCK * q /\ (p < q => m + BLOCK <= n)
          /\ (q < p => n + BLOCK <= m) /\ (p = q => m = n)
  BY <1>1, Products
<1>5. m + t = n + r
  BY <1>3, <1>4
<1>6. ~(p < q) /\ ~(q < p)
  BY <1>1, <1>4, <1>5
<1>7. p = q
  BY <1>6
<1>8. t = r
  BY <1>4, <1>5, <1>7
<1> QED BY <1>3, <1>7, <1>8

LEMMA PositionOrder ==
  ASSUME NEW x \in Nat, NEW y \in Nat, x <= y
  PROVE  NTH_BLOCK(x) <= NTH_BLOCK(y)
<1>1. PICK p \in Nat, r \in 0..(BLOCK - 1) : p = NTH_BLOCK(x) /\ x = BLOCK * p + r
  BY Position
<1>2. PICK q \in Nat, t \in 0..(BLOCK - 1) : q = NTH_BLOCK(y) /\ y = BLOCK * q + t
  BY Position
<1>3. BLOCK \in Nat \ {0}
  BY Constants
<1>4. PICK m \in Nat, n \in Nat :
        m = BLOCK * p /\ n = BLOCK * q /\ (q < p => n + BLOCK <= m)
  BY <1>3, Products
<1>5. ~(q < p)
  BY <1>1, <1>2, <1>3, <1>4
<1> QED BY <1>1, <1>2, <1>5

LEMMA PositionBound ==
  ASSUME NEW x \in Nat, NEW n \in Nat
  PROVE  /\ x < n * BLOCK <=> NTH_BLOCK(x) < n
         /\ x <= n * BLOCK => NTH_BLOCK(x) <= n
<1>1. PICK p \in Nat, r \in 0..(BLOCK - 1) : p = NTH_BLOCK(x) /\ x = BLOCK * p + r
  BY Position
<1>2. BLOCK \in Nat \ {0}
  BY Constants
<1>3. PICK a \in Nat, b \in Nat :
        /\ a = BLOCK * p /\ b = BLOCK * n /\ b = n * BLOCK
        /\ p < n => a + BLOCK <= b
        /\ n <= p => b <= a
        /\ n < p => b + BLOCK <= a
  BY <1>2, Products
<1>4. x < b <=> p < n
  BY <1>1, <1>2, <1>3
<1>5. x <= b => p <= n
  BY <1>1, <1>2, <1>3
<1> QED BY <1>1, <1>3, <1>4, <1>5

(* A position relative to another one. *)
LEMMA PositionSum ==
  ASSUME NEW x \in Nat, NEW i \in Nat
  PROVE  /\ IN_BLOCK_OFFSET(x) + i \in Nat
         /\ NTH_BLOCK(x + i) = NTH_BLOCK(x) + NTH_BLOCK(IN_BLOCK_OFFSET(x) + i)
         /\ IN_BLOCK_OFFSET(x + i) = IN_BLOCK_OFFSET(IN_BLOCK_OFFSET(x) + i)
<1>1. PICK p \in Nat, r \in 0..(BLOCK - 1) :
        p = NTH_BLOCK(x) /\ r = IN_BLOCK_OFFSET(x) /\ x = BLOCK * p + r
  BY Position
<1>2. r + i \in Nat
  OBVIOUS
<1>3. PICK q \in Nat, t \in 0..(BLOCK - 1) :
        q = NTH_BLOCK(r + i) /\ t = IN_BLOCK_OFFSET(r + i) /\ r + i = BLOCK * q + t
  BY <1>2, Position
<1>4. PICK a \in Nat, b \in Nat :
        a = BLOCK * p /\ b = BLOCK * q /\ BLOCK * (p + q) = a + b
  BY Constants, Products
<1>5. x + i = BLOCK * (p + q) + t
  <2>1. x = a + r /\ r + i = b + t
    BY <1>1, <1>3, <1>4
  <2>2. x + i = (a + b) + t
    BY <2>1
  <2> QED BY <1>4, <2>2
<1>6. NTH_BLOCK(x + i) = p + q /\ IN_BLOCK_OFFSET(x + i) = t
  BY <1>5, PositionIs
<1> QED BY <1>1, <1>2, <1>3, <1>6

LEMMA BelowIs ==
  ASSUME NEW x \in Nat, NEW n \in Nat
  PROVE  /\ x \in 0..(n - 1) <=> x < n
         /\ x + 1 \in 0..(n - 1) <=> x + 1 < n
         /\ n # 0 => n - 1 \in Nat /\ n - 1 \in 0..(n - 1) /\ (n - 1) + 1 = n
OBVIOUS

LEMMA Least ==
  ASSUME NEW T \in SUBSET Nat, T # {}
  PROVE  \E x \in T : \A y \in T : x <= y
<1> DEFINE R == OpToRel(<, Nat)
<1>1. IsWellFoundedOn(R, Nat)
  BY NatLessThanWellFounded DEF OpToRel
<1> HIDE DEF R
<1>2. PICK x \in T : \A y \in T : ~ (<<y, x>> \in R)
  BY <1>1, WFMin
<1>3. \A y \in T : y < x => <<y, x>> \in R
  BY DEF R, OpToRel
<1>4. SUFFICES ASSUME NEW y \in T PROVE x <= y
  OBVIOUS
<1>5. ~(y < x) /\ x \in Nat /\ y \in Nat
  BY <1>2, <1>3
<1> QED BY <1>5

LEMMA Induction ==
  ASSUME NEW T \in SUBSET Nat, 0 \in T, \A n \in T : n + 1 \in T
  PROVE  T = Nat
<1> SUFFICES ASSUME Nat \ T # {} PROVE FALSE
  OBVIOUS
<1>1. PICK x \in Nat \ T : \A y \in Nat \ T : x <= y
  BY Least
<1>2. x - 1 \in Nat /\ x - 1 \notin Nat \ T
  BY <1>1
<1>3. (x - 1) + 1 \in T
  BY <1>2
<1> QED BY <1>1, <1>3

LEMMA MinIs ==
  ASSUME NEW T \in SUBSET Nat, T # {}
  PROVE  Min(T) \in T /\ \A y \in T : Min(T) <= y
BY Least DEF Min
-----------------------------------------------------------------------------
(* Follow: the function it chooses exists, and its values are those of     *)
(* walking along next_sector.                                              *)

IsPath(f, d, s, n) ==
  f = [i \in 0..n |-> IF i = 0 THEN s ELSE read_disk(d, f[i - 1]).next]

LEMMA FollowChooses ==
  ASSUME NEW d, NEW s, NEW n \in Nat
  PROVE  Follow(d, s, n) = (CHOOSE f : IsPath(f, d, s, n))[n]
BY DEF Follow, IsPath

LEMMA PathLonger ==
  ASSUME NEW d, NEW s, NEW n \in Nat, NEW f, IsPath(f, d, s, n)
  PROVE  \E g : IsPath(g, d, s, n + 1)
<1> DEFINE g == [i \in 0..(n + 1) |-> IF i = 0 THEN s ELSE read_disk(d, f[i - 1]).next]
<1>1. \A i \in 0..n : f[i] = IF i = 0 THEN s ELSE read_disk(d, f[i - 1]).next
  BY DEF IsPath
<1>2. \A i \in 0..n : g[i] = f[i]
  BY <1>1
<1>3. \A i \in 0..(n + 1) : i # 0 => i - 1 \in 0..n
  OBVIOUS
<1>4. \A i \in 0..(n + 1) :
        (IF i = 0 THEN s ELSE read_disk(d, f[i - 1]).next)
          = (IF i = 0 THEN s ELSE read_disk(d, g[i - 1]).next)
  BY <1>2, <1>3
<1>5. g = [i \in 0..(n + 1) |-> IF i = 0 THEN s ELSE read_disk(d, g[i - 1]).next]
  BY <1>4
<1> QED BY <1>5 DEF IsPath

LEMMA PathExists ==
  ASSUME NEW d, NEW s, NEW n \in Nat
  PROVE  \E f : IsPath(f, d, s, n)
<1> DEFINE T == {m \in Nat : \E f : IsPath(f, d, s, m)}
<1>1. 0 \in T
  <2> DEFINE f == [i \in 0..0 |-> s]
  <2>1. f = [i \in 0..0 |-> IF i = 0 THEN s ELSE read_disk(d, f[i - 1]).next]
    OBVIOUS
  <2> QED BY <2>1 DEF IsPath
<1>2. \A m \in T : m + 1 \in T
  BY PathLonger
<1> HIDE DEF T
<1>3. T = Nat
  <2>1. T \in SUBSET Nat
    BY DEF T
  <2> QED BY <1>1, <1>2, <2>1, Induction
<1> QED BY <1>3 DEF T

LEMMA PathUnique ==
  ASSUME NEW d, NEW s, NEW m \in Nat, NEW n \in Nat, NEW f, NEW g,
         IsPath(f, d, s, m), IsPath(g, d, s, n)
  PROVE  \A i \in Nat : i <= m /\ i <= n => f[i] = g[i]
<1> DEFINE T == {i \in Nat : i <= m /\ i <= n => f[i] = g[i]}
<1>1. \A i \in 0..m : f[i] = IF i = 0 THEN s ELSE read_disk(d, f[i - 1]).next
  BY DEF IsPath
<1>2. \A i \in 0..n : g[i] = IF i = 0 THEN s ELSE read_disk(d, g[i - 1]).next
  BY DEF IsPath
<1>3. 0 \in T
  BY <1>1, <1>2
<1>4. ASSUME NEW i \in T PROVE i + 1 \in T
  <2> SUFFICES ASSUME i + 1 <= m, i + 1 <= n PROVE f[i + 1] = g[i + 1]
    OBVIOUS
  <2>1. i \in Nat /\ i + 1 \in 0..m /\ i + 1 \in 0..n /\ i + 1 # 0 /\ (i + 1) - 1 = i
    OBVIOUS
  <2>2. f[i + 1] = read_disk(d, f[i]).next /\ g[i + 1] = read_disk(d, g[i]).next
    BY <1>1, <1>2, <2>1
  <2>3. f[i] = g[i]
    BY <2>1
  <2> QED BY <2>2, <2>3
<1> HIDE DEF T
<1>5. T \in SUBSET Nat
  BY DEF T
<1>6. T = Nat
  BY <1>3, <1>4, <1>5, Induction
<1> QED BY <1>6 DEF T

LEMMA FollowZero ==
  ASSUME NEW d, NEW s
  PROVE  Follow(d, s, 0) = s
<1>1. PICK f : IsPath(f, d, s, 0) /\ Follow(d, s, 0) = f[0]
  BY PathExists, FollowChooses
<1> QED BY <1>1 DEF IsPath

LEMMA FollowNext ==
  ASSUME NEW d, NEW s, NEW n \in Nat
  PROVE  Follow(d, s, n + 1) = read_disk(d, Follow(d, s, n)).next
<1>1. PICK f : IsPath(f, d, s, n) /\ Follow(d, s, n) = f[n]
  BY PathExists, FollowChooses
<1>2. PICK g : IsPath(g, d, s, n + 1) /\ Follow(d, s, n + 1) = g[n + 1]
  <2>1. n + 1 \in Nat
    OBVIOUS
  <2> QED BY <2>1, PathExists, FollowChooses
<1>3. f[n] = g[n]
  BY <1>1, <1>2, PathUnique
<1>4. g[n + 1] = read_disk(d, g[n]).next
  <2>1. n + 1 \in 0..(n + 1) /\ n + 1 # 0 /\ (n + 1) - 1 = n
    OBVIOUS
  <2>2. \A i \in 0..(n + 1) : g[i] = IF i = 0 THEN s ELSE read_disk(d, g[i - 1]).next
    BY <1>2 DEF IsPath
  <2> QED BY <2>1, <2>2
<1> QED BY <1>1, <1>2, <1>3, <1>4

LEMMA FollowSum ==
  ASSUME NEW d, NEW s, NEW a \in Nat, NEW b \in Nat
  PROVE  Follow(d, Follow(d, s, a), b) = Follow(d, s, a + b)
<1> DEFINE r == Follow(d, s, a)
           T == {i \in Nat : Follow(d, r, i) = Follow(d, s, a + i)}
<1>1. 0 \in T
  BY FollowZero
<1>2. ASSUME NEW i \in T PROVE i + 1 \in T
  <2>1. i \in Nat /\ a + i \in Nat /\ a + (i + 1) = (a + i) + 1
    OBVIOUS
  <2>2. Follow(d, r, i + 1) = read_disk(d, Follow(d, r, i)).next
    BY <2>1, FollowNext
  <2>3. Follow(d, s, (a + i) + 1) = read_disk(d, Follow(d, s, a + i)).next
    BY <2>1, FollowNext
  <2> QED BY <2>1, <2>2, <2>3
<1> HIDE DEF T
<1>3. T \in SUBSET Nat
  BY DEF T
<1>4. T = Nat
  BY <1>1, <1>2, <1>3, Induction
<1> QED BY <1>4 DEF T

(* A change of the disk that leaves the links of a chain alone. *)
SameAlong(d, e, s, m) ==
  \A k \in 0..(m - 1) :
    read_disk(e, Follow(d, s, k)).next = read_disk(d, Follow(d, s, k)).next

LEMMA FollowSame ==
  ASSUME NEW d, NEW e, NEW s, NEW m \in Nat, SameAlong(d, e, s, m)
  PROVE  \A k \in 0..m : Follow(e, s, k) = Follow(d, s, k)
<1> DEFINE T == {i \in Nat : i <= m => Follow(e, s, i) = Follow(d, s, i)}
<1>1. 0 \in T
  BY FollowZero
<1>2. ASSUME NEW i \in T PROVE i + 1 \in T
  <2> SUFFICES ASSUME i + 1 <= m PROVE Follow(e, s, i + 1) = Follow(d, s, i + 1)
    OBVIOUS
  <2>1. i \in Nat /\ i \in 0..(m - 1) /\ i <= m
    OBVIOUS
  <2>2. Follow(d, s, i + 1) = read_disk(d, Follow(d, s, i)).next
    BY <2>1, FollowNext
  <2>3. Follow(e, s, i + 1) = read_disk(e, Follow(e, s, i)).next
    BY <2>1, FollowNext
  <2>4. Follow(e, s, i) = Follow(d, s, i)
    BY <2>1
  <2> QED BY <2>1, <2>2, <2>3, <2>4 DEF SameAlong
<1> HIDE DEF T
<1>3. T \in SUBSET Nat
  BY DEF T
<1>4. T = Nat
  BY <1>1, <1>2, <1>3, Induction
<1> QED BY <1>4 DEF T
-----------------------------------------------------------------------------
(* Sectors and covering_write *)

Disks == [Sectors -> Blocks]
Offsets == 0..(BLOCK - 1)

LEMMA EmptyIsBlock == EmptyBlock \in Blocks
<1>1. [i \in 0..(BLOCK - 1) |-> Blank] \in [0..(BLOCK - 1) -> Cells]
  BY DEF Cells
<1>2. None \in Int
  BY DEF None
<1> QED BY <1>1, <1>2 DEF EmptyBlock, Blocks

LEMMA ReadIsBlock ==
  ASSUME NEW d \in Disks, NEW s
  PROVE  read_disk(d, s) \in Blocks /\ (s \in Sectors => read_disk(d, s) = d[s])
BY EmptyIsBlock DEF read_disk, Disks

LEMMA BlockFields ==
  ASSUME NEW b \in Blocks
  PROVE  b.next \in Int /\ b.data \in [Offsets -> Cells] /\ \A o \in Offsets : b.data[o] \in Cells
BY DEF Blocks, Offsets

(* What Overlaid and one write_disk do, with as much of buf as they use. *)
Fits(off, buf, from, n) ==
  \A o \in Offsets : o \in off..(off + n - 1) => buf[from + o - off] \in Cells

Laid(c, b, off, buf, from, n) ==
  /\ c \in Blocks /\ c.next = b.next
  /\ \A o \in Offsets : c.data[o] =
       IF o \in off..(off + n - 1) THEN buf[from + o - off] ELSE b.data[o]

Written(d, e, a, off, buf, from, n) ==
  /\ e \in Disks
  /\ \A s \in Sectors : e[s].next = d[s].next
  /\ \A s \in Sectors, o \in Offsets : e[s].data[o] =
       IF s = a /\ o \in off..(off + n - 1) THEN buf[from + o - off] ELSE d[s].data[o]

LEMMA OverlaidIs ==
  ASSUME NEW b \in Blocks, NEW off, NEW buf, NEW from, NEW n, Fits(off, buf, from, n)
  PROVE  Laid(Overlaid(b, off, buf, from, n), b, off, buf, from, n)
<1> DEFINE data == [o \in 0..(BLOCK - 1) |->
                      IF o \in off..(off + n - 1) THEN buf[from + o - off] ELSE b.data[o]]
<1>1. Overlaid(b, off, buf, from, n) = [b EXCEPT !.data = data]
  BY DEF Overlaid
<1>2. \A o \in Offsets : data[o] =
        IF o \in off..(off + n - 1) THEN buf[from + o - off] ELSE b.data[o]
  BY DEF Offsets
<1>3. data \in [0..(BLOCK - 1) -> Cells]
  BY BlockFields DEF Offsets, Fits
<1> HIDE DEF data
<1>4. [b EXCEPT !.data = data] \in Blocks /\ [b EXCEPT !.data = data].next = b.next
        /\ [b EXCEPT !.data = data].data = data
  BY <1>3 DEF Blocks
<1> QED BY <1>1, <1>2, <1>4 DEF Laid

LEMMA OneWrite ==
  ASSUME NEW d \in Disks, NEW a, NEW off, NEW buf, NEW from, NEW n,
         Fits(off, buf, from, n)
  PROVE  Written(d, write_disk(d, a, Overlaid(read_disk(d, a), off, buf, from, n)),
                 a, off, buf, from, n)
<1>1. CASE a \notin Sectors
  BY <1>1 DEF write_disk, Written
<1>2. CASE a \in Sectors
  <2>1. read_disk(d, a) = d[a] /\ d[a] \in Blocks
    BY <1>2, ReadIsBlock
  <2>2. PICK b : b = Overlaid(d[a], off, buf, from, n)
    OBVIOUS
  <2>3. Laid(b, d[a], off, buf, from, n)
    BY <2>1, <2>2, OverlaidIs
  <2>4. PICK e : e = write_disk(d, a, Overlaid(read_disk(d, a), off, buf, from, n))
    OBVIOUS
  <2>5. e = [d EXCEPT ![a] = b]
    BY <1>2, <2>1, <2>2, <2>4 DEF write_disk
  <2>6. b \in Blocks
    BY <2>3 DEF Laid
  <2>7. e \in Disks /\ e[a] = b /\ \A s \in Sectors : s # a => e[s] = d[s]
    BY <1>2, <2>5, <2>6 DEF Disks
  <2>8. Written(d, e, a, off, buf, from, n)
    BY <2>3, <2>7 DEF Laid, Written
  <2> QED BY <2>4, <2>8
<1> QED BY <1>1, <1>2

(* e is d with buf written at an offset of sector a, and on into the next. *)
Patched(d, e, a, off, buf) ==
  /\ e \in Disks
  /\ \A s \in Sectors : e[s].next = d[s].next
  /\ \A s \in Sectors, o \in Offsets : e[s].data[o] =
       IF s = a /\ off <= o /\ o < off + Len(buf) THEN buf[o - off + 1]
       ELSE IF s = d[a].next /\ BLOCK + o < off + Len(buf) THEN buf[BLOCK + o - off + 1]
       ELSE d[s].data[o]

LEMMA Spilling ==
  ASSUME NEW b \in Nat, NEW off \in Nat, NEW n \in Nat, off < b, off + n < 2 * b, b <= off + n
  PROVE  /\ n - (b - off) \in 0..(b - 1) /\ off + n = b + (n - (b - off))
         /\ b - off \in Nat /\ b - off <= n /\ off + (b - off) = b
         /\ n = (n - (b - off)) + (b - off)
OBVIOUS

LEMMA WriteInSector ==
  ASSUME NEW d, NEW h, NEW buf,
         NTH_BLOCK(h.write_seek + Len(buf)) = NTH_BLOCK(h.write_seek)
  PROVE  covering_write(d, h, buf) =
           write_disk(d, h.write_sector,
                      Overlaid(read_disk(d, h.write_sector), IN_BLOCK_OFFSET(h.write_seek),
                               buf, 1, Len(buf)))
BY Zenon DEF covering_write

LEMMA WriteIntoNext ==
  ASSUME NEW d, NEW h, NEW buf, NEW rem, rem = BLOCK - IN_BLOCK_OFFSET(h.write_seek),
         NTH_BLOCK(h.write_seek + Len(buf)) # NTH_BLOCK(h.write_seek),
         NTH_BLOCK(Len(buf) - rem) = 0,
         NEW e, e = write_disk(d, h.write_sector,
                      Overlaid(read_disk(d, h.write_sector), IN_BLOCK_OFFSET(h.write_seek),
                               buf, 1, rem)),
         NEW N, N = read_disk(d, h.write_sector).next
  PROVE  covering_write(d, h, buf) =
           write_disk(e, N, Overlaid(read_disk(e, N), 0, buf, rem + 1,
                                     IN_BLOCK_OFFSET(Len(buf) - rem)))
BY Zenon DEF covering_write

LEMMA CoveringWrite ==
  ASSUME NEW d \in Disks, NEW h, NEW a \in Sectors, a = h.write_sector,
         NEW ws \in Nat, ws = h.write_seek, NEW off \in Offsets, off = IN_BLOCK_OFFSET(ws),
         NEW buf \in Seq(Cells), off + Len(buf) < 2 * BLOCK,
         off + Len(buf) > BLOCK => d[a].next # a
  PROVE  Patched(d, covering_write(d, h, buf), a, off, buf)
<1>1. BLOCK \in Nat \ {0} /\ off \in Nat /\ off < BLOCK
  BY Constants DEF Offsets
<1>n. 0 \in Nat /\ 1 \in Nat /\ off \in Nat
  BY <1>1
<1>a. PICK n \in Nat, rem \in Nat : n = Len(buf) /\ rem = BLOCK - off
  <2>1. Len(buf) \in Nat /\ BLOCK - off \in Nat
    BY <1>1
  <2> QED BY <2>1
<1>b. PICK N, first : N = d[a].next /\ first = read_disk(d, a)
  OBVIOUS
<1>2. /\ n = Len(buf) /\ rem = BLOCK - off /\ off + n < 2 * BLOCK
      /\ N = d[a].next /\ first = read_disk(d, a)
  BY <1>a, <1>b
<1>3. first = d[a] /\ first.next = N
  BY <1>2, ReadIsBlock
<1>4. \A i \in 1..n : buf[i] \in Cells
  BY <1>2
<1>5. /\ off + n \in Nat
      /\ NTH_BLOCK(ws + n) = NTH_BLOCK(ws) + NTH_BLOCK(off + n)
      /\ NTH_BLOCK(ws) \in Nat
  BY <1>2, PositionSum, Position
<1>6. CASE off + n < BLOCK
  <2>1. NTH_BLOCK(off + n) = 0
    <3>1. off + n \in 0..(BLOCK - 1) /\ off + n = BLOCK * 0 + (off + n)
      BY <1>1, <1>2, <1>6
    <3> QED BY <3>1, PositionIs
  <2>2. covering_write(d, h, buf) = write_disk(d, a, Overlaid(first, off, buf, 1, n))
    <3>1. NTH_BLOCK(h.write_seek + Len(buf)) = NTH_BLOCK(h.write_seek)
      BY <1>2, <1>5, <2>1
    <3> QED BY <1>2, <3>1, WriteInSector
  <2>3. PICK e : e = write_disk(d, a, Overlaid(read_disk(d, a), off, buf, 1, n))
    OBVIOUS
  <2>4. Fits(off, buf, 1, n)
    BY <1>1, <1>4 DEF Offsets, Fits
  <2>5. Written(d, e, a, off, buf, 1, n)
    BY <2>3, <2>4, OneWrite
  <2>6. \A o \in Offsets : /\ ~(BLOCK + o < off + n) /\ 1 + o - off = o - off + 1
                           /\ o \in off..(off + n - 1) <=> off <= o /\ o < off + n
    BY <1>1, <1>6 DEF Offsets
  <2>7. Patched(d, e, a, off, buf)
    BY <1>2, <2>5, <2>6 DEF Patched, Written
  <2> QED BY <1>2, <2>2, <2>3, <2>7
<1>7. CASE ~(off + n < BLOCK)
  <2>0. /\ n - (BLOCK - off) \in 0..(BLOCK - 1) /\ off + n = BLOCK + (n - (BLOCK - off))
        /\ BLOCK - off <= n /\ off + (BLOCK - off) = BLOCK
        /\ n = (n - (BLOCK - off)) + (BLOCK - off)
    <3>1. BLOCK \in Nat /\ off + n < 2 * BLOCK /\ BLOCK <= off + n
      BY <1>1, <1>2, <1>7
    <3> QED BY <1>1, <3>1, Spilling
  <2>1. PICK m \in 0..(BLOCK - 1) : m = n - rem /\ off + n = BLOCK + m
    <3>1. n - rem \in 0..(BLOCK - 1) /\ off + n = BLOCK + (n - rem)
      BY <1>2, <2>0
    <3> QED BY <3>1
  <2>n. m \in Nat /\ rem + 1 \in Nat
    BY <1>1, <2>1
  <2>2. NTH_BLOCK(off + n) = 1
    <3>1. off + n = BLOCK * 1 + m
      BY <1>1, <2>1
    <3> QED BY <3>1, PositionIs
  <2>3. NTH_BLOCK(m) = 0 /\ IN_BLOCK_OFFSET(m) = m
    <3>1. m = BLOCK * 0 + m
      BY <1>1, <2>1
    <3> QED BY <3>1, PositionIs
  <2>4. PICK e : e = write_disk(d, a, Overlaid(read_disk(d, a), off, buf, 1, rem))
    OBVIOUS
  <2>5. PICK c : c = write_disk(e, N, Overlaid(read_disk(e, N), 0, buf, rem + 1, m))
    OBVIOUS
  <2>6. covering_write(d, h, buf) = c
    <3>1. NTH_BLOCK(h.write_seek + Len(buf)) # NTH_BLOCK(h.write_seek)
      BY <1>2, <1>5, <2>2
    <3>2. Len(buf) - rem = m
      BY <1>2, <2>1
    <3>3. rem = BLOCK - IN_BLOCK_OFFSET(h.write_seek) /\ N = read_disk(d, a).next
      BY <1>2, <1>3
    <3>4. NTH_BLOCK(Len(buf) - rem) = 0 /\ IN_BLOCK_OFFSET(Len(buf) - rem) = m
      BY <2>3, <3>2
    <3>5. e = write_disk(d, h.write_sector,
                Overlaid(read_disk(d, h.write_sector), IN_BLOCK_OFFSET(h.write_seek), buf, 1, rem))
      BY <2>4
    <3>6. covering_write(d, h, buf) =
            write_disk(e, N, Overlaid(read_disk(e, N), 0, buf, rem + 1,
                                      IN_BLOCK_OFFSET(Len(buf) - rem)))
      BY <3>1, <3>3, <3>4, <3>5, WriteIntoNext
    <3> QED BY <2>5, <3>4, <3>6
  <2>7. Fits(off, buf, 1, rem)
    <3> SUFFICES ASSUME NEW o \in Offsets, o \in off..(off + rem - 1)
                 PROVE  buf[1 + o - off] \in Cells
      BY DEF Fits
    <3>1. off + rem = BLOCK /\ rem <= n
      BY <1>2, <2>0
    <3>2. o \in Nat /\ off <= o /\ o < BLOCK
      BY <1>1, <3>1
    <3>3. o - off \in Nat /\ o - off < rem
      BY <1>1, <3>1, <3>2
    <3>4. 1 + o - off \in 1..n
      BY <3>1, <3>3
    <3> QED BY <1>4, <3>4
  <2>8. Written(d, e, a, off, buf, 1, rem)
    BY <2>4, <2>7, OneWrite
  <2>e. e \in Disks
    BY <2>8 DEF Written
  <2>9. Fits(0, buf, rem + 1, m)
    <3> SUFFICES ASSUME NEW o \in Offsets, o \in 0..(0 + m - 1)
                 PROVE  buf[(rem + 1) + o - 0] \in Cells
      BY DEF Fits
    <3>1. o \in Nat /\ o < m
      BY <2>1
    <3>2. n = m + rem
      BY <1>2, <2>0, <2>1
    <3>3. (rem + 1) + o - 0 \in 1..n
      BY <2>1, <3>1, <3>2
    <3> QED BY <1>4, <3>3
  <2>10. Written(e, c, N, 0, buf, rem + 1, m)
    BY <2>5, <2>e, <2>9, OneWrite
  <2>11. \A o \in Offsets :
           /\ o \in off..(off + rem - 1) <=> off <= o /\ o < off + n
           /\ o \in 0..(0 + m - 1) <=> BLOCK + o < off + n
           /\ 1 + o - off = o - off + 1
           /\ (rem + 1) + o - 0 = BLOCK + o - off + 1
    <3> SUFFICES ASSUME NEW o \in Offsets
                 PROVE  /\ o \in off..(off + rem - 1) <=> off <= o /\ o < off + n
                        /\ o \in 0..(0 + m - 1) <=> BLOCK + o < off + n
                        /\ 1 + o - off = o - off + 1
                        /\ (rem + 1) + o - 0 = BLOCK + o - off + 1
      OBVIOUS
    <3>1. o \in Nat /\ o < BLOCK
      BY <1>1 DEF Offsets
    <3>2. off + rem = BLOCK
      BY <1>1, <1>2
    <3>3. o \in off..(off + rem - 1) <=> off <= o /\ o < off + n
      BY <1>1, <2>1, <3>1, <3>2
    <3>4. o \in 0..(0 + m - 1) <=> BLOCK + o < off + n
      BY <1>1, <2>1, <3>1
    <3>5. (rem + 1) + o - 0 = BLOCK + o - off + 1
      BY <1>1, <1>2, <3>1
    <3>6. 1 + o - off = o - off + 1
      BY <1>1, <3>1
    <3> QED BY <3>3, <3>4, <3>5, <3>6
  <2>12. m > 0 => a # N
    BY <1>1, <1>2, <2>1
  <2>13. \A s \in Sectors, o \in Offsets : c[s].data[o] =
           IF s = a /\ off <= o /\ o < off + n THEN buf[o - off + 1]
           ELSE IF s = N /\ BLOCK + o < off + n THEN buf[BLOCK + o - off + 1]
           ELSE d[s].data[o]
    <3> SUFFICES ASSUME NEW s \in Sectors, NEW o \in Offsets
                 PROVE  c[s].data[o] =
                          IF s = a /\ off <= o /\ o < off + n THEN buf[o - off + 1]
                          ELSE IF s = N /\ BLOCK + o < off + n THEN buf[BLOCK + o - off + 1]
                          ELSE d[s].data[o]
      OBVIOUS
    <3>1. s = N /\ BLOCK + o < off + n => s # a
      BY <1>1, <2>1, <2>12 DEF Offsets
    <3> QED BY <2>8, <2>10, <2>11, <3>1 DEF Written
  <2>14. Patched(d, c, a, off, buf)
    BY <1>2, <2>8, <2>10, <2>13 DEF Patched, Written
  <2> QED BY <1>2, <2>6, <2>14
<1> QED BY <1>6, <1>7
-----------------------------------------------------------------------------
(* Chains and cells of a file *)

LEMMA SecZero ==
  ASSUME NEW d, NEW f
  PROVE  Sec(d, f, 0) = f.first_sector
BY FollowZero DEF Sec

LEMMA SecNext ==
  ASSUME NEW d, NEW f, NEW k \in Nat
  PROVE  Sec(d, f, k + 1) = read_disk(d, Sec(d, f, k)).next
BY FollowNext DEF Sec

SameLinks(d, e) == \A s \in Sectors : e[s].next = d[s].next

LEMMA SecLinks ==
  ASSUME NEW d, NEW e, SameLinks(d, e), NEW f, NEW n \in Nat
  PROVE  Sec(e, f, n) = Sec(d, f, n)
<1>1. \A s : read_disk(e, s).next = read_disk(d, s).next
  BY DEF SameLinks, read_disk
<1>2. SameAlong(d, e, f.first_sector, n)
  BY <1>1 DEF SameAlong
<1>3. \A k \in 0..n : Follow(e, f.first_sector, k) = Follow(d, f.first_sector, k)
  BY <1>2, FollowSame
<1> QED BY <1>3 DEF Sec

(* Nothing has changed in the chain of a file, or beyond it in the links. *)
SameChain(d, e, f) == \A k \in 0..(f.sector_count - 1) : Sec(e, f, k) = Sec(d, f, k)
SameEnd(d, e, f) == Sec(e, f, f.sector_count) = Sec(d, f, f.sector_count)
SameCells(d, e, f) ==
  \A j \in Nat : NTH_BLOCK(j) < f.sector_count => Cell(e, f, j) = Cell(d, f, j)

InChain(d, f, s) == \E k \in 0..(f.sector_count - 1) : s = Sec(d, f, k)
Chained(d, f) ==
  /\ f.sector_count \in Nat \ {0}
  /\ \A k \in 0..(f.sector_count - 1) : Sec(d, f, k) \in Sectors
  /\ \A k, l \in 0..(f.sector_count - 1) : Sec(d, f, k) = Sec(d, f, l) => k = l

LEMMA ChainKept ==
  ASSUME NEW d, NEW e, NEW f, Chained(d, f),
         \A s \in Sectors : InChain(d, f, s) /\ s # Sec(d, f, f.sector_count - 1)
                              => e[s].next = d[s].next
  PROVE  SameChain(d, e, f)
<1>1. PICK m \in Nat : m = f.sector_count - 1
  BY DEF Chained
<1>2. ASSUME NEW k \in 0..(m - 1)
      PROVE  read_disk(e, Sec(d, f, k)).next = read_disk(d, Sec(d, f, k)).next
  <2>1. k \in 0..(f.sector_count - 1) /\ m \in 0..(f.sector_count - 1) /\ k # m
    BY <1>1
  <2>2. Sec(d, f, k) \in Sectors /\ Sec(d, f, k) # Sec(d, f, m)
    BY <2>1 DEF Chained
  <2>3. InChain(d, f, Sec(d, f, k))
    BY <2>1 DEF InChain
  <2>4. e[Sec(d, f, k)].next = d[Sec(d, f, k)].next
    BY <1>1, <2>2, <2>3
  <2> QED BY <2>2, <2>4 DEF read_disk
<1>3. \A k \in 0..m : Follow(e, f.first_sector, k) = Follow(d, f.first_sector, k)
  <2>1. SameAlong(d, e, f.first_sector, m)
    BY <1>2 DEF Sec, SameAlong
  <2>2. m \in Nat
    BY <1>1 DEF Chained
  <2> QED BY <2>1, <2>2, FollowSame
<1> QED BY <1>1, <1>3 DEF Sec, SameChain

LEMMA EndKept ==
  ASSUME NEW d, NEW e, NEW f, Chained(d, f), SameChain(d, e, f),
         e[Sec(d, f, f.sector_count - 1)].next = d[Sec(d, f, f.sector_count - 1)].next
  PROVE  SameEnd(d, e, f)
<1>1. PICK m \in Nat : m = f.sector_count - 1 /\ m + 1 = f.sector_count
                         /\ m \in 0..(f.sector_count - 1)
  <2>1. f.sector_count - 1 \in Nat /\ (f.sector_count - 1) + 1 = f.sector_count
          /\ f.sector_count - 1 \in 0..(f.sector_count - 1)
    BY DEF Chained
  <2> QED BY <2>1
<1>2. Sec(e, f, m + 1) = read_disk(e, Sec(e, f, m)).next
        /\ Sec(d, f, m + 1) = read_disk(d, Sec(d, f, m)).next
  BY SecNext
<1>3. Sec(e, f, m) = Sec(d, f, m) /\ Sec(d, f, m) \in Sectors
  BY <1>1 DEF SameChain, Chained
<1>4. read_disk(e, Sec(d, f, m)).next = read_disk(d, Sec(d, f, m)).next
  BY <1>1, <1>3 DEF read_disk
<1> QED BY <1>1, <1>2, <1>3, <1>4 DEF SameEnd

LEMMA CellsKept ==
  ASSUME NEW d, NEW e, NEW f, Chained(d, f), SameChain(d, e, f),
         \A s \in Sectors : InChain(d, f, s) => e[s].data = d[s].data
  PROVE  SameCells(d, e, f)
<1> SUFFICES ASSUME NEW j \in Nat, NTH_BLOCK(j) < f.sector_count
             PROVE  Cell(e, f, j) = Cell(d, f, j)
  BY DEF SameCells
<1>1. PICK k \in 0..(f.sector_count - 1) : k = NTH_BLOCK(j)
  BY Position DEF Chained
<1>2. Sec(e, f, k) = Sec(d, f, k) /\ Sec(d, f, k) \in Sectors /\ InChain(d, f, Sec(d, f, k))
  BY DEF SameChain, Chained, InChain
<1>3. read_disk(e, Sec(e, f, k)).data = read_disk(d, Sec(d, f, k)).data
  BY <1>2 DEF read_disk
<1> QED BY <1>1, <1>3 DEF Cell

LEMMA WellChained ==
  ASSUME NEW d, NEW u \in SUBSET Sectors, NEW f, Well(d, u, f)
  PROVE  Chained(d, f)
BY DEF Well, Chained

LEMMA WellKept ==
  ASSUME NEW d, NEW e, NEW u, NEW v, NEW f, Well(d, u, f), SameChain(d, e, f), u \subseteq v
  PROVE  Well(e, v, f)
<1>1. f.sector_count - 1 \in 0..(f.sector_count - 1)
  BY DEF Well
<1> QED BY <1>1 DEF Well, SameChain

LEMMA ApartKept ==
  ASSUME NEW d, NEW e, NEW f, NEW g, Apart(d, f, g), SameChain(d, e, f), SameChain(d, e, g)
  PROVE  Apart(e, f, g)
BY DEF Apart, SameChain

LEMMA ApartBoth ==
  ASSUME NEW d, NEW f, NEW g, Apart(d, f, g)
  PROVE  Apart(d, g, f)
BY DEF Apart

LEMMA BlocksEqual ==
  ASSUME NEW b \in Blocks, NEW c \in Blocks, b.next = c.next,
         \A o \in Offsets : b.data[o] = c.data[o]
  PROVE  b = c
<1>1. b.data = c.data
  <2>1. b.data \in [Offsets -> Cells] /\ c.data \in [Offsets -> Cells]
    BY BlockFields
  <2> QED BY <2>1
<1> QED BY <1>1 DEF Blocks

(* A file with buf written over its cells from ws on, and nothing else. *)
Rewritten(d, e, f, ws, buf) ==
  /\ e \in Disks /\ SameLinks(d, e)
  /\ \A j \in Nat : NTH_BLOCK(j) < f.sector_count =>
       Cell(e, f, j) = IF ws <= j /\ j < ws + Len(buf) THEN buf[j - ws + 1] ELSE Cell(d, f, j)
  /\ \A s \in Sectors : ~InChain(d, f, s) => e[s] = d[s]

HasCells(f, n) == n <= f.sector_count * BLOCK
InTwoSectors(ws, n) == IN_BLOCK_OFFSET(ws) + n < 2 * BLOCK

(* The cells that lie in the sector of ws and in the one after it. *)
Split(ws, n, q, off, j, p, o) ==
  /\ p = q => /\ ws <= j /\ j < ws + n <=> off <= o /\ o < off + n
              /\ j - ws + 1 = o - off + 1
  /\ p = q + 1 => /\ ws <= j /\ j < ws + n <=> BLOCK + o < off + n
                  /\ j - ws + 1 = BLOCK + o - off + 1
  /\ p # q /\ p # q + 1 => ~(ws <= j /\ j < ws + n)

LEMMA TwoSectors ==
  ASSUME NEW ws \in Nat, NEW n \in Nat, NEW q \in Nat, NEW off \in Offsets,
         q = NTH_BLOCK(ws), off = IN_BLOCK_OFFSET(ws), InTwoSectors(ws, n),
         NEW j \in Nat, NEW p \in Nat, NEW o \in Offsets,
         p = NTH_BLOCK(j), o = IN_BLOCK_OFFSET(j)
  PROVE  Split(ws, n, q, off, j, p, o)
<1>1. BLOCK \in Nat \ {0} /\ off \in Nat /\ off < BLOCK /\ o \in Nat /\ o < BLOCK
  BY Constants DEF Offsets
<1>2. PICK a \in Nat, b \in Nat :
        /\ a = BLOCK * q /\ b = BLOCK * p
        /\ BLOCK * (q + 1) = a + BLOCK
        /\ p < q => b + BLOCK <= a
        /\ q + 2 <= p => BLOCK * (q + 2) <= b
        /\ BLOCK * (q + 2) = a + (BLOCK + BLOCK)
  <2>1. q + 2 \in Nat
    OBVIOUS
  <2>2. BLOCK * q \in Nat /\ BLOCK * p \in Nat
    BY <1>1, Products
  <2>3. BLOCK * (q + 1) = BLOCK * q + BLOCK /\ (p < q => BLOCK * p + BLOCK <= BLOCK * q)
    BY <1>1, Products
  <2>4. q + 2 <= p => BLOCK * (q + 2) <= BLOCK * p
    BY <1>1, <2>1, Products
  <2>5. BLOCK * (q + 2) = BLOCK * q + 2 * BLOCK /\ 2 * BLOCK = BLOCK + BLOCK
    BY <1>1, Products
  <2> QED BY <2>2, <2>3, <2>4, <2>5
<1>3. ws = a + off /\ j = b + o
  BY <1>2, Position
<1>4. off + n < BLOCK + BLOCK
  BY <1>1 DEF InTwoSectors
<1>5. CASE p = q
  <2>1. a = b
    BY <1>2, <1>5
  <2> QED BY <1>1, <1>3, <1>5, <2>1 DEF Split
<1>6. CASE p = q + 1
  <2>1. b = a + BLOCK
    BY <1>2, <1>6
  <2> QED BY <1>1, <1>3, <1>6, <2>1 DEF Split
<1>7. CASE p < q
  <2>1. j < ws
    BY <1>1, <1>2, <1>3, <1>7
  <2> QED BY <1>7, <2>1 DEF Split
<1>8. CASE q + 2 <= p
  <2>1. ws + n < j
    BY <1>1, <1>2, <1>3, <1>4, <1>8
  <2> QED BY <1>8, <2>1 DEF Split
<1> QED BY <1>5, <1>6, <1>7, <1>8

LEMMA WriteInFile ==
  ASSUME NEW d \in Disks, NEW f, Chained(d, f), NEW h, NEW ws \in Nat, ws = h.write_seek,
         Sec(d, f, NTH_BLOCK(ws)) = h.write_sector,
         NEW buf \in Seq(Cells), Len(buf) > 0, HasCells(f, ws + Len(buf)),
         InTwoSectors(ws, Len(buf))
  PROVE  Rewritten(d, covering_write(d, h, buf), f, ws, buf)
<1>1. PICK q \in Nat, off \in Offsets, n \in Nat, sc \in Nat \ {0} :
        /\ q = NTH_BLOCK(ws) /\ off = IN_BLOCK_OFFSET(ws) /\ ws = BLOCK * q + off
        /\ n = Len(buf) /\ sc = f.sector_count
  <2>1. NTH_BLOCK(ws) \in Nat /\ IN_BLOCK_OFFSET(ws) \in Offsets
          /\ ws = BLOCK * NTH_BLOCK(ws) + IN_BLOCK_OFFSET(ws)
    BY Position DEF Offsets
  <2>2. Len(buf) \in Nat /\ f.sector_count \in Nat \ {0}
    BY DEF Chained
  <2> QED BY <2>1, <2>2
<1>2. BLOCK \in Nat \ {0} /\ off \in Nat /\ off < BLOCK /\ n > 0
  BY <1>1, Constants DEF Offsets
<1>3. q < sc /\ (off + n > BLOCK => q + 1 < sc)
  <2>1. PICK x \in Nat, y \in Nat :
          /\ x = BLOCK * q /\ y = BLOCK * sc /\ y = sc * BLOCK
          /\ sc <= q => y <= x
          /\ sc <= q + 1 => y <= BLOCK * (q + 1)
          /\ BLOCK * (q + 1) = x + BLOCK
    <3>1. q + 1 \in Nat /\ BLOCK \in Nat /\ sc \in Nat
      BY <1>2
    <3>2. BLOCK * q \in Nat /\ BLOCK * sc \in Nat /\ BLOCK * (q + 1) = BLOCK * q + BLOCK
            /\ sc * BLOCK = BLOCK * sc /\ (sc <= q => BLOCK * sc <= BLOCK * q)
      BY <3>1, Products
    <3>3. sc <= q + 1 => BLOCK * sc <= BLOCK * (q + 1)
      BY <3>1, Products
    <3> QED BY <3>2, <3>3
  <2>2. ws = x + off /\ ws + n <= y
    BY <1>1, <1>2, <2>1 DEF HasCells
  <2>3. q < sc
    BY <1>2, <2>1, <2>2
  <2>4. off + n > BLOCK => q + 1 < sc
    BY <1>2, <2>1, <2>2
  <2> QED BY <2>3, <2>4
<1>4. q \in 0..(f.sector_count - 1)
  <2>1. q \in 0..(sc - 1)
    BY <1>3
  <2> QED BY <1>1, <2>1
<1>5. PICK a \in Sectors : a = Sec(d, f, q) /\ a = h.write_sector
  BY <1>1, <1>4 DEF Chained
<1>6. d[a].next = Sec(d, f, q + 1)
  BY <1>5, SecNext DEF read_disk
<1>7. off + n > BLOCK => q + 1 \in 0..(f.sector_count - 1) /\ d[a].next # a
  <2> SUFFICES ASSUME off + n > BLOCK PROVE q + 1 \in 0..(f.sector_count - 1) /\ d[a].next # a
    OBVIOUS
  <2>0. q + 1 \in 0..(sc - 1) /\ q + 1 # q
    BY <1>3
  <2>1. q + 1 \in 0..(f.sector_count - 1) /\ q + 1 # q
    BY <1>1, <2>0
  <2>2. Sec(d, f, q + 1) # Sec(d, f, q)
    BY <1>4, <2>1 DEF Chained
  <2> QED BY <1>5, <1>6, <2>1, <2>2
<1>8. PICK e : e = covering_write(d, h, buf)
  OBVIOUS
<1>9. Patched(d, e, a, off, buf)
  <2>1. off + Len(buf) < 2 * BLOCK /\ (off + Len(buf) > BLOCK => d[a].next # a)
    BY <1>1, <1>7 DEF InTwoSectors
  <2> QED BY <1>1, <1>5, <1>8, <2>1, CoveringWrite
<1>10. e \in Disks /\ SameLinks(d, e)
  BY <1>9 DEF Patched, SameLinks
<1>11. ASSUME NEW j \in Nat, NTH_BLOCK(j) < f.sector_count
       PROVE  Cell(e, f, j) =
                IF ws <= j /\ j < ws + Len(buf) THEN buf[j - ws + 1] ELSE Cell(d, f, j)
  <2>1. PICK p \in Nat, o \in Offsets : p = NTH_BLOCK(j) /\ o = IN_BLOCK_OFFSET(j)
    BY Position DEF Offsets
  <2>2. p \in 0..(f.sector_count - 1)
    BY <1>1, <1>11, <2>1
  <2>3. PICK s \in Sectors : s = Sec(d, f, p) /\ s = Sec(e, f, p)
    BY <1>10, <2>2, SecLinks DEF Chained
  <2>4. Cell(e, f, j) = e[s].data[o] /\ Cell(d, f, j) = d[s].data[o]
    BY <2>1, <2>3 DEF Cell, read_disk
  <2>5. e[s].data[o] =
          IF s = a /\ off <= o /\ o < off + n THEN buf[o - off + 1]
          ELSE IF s = d[a].next /\ BLOCK + o < off + n THEN buf[BLOCK + o - off + 1]
          ELSE d[s].data[o]
    BY <1>1, <1>9 DEF Patched
  <2>6. s = a <=> p = q
    BY <1>4, <1>5, <2>2, <2>3 DEF Chained
  <2>7. BLOCK + o < off + n => (s = d[a].next <=> p = q + 1)
    <3>1. BLOCK + o < off + n => off + n > BLOCK
      BY <1>2 DEF Offsets
    <3>2. off + n > BLOCK => (s = Sec(d, f, q + 1) <=> p = q + 1)
      BY <1>7, <2>2, <2>3 DEF Chained
    <3> QED BY <1>6, <3>1, <3>2
  <2>8. Split(ws, n, q, off, j, p, o)
    BY <1>1, <2>1, <2>2, TwoSectors
  <2>9. CASE p = q
    <3>1. s = a /\ ~(s = d[a].next /\ BLOCK + o < off + n)
      <4>1. p # q + 1
        BY <2>9
      <4> QED BY <2>6, <2>7, <2>9, <4>1
    <3> QED BY <1>1, <2>4, <2>5, <2>8, <2>9, <3>1 DEF Split
  <2>10. CASE p = q + 1
    <3>1. s # a /\ (s = d[a].next /\ BLOCK + o < off + n <=> BLOCK + o < off + n)
      <4>1. p # q
        BY <2>10
      <4> QED BY <2>6, <2>7, <2>10, <4>1
    <3> QED BY <1>1, <2>4, <2>5, <2>8, <2>10, <3>1 DEF Split
  <2>11. CASE p # q /\ p # q + 1
    BY <1>1, <2>4, <2>5, <2>6, <2>7, <2>8, <2>11 DEF Split
  <2> QED BY <2>9, <2>10, <2>11
<1>12. ASSUME NEW s \in Sectors, ~InChain(d, f, s)
       PROVE  e[s] = d[s]
  <2>1. s # a
    BY <1>4, <1>5, <1>12 DEF InChain
  <2>2. off + n > BLOCK => s # d[a].next
    BY <1>6, <1>7, <1>12 DEF InChain
  <2>3. \A o \in Offsets : e[s].data[o] = d[s].data[o]
    <3> SUFFICES ASSUME NEW o \in Offsets PROVE e[s].data[o] = d[s].data[o]
      OBVIOUS
    <3>1. BLOCK + o < off + n => off + n > BLOCK
      BY <1>2 DEF Offsets
    <3>2. e[s].data[o] =
            IF s = a /\ off <= o /\ o < off + n THEN buf[o - off + 1]
            ELSE IF s = d[a].next /\ BLOCK + o < off + n THEN buf[BLOCK + o - off + 1]
            ELSE d[s].data[o]
      BY <1>1, <1>9 DEF Patched
    <3> QED BY <2>1, <2>2, <3>1, <3>2
  <2>4. e[s].next = d[s].next /\ e[s] \in Blocks /\ d[s] \in Blocks
    BY <1>10 DEF SameLinks, Disks
  <2> QED BY <2>3, <2>4, BlocksEqual
<1>13. Rewritten(d, e, f, ws, buf)
  BY <1>10, <1>11, <1>12 DEF Rewritten
<1> QED BY <1>8, <1>13
-----------------------------------------------------------------------------
(* Changes of the disk: v and e are what a change leaves of u and d; file  *)
(* i has the FCB g in the end, and no other file has changed.              *)
Step(d, u, e, v, i, g) ==
  /\ Sound(e, v) /\ u \subseteq v /\ Size(e) = Size(d)
  /\ FcbAt(e, i) = g
  /\ g.first_sector = FcbAt(d, i).first_sector /\ g.file_name = FcbAt(d, i).file_name
  /\ FcbAt(d, i).sector_count <= g.sector_count
  /\ \A j \in 0..Size(d) : SameChain(d, e, FcbAt(d, j))
  /\ \A j \in 0..Size(d) : j # i => FcbAt(e, j) = FcbAt(d, j) /\ SameEnd(d, e, FcbAt(d, j))
  /\ \A j \in 1..Size(d) : j # i => SameCells(d, e, FcbAt(d, j))
  /\ \A s \in Sectors : s \notin v => e[s] = d[s]

LEMMA SoundFacts ==
  ASSUME NEW d, NEW u, Sound(d, u)
  PROVE  /\ d \in Disks /\ u \in SUBSET Sectors /\ SECTOR_WITH_ROOT_FCB \in u
         /\ SECTOR_WITH_ROOT_FCB \in Sectors
         /\ Size(d) \in Nat /\ 0 \in 0..Size(d)
         /\ RootFcb(d) = FcbAt(d, 0)
         /\ \A i \in 0..Size(d) : Well(d, u, FcbAt(d, i)) /\ Chained(d, FcbAt(d, i))
<1>1. RootFcb(d) = FcbAt(d, 0)
  BY DEF FcbAt
<1>2. u \in SUBSET Sectors /\ SECTOR_WITH_ROOT_FCB \in Sectors
  BY Constants DEF Sound, Sectors, SECTOR_WITH_ROOT_FCB
<1>3. d \in Disks /\ SECTOR_WITH_ROOT_FCB \in u /\ Size(d) \in Nat
  BY DEF Sound, Disks
<1>4. 0 \in 0..Size(d)
  BY <1>3
<1>5. \A i \in 0..Size(d) : Well(d, u, FcbAt(d, i)) /\ Chained(d, FcbAt(d, i))
  BY <1>2, WellChained DEF Sound
<1> QED BY <1>1, <1>2, <1>3, <1>4, <1>5

(* The directory's cells *)
LEMMA EntryIs ==
  ASSUME NEW d, NEW j \in Nat \ {0}
  PROVE  FcbAt(d, j) = Cell(d, RootFcb(d), j - 1)
BY DEF FcbAt

LEMMA EntryInChain ==
  ASSUME NEW f, f.sector_count \in Nat, NEW n \in Nat, HasCells(f, n),
         NEW j \in Nat, j < n
  PROVE  NTH_BLOCK(j) < f.sector_count
<1>1. f.sector_count * BLOCK \in Nat /\ n <= f.sector_count * BLOCK
  BY Constants, Products DEF HasCells
<1>2. j < f.sector_count * BLOCK
  BY <1>1
<1> QED BY <1>2, PositionBound

LEMMA LinksSame ==
  ASSUME NEW d, NEW e, SameLinks(d, e)
  PROVE  /\ Links(d) => Links(e)
         /\ \A f : f.sector_count \in Nat => SameChain(d, e, f) /\ SameEnd(d, e, f)
<1>1. Links(d) => Links(e)
  BY DEF Links, SameLinks
<1>2. ASSUME NEW f, f.sector_count \in Nat PROVE SameChain(d, e, f) /\ SameEnd(d, e, f)
  BY <1>2, SecLinks DEF SameChain, SameEnd
<1> QED BY <1>1, <1>2

LEMMA RewrittenKeeps ==
  ASSUME NEW d, NEW u, Sound(d, u), NEW i \in 0..Size(d), NEW e, NEW ws, NEW buf,
         Rewritten(d, e, FcbAt(d, i), ws, buf)
  PROVE  /\ e \in Disks /\ Links(e) /\ RootFcb(e) = RootFcb(d) /\ Size(e) = Size(d)
         /\ \A f : f.sector_count \in Nat => SameChain(d, e, f) /\ SameEnd(d, e, f)
         /\ \A g : Chained(d, g) /\ Apart(d, g, FcbAt(d, i)) => SameCells(d, e, g)
         /\ \A s \in Sectors : s \notin u => e[s] = d[s]
<1>1. e \in Disks /\ SameLinks(d, e)
  BY DEF Rewritten
<1>2. /\ Links(e)
      /\ \A f : f.sector_count \in Nat => SameChain(d, e, f) /\ SameEnd(d, e, f)
  BY <1>1, LinksSame DEF Sound
<1>3. \A s \in Sectors : InChain(d, FcbAt(d, i), s) => s \in u \ {SECTOR_WITH_ROOT_FCB}
  BY SoundFacts DEF InChain, Well
<1>4. \A s \in Sectors : s \notin u => e[s] = d[s]
  BY <1>3 DEF Rewritten
<1>5. RootFcb(e) = RootFcb(d) /\ Size(e) = Size(d)
  <2>1. e[SECTOR_WITH_ROOT_FCB] = d[SECTOR_WITH_ROOT_FCB]
    BY <1>3, SoundFacts DEF Rewritten
  <2> QED BY <2>1 DEF RootFcb, Size
<1>6. ASSUME NEW g, Chained(d, g), Apart(d, g, FcbAt(d, i))
      PROVE  SameCells(d, e, g)
  <2>1. SameChain(d, e, g)
    BY <1>2, <1>6 DEF Chained
  <2>2. ASSUME NEW s \in Sectors, InChain(d, g, s) PROVE e[s] = d[s]
    <3>1. ~InChain(d, FcbAt(d, i), s)
      BY <1>6, <2>2 DEF Apart, InChain
    <3> QED BY <3>1 DEF Rewritten
  <2> QED BY <1>6, <2>1, <2>2, CellsKept
<1> QED BY <1>1, <1>2, <1>4, <1>5, <1>6

(* Cells of a normal file are written. *)
LEMMA StepWrite ==
  ASSUME NEW d, NEW u, Sound(d, u), NEW i \in 1..Size(d), NEW e, NEW ws, NEW buf,
         Rewritten(d, e, FcbAt(d, i), ws, buf)
  PROVE  Step(d, u, e, u, i, FcbAt(d, i))
<1>1. i \in 0..Size(d) /\ i # 0 /\ 0 \in 0..Size(d) /\ Size(d) \in Nat
  BY SoundFacts
<1>2. /\ e \in Disks /\ Links(e) /\ RootFcb(e) = RootFcb(d) /\ Size(e) = Size(d)
      /\ \A f : f.sector_count \in Nat => SameChain(d, e, f) /\ SameEnd(d, e, f)
      /\ \A g : Chained(d, g) /\ Apart(d, g, FcbAt(d, i)) => SameCells(d, e, g)
      /\ \A s \in Sectors : s \notin u => e[s] = d[s]
  BY <1>1, RewrittenKeeps
<1>3. \A j \in 0..Size(d) : SameChain(d, e, FcbAt(d, j)) /\ SameEnd(d, e, FcbAt(d, j))
  BY <1>2, SoundFacts DEF Chained
<1>4. \A j \in 0..Size(d) : j # i => SameCells(d, e, FcbAt(d, j))
  BY <1>1, <1>2, SoundFacts DEF Sound
<1>5. \A j \in 0..Size(d) : FcbAt(e, j) = FcbAt(d, j)
  <2>1. FcbAt(e, 0) = FcbAt(d, 0)
    BY <1>2 DEF FcbAt
  <2>2. ASSUME NEW j \in 1..Size(d) PROVE FcbAt(e, j) = FcbAt(d, j)
    <3>1. SameCells(d, e, RootFcb(d)) /\ Well(d, u, RootFcb(d))
      BY <1>1, <1>4, SoundFacts
    <3>2. NTH_BLOCK(j - 1) < RootFcb(d).sector_count /\ j - 1 \in Nat
      <4>1. RootFcb(d).sector_count \in Nat /\ HasCells(RootFcb(d), Size(d))
        BY <3>1 DEF Well, HasCells, Size
      <4>2. j - 1 \in Nat /\ j - 1 < Size(d)
        BY <1>1
      <4> QED BY <1>1, <4>1, <4>2, EntryInChain
    <3>3. Cell(e, RootFcb(d), j - 1) = Cell(d, RootFcb(d), j - 1)
      BY <3>1, <3>2 DEF SameCells
    <3>4. j \in Nat \ {0}
      BY <1>1
    <3> QED BY <1>2, <3>3, <3>4, EntryIs
  <2> QED BY <2>1, <2>2
<1>6. Sound(e, u)
  <2>1. \A j \in 0..Size(d) : Well(e, u, FcbAt(e, j))
    BY <1>3, <1>5, WellKept, SoundFacts
  <2>2. \A j, k \in 0..Size(d) : j # k => Apart(e, FcbAt(e, j), FcbAt(e, k))
    BY <1>3, <1>5, ApartKept DEF Sound
  <2> QED BY <1>2, <2>1, <2>2 DEF Sound, Disks
<1>7. FcbAt(d, i).sector_count <= FcbAt(d, i).sector_count
  BY <1>1, SoundFacts DEF Chained
<1> QED BY <1>1, <1>2, <1>3, <1>4, <1>5, <1>6, <1>7 DEF Step

(* A file g may take the place of file i. *)
Fit(d, u, i, g) ==
  /\ Well(d, u, g)
  /\ \A j \in 0..Size(d) : j # i => Apart(d, g, FcbAt(d, j))

(* g is f, perhaps grown. *)
Successor(f, g) ==
  /\ g.first_sector = f.first_sector /\ g.file_name = f.file_name
  /\ f.sector_count <= g.sector_count

LEMMA WellCounts ==
  ASSUME NEW d, NEW u, NEW f, Well(d, u, f)
  PROVE  f.sector_count \in Nat \ {0} /\ HasCells(f, f.file_size) /\ f.file_size \in Nat
BY Constants DEF Well, HasCells

LEMMA FitReplaces ==
  ASSUME NEW d, NEW u, Sound(d, u), NEW i \in 0..Size(d), NEW g, Fit(d, u, i, g),
         NEW e, NEW v, u \subseteq v,
         e \in Disks, Links(e), Size(e) = Size(d), v \subseteq 0..(SWAP_START - 1),
         \A j \in 0..Size(d) : FcbAt(e, j) = IF j = i THEN g ELSE FcbAt(d, j),
         \A j \in 0..Size(d) : SameChain(d, e, FcbAt(d, j)), SameChain(d, e, g)
  PROVE  Sound(e, v)
<1>1. \A j \in 0..Size(d) : Well(e, v, FcbAt(e, j))
  BY WellKept, SoundFacts DEF Fit
<1>2. ASSUME NEW j \in 0..Size(d), NEW k \in 0..Size(d), j # k
      PROVE  Apart(e, FcbAt(e, j), FcbAt(e, k))
  <2>1. CASE j = i
    <3>1. Apart(d, g, FcbAt(d, k))
      BY <1>2, <2>1 DEF Fit
    <3>2. Apart(e, g, FcbAt(d, k))
      BY <3>1, ApartKept
    <3> QED BY <1>2, <2>1, <3>2
  <2>2. CASE k = i
    <3>1. Apart(d, g, FcbAt(d, j))
      BY <1>2, <2>2 DEF Fit
    <3>2. Apart(e, FcbAt(d, j), g)
      BY <3>1, ApartKept, ApartBoth
    <3> QED BY <1>2, <2>2, <3>2
  <2>3. CASE j # i /\ k # i
    <3>1. Apart(d, FcbAt(d, j), FcbAt(d, k))
      BY <1>2 DEF Sound
    <3>2. Apart(e, FcbAt(d, j), FcbAt(d, k))
      BY <3>1, ApartKept
    <3> QED BY <1>2, <2>3, <3>2
  <2> QED BY <2>1, <2>2, <2>3
<1>3. SECTOR_WITH_ROOT_FCB \in v /\ Size(e) \in Nat
  BY SoundFacts
<1> QED BY <1>1, <1>2, <1>3 DEF Sound, Disks

(* An FCB is written over its entry. *)
LEMMA StepStore ==
  ASSUME NEW d, NEW u, Sound(d, u), NEW i \in 1..Size(d), NEW g, Fit(d, u, i, g),
         Successor(FcbAt(d, i), g), NEW e, Rewritten(d, e, RootFcb(d), i - 1, <<g>>)
  PROVE  Step(d, u, e, u, i, g) /\ SameCells(d, e, FcbAt(d, i)) /\ SameCells(d, e, g)
<1>1. i \in 0..Size(d) /\ i # 0 /\ 0 \in 0..Size(d) /\ Size(d) \in Nat
  BY SoundFacts
<1>2. /\ e \in Disks /\ Links(e) /\ RootFcb(e) = RootFcb(d) /\ Size(e) = Size(d)
      /\ \A f : f.sector_count \in Nat => SameChain(d, e, f) /\ SameEnd(d, e, f)
      /\ \A f : Chained(d, f) /\ Apart(d, f, FcbAt(d, 0)) => SameCells(d, e, f)
      /\ \A s \in Sectors : s \notin u => e[s] = d[s]
  <2>1. Rewritten(d, e, FcbAt(d, 0), i - 1, <<g>>)
    BY SoundFacts
  <2> QED BY <1>1, <2>1, RewrittenKeeps
<1>3. \A j \in 0..Size(d) : SameChain(d, e, FcbAt(d, j)) /\ SameEnd(d, e, FcbAt(d, j))
  BY <1>2, SoundFacts DEF Chained
<1>4. \A j \in 1..Size(d) : SameCells(d, e, FcbAt(d, j))
  <2>1. \A j \in 1..Size(d) : j \in 0..Size(d) /\ j # 0
    OBVIOUS
  <2> QED BY <1>1, <1>2, <2>1, SoundFacts DEF Sound
<1>5. SameChain(d, e, g) /\ SameCells(d, e, g)
  <2>1. Chained(d, g) /\ Apart(d, g, FcbAt(d, 0)) /\ g.sector_count \in Nat
    BY <1>1, SoundFacts, WellChained, WellCounts DEF Fit
  <2> QED BY <1>2, <2>1
<1>6. \A j \in 0..Size(d) : FcbAt(e, j) = IF j = i THEN g ELSE FcbAt(d, j)
  <2>1. FcbAt(e, 0) = FcbAt(d, 0)
    BY <1>2 DEF FcbAt
  <2>2. ASSUME NEW j \in 1..Size(d) PROVE FcbAt(e, j) = IF j = i THEN g ELSE FcbAt(d, j)
    <3>1. j - 1 \in Nat /\ j - 1 < Size(d) /\ j \in Nat \ {0}
      BY <1>1
    <3>2. NTH_BLOCK(j - 1) < RootFcb(d).sector_count
      <4>1. RootFcb(d).sector_count \in Nat /\ HasCells(RootFcb(d), Size(d))
        BY <1>1, SoundFacts, WellCounts DEF Size
      <4> QED BY <1>1, <3>1, <4>1, EntryInChain
    <3>3. Cell(e, RootFcb(d), j - 1) =
            IF i - 1 <= j - 1 /\ j - 1 < (i - 1) + Len(<<g>>)
              THEN <<g>>[(j - 1) - (i - 1) + 1] ELSE Cell(d, RootFcb(d), j - 1)
      BY <3>1, <3>2 DEF Rewritten
    <3>4. i - 1 <= j - 1 /\ j - 1 < (i - 1) + Len(<<g>>) <=> j = i
      BY <1>1
    <3>5. j = i => <<g>>[(j - 1) - (i - 1) + 1] = g
      BY <1>1
    <3> QED BY <1>2, <3>1, <3>3, <3>4, <3>5, EntryIs
  <2> QED BY <1>1, <2>1, <2>2
<1>7. Sound(e, u)
  BY <1>1, <1>2, <1>3, <1>5, <1>6, FitReplaces DEF Sound
<1> QED BY <1>1, <1>2, <1>3, <1>4, <1>5, <1>6, <1>7 DEF Step, Successor

(* One turn of file_expand: file i with one more sector. *)
Longer(f, g, new) ==
  /\ g \in Fcbs /\ g.first_sector = f.first_sector /\ g.file_name = f.file_name
  /\ g.file_size = f.file_size
  /\ g.sector_count = f.sector_count + 1 /\ g.last_sector = new

Linked(d, e, last, new) ==
  /\ e \in Disks
  /\ \A s \in Sectors : e[s].data = d[s].data
  /\ \A s \in Sectors : s # last /\ s # new => e[s].next = d[s].next
  /\ e[last].next = new /\ e[new].next = None

LEMMA StepExtend ==
  ASSUME NEW d, NEW u, Sound(d, u), NEW i \in 0..Size(d), NEW f, f = FcbAt(d, i),
         NEW new \in 0..(SWAP_START - 1), new \notin u,
         NEW e, Linked(d, e, f.last_sector, new), NEW g, Longer(f, g, new),
         NEW v, v = u \cup {new}
  PROVE  /\ Step(d, u, e, v, i, f) /\ Fit(e, v, i, g) /\ Successor(f, g)
         /\ SameCells(d, e, f)
<1>1. /\ new \in Sectors /\ d \in Disks /\ u \in SUBSET Sectors /\ Size(d) \in Nat
      /\ 0 \in 0..Size(d) /\ v \subseteq 0..(SWAP_START - 1)
  <2>1. new \in Sectors
    BY Constants DEF Sectors
  <2>2. v \subseteq 0..(SWAP_START - 1)
    BY DEF Sound
  <2> QED BY <2>1, <2>2, SoundFacts
<1>2. \A j \in 0..Size(d) : Well(d, u, FcbAt(d, j)) /\ Chained(d, FcbAt(d, j))
  BY SoundFacts
<1>3. PICK m \in Nat : m = f.sector_count - 1 /\ m + 1 = f.sector_count
                         /\ m \in 0..(f.sector_count - 1)
  <2>1. f.sector_count - 1 \in Nat /\ (f.sector_count - 1) + 1 = f.sector_count
          /\ f.sector_count - 1 \in 0..(f.sector_count - 1)
    BY <1>2, BelowIs DEF Chained
  <2> QED BY <2>1
<1>4. PICK last \in u : last = f.last_sector /\ last = Sec(d, f, m) /\ last # new
                          /\ last # SECTOR_WITH_ROOT_FCB
  BY <1>2, <1>3 DEF Well
<1>5. \A j \in 0..Size(d), s \in Sectors :
        InChain(d, FcbAt(d, j), s) => s # new /\ (j # i => s # last)
  <2> SUFFICES ASSUME NEW j \in 0..Size(d), NEW k \in 0..(FcbAt(d, j).sector_count - 1)
               PROVE  Sec(d, FcbAt(d, j), k) # new
                        /\ (j # i => Sec(d, FcbAt(d, j), k) # last)
    BY DEF InChain
  <2>1. Sec(d, FcbAt(d, j), k) # new
    BY <1>2 DEF Well
  <2>2. j # i => Sec(d, FcbAt(d, j), k) # last
    BY <1>3, <1>4 DEF Sound, Apart
  <2> QED BY <2>1, <2>2
<1>6. \A j \in 0..Size(d) : SameChain(d, e, FcbAt(d, j))
  <2> SUFFICES ASSUME NEW j \in 0..Size(d) PROVE SameChain(d, e, FcbAt(d, j))
    OBVIOUS
  <2>1. ASSUME NEW s \in Sectors, InChain(d, FcbAt(d, j), s),
               s # Sec(d, FcbAt(d, j), FcbAt(d, j).sector_count - 1)
        PROVE  e[s].next = d[s].next
    <3>1. s # new /\ s # last
      BY <1>3, <1>4, <1>5, <2>1
    <3> QED BY <1>4, <3>1 DEF Linked
  <2> QED BY <1>2, <2>1, ChainKept
<1>7. \A j \in 0..Size(d) : j # i => SameEnd(d, e, FcbAt(d, j))
  <2> SUFFICES ASSUME NEW j \in 0..Size(d), j # i PROVE SameEnd(d, e, FcbAt(d, j))
    OBVIOUS
  <2>1. PICK k \in 0..(FcbAt(d, j).sector_count - 1) : k = FcbAt(d, j).sector_count - 1
    BY <1>2, BelowIs DEF Chained
  <2>2. PICK s \in Sectors : s = Sec(d, FcbAt(d, j), k)
    BY <1>2 DEF Chained
  <2>3. s # new /\ s # last
    BY <1>5, <2>2 DEF InChain
  <2>4. e[s].next = d[s].next
    BY <1>4, <2>3 DEF Linked
  <2> QED BY <1>2, <1>6, <2>1, <2>2, <2>4, EndKept
<1>8. \A j \in 0..Size(d) : SameCells(d, e, FcbAt(d, j))
  BY <1>2, <1>6, CellsKept DEF Linked
<1>9. RootFcb(e) = RootFcb(d) /\ Size(e) = Size(d)
  BY SoundFacts DEF RootFcb, Size, Linked
<1>10. \A j \in 0..Size(d) : FcbAt(e, j) = FcbAt(d, j)
  <2>1. FcbAt(e, 0) = FcbAt(d, 0)
    BY <1>9 DEF FcbAt
  <2>2. ASSUME NEW j \in 1..Size(d) PROVE FcbAt(e, j) = FcbAt(d, j)
    <3>1. j - 1 \in Nat /\ j - 1 < Size(d) /\ j \in Nat \ {0}
      BY <1>1
    <3>2. NTH_BLOCK(j - 1) < RootFcb(d).sector_count
      <4>1. RootFcb(d).sector_count \in Nat /\ HasCells(RootFcb(d), Size(d))
        BY <1>1, SoundFacts, WellCounts DEF Size
      <4> QED BY <1>1, <3>1, <4>1, EntryInChain
    <3>3. Cell(e, RootFcb(d), j - 1) = Cell(d, RootFcb(d), j - 1)
      BY <1>1, <1>8, <3>1, <3>2, SoundFacts DEF SameCells
    <3> QED BY <1>9, <3>1, <3>3, EntryIs
  <2> QED BY <2>1, <2>2
<1>11. Links(e)
  <2> SUFFICES ASSUME NEW s \in Sectors
               PROVE  e[s].next \in Sectors \cup
                        IF s < SWAP_START THEN {None, Mistyped} ELSE {None, Overwritten}
    BY DEF Links
  <2>1. CASE s = new
    BY <2>1 DEF Linked
  <2>2. CASE s = last
    BY <1>1, <1>4, <2>2 DEF Linked
  <2>3. CASE s # new /\ s # last
    BY <1>4, <2>3 DEF Linked, Sound, Links
  <2> QED BY <2>1, <2>2, <2>3
<1>12. Sound(e, v)
  <2>1. \A j \in 0..Size(d) : Well(e, v, FcbAt(e, j))
    BY <1>2, <1>6, <1>10, WellKept
  <2>2. \A j, k \in 0..Size(d) : j # k => Apart(e, FcbAt(e, j), FcbAt(e, k))
    BY <1>6, <1>10, ApartKept DEF Sound
  <2> QED BY <1>1, <1>9, <1>11, <2>1, <2>2, SoundFacts DEF Sound, Disks, Linked
<1>13. \A s \in Sectors : s \notin v => e[s] = d[s]
  <2> SUFFICES ASSUME NEW s \in Sectors, s \notin v PROVE e[s] = d[s]
    OBVIOUS
  <2>1. s # new /\ s # last
    BY <1>4
  <2>2. e[s].next = d[s].next /\ e[s].data = d[s].data /\ e[s] \in Blocks /\ d[s] \in Blocks
    BY <1>1, <1>4, <2>1 DEF Linked, Disks
  <2> QED BY <2>2, BlocksEqual
<1>14. Step(d, u, e, v, i, f)
  <2>1. f.sector_count <= f.sector_count
    BY <1>2 DEF Chained
  <2> QED BY <1>6, <1>7, <1>8, <1>9, <1>10, <1>12, <1>13, <2>1 DEF Step
<1>15. \A k \in 0..(f.sector_count - 1) : Sec(e, g, k) = Sec(d, f, k)
  BY <1>6 DEF SameChain, Sec, Longer
<1>16. Sec(e, g, f.sector_count) = new
  <2>1. Sec(e, g, m + 1) = read_disk(e, Sec(e, g, m)).next
    BY SecNext
  <2>2. Sec(e, g, m) = last /\ last \in Sectors
    BY <1>1, <1>3, <1>4, <1>15
  <2> QED BY <1>3, <1>4, <2>1, <2>2 DEF read_disk, Linked
<1>17. PICK n \in Nat \ {0} : n = f.sector_count /\ g.sector_count = n + 1
  BY <1>2 DEF Chained, Longer
<1>18. \A k : k \in 0..(g.sector_count - 1) <=> k \in 0..(f.sector_count - 1) \/ k = n
  BY <1>17
<1>19. Well(e, v, g)
  <2>1. g \in Fcbs /\ g.sector_count \in Nat \ {0} /\ g.file_size \in 0..MaxSize
          /\ g.file_size <= g.sector_count * BLOCK
    <3>1. f.file_size \in Nat /\ f.file_size \in 0..MaxSize
            /\ f.file_size <= f.sector_count * BLOCK
      BY <1>2, Constants DEF Well
    <3>2. PICK a \in Nat : a = BLOCK * n /\ n * BLOCK = a /\ (n + 1) * BLOCK = a + BLOCK
      <4>1. BLOCK \in Nat /\ n \in Nat /\ n + 1 \in Nat
        BY <1>17, Constants
      <4>2. BLOCK * n \in Nat /\ n * BLOCK = BLOCK * n /\ BLOCK * (n + 1) = BLOCK * n + BLOCK
        BY <4>1, Products
      <4>3. (n + 1) * BLOCK = BLOCK * (n + 1)
        BY <4>1, Products
      <4> QED BY <4>2, <4>3
    <3>3. f.file_size <= a + BLOCK
      BY <1>17, <3>1, <3>2, Constants
    <3> QED BY <1>17, <3>1, <3>2, <3>3 DEF Longer
  <2>2. \A k \in 0..(g.sector_count - 1) : Sec(e, g, k) \in v \ {SECTOR_WITH_ROOT_FCB}
    <3>1. \A k \in 0..(f.sector_count - 1) : Sec(d, f, k) \in u \ {SECTOR_WITH_ROOT_FCB}
      BY <1>2 DEF Well
    <3>2. new # SECTOR_WITH_ROOT_FCB
      BY SoundFacts
    <3> QED BY <1>15, <1>16, <1>17, <1>18, <3>1, <3>2
  <2>3. \A k, l \in 0..(g.sector_count - 1) : Sec(e, g, k) = Sec(e, g, l) => k = l
    <3>1. \A k \in 0..(f.sector_count - 1) : Sec(d, f, k) # new
      BY <1>2 DEF Well
    <3>2. \A k, l \in 0..(f.sector_count - 1) : Sec(d, f, k) = Sec(d, f, l) => k = l
      BY <1>2 DEF Well
    <3> QED BY <1>15, <1>16, <1>17, <1>18, <3>1, <3>2
  <2>4. Sec(e, g, g.sector_count - 1) = g.last_sector
    BY <1>16, <1>17 DEF Longer
  <2> QED BY <2>1, <2>2, <2>3, <2>4 DEF Well
<1>20. ASSUME NEW j \in 0..Size(d), j # i PROVE Apart(e, g, FcbAt(d, j))
  <2>1. \A k \in 0..(f.sector_count - 1), l \in 0..(FcbAt(d, j).sector_count - 1) :
          Sec(d, f, k) # Sec(d, FcbAt(d, j), l)
    BY <1>20 DEF Sound, Apart
  <2>2. \A l \in 0..(FcbAt(d, j).sector_count - 1) :
          Sec(d, FcbAt(d, j), l) # new /\ Sec(e, FcbAt(d, j), l) = Sec(d, FcbAt(d, j), l)
    BY <1>2, <1>6 DEF Well, SameChain
  <2> QED BY <1>15, <1>16, <1>17, <1>18, <2>1, <2>2 DEF Apart
<1>21. Fit(e, v, i, g)
  BY <1>9, <1>10, <1>19, <1>20 DEF Fit
<1>22. Successor(f, g)
  BY <1>17 DEF Successor, Longer
<1> QED BY <1>8, <1>14, <1>21, <1>22
-----------------------------------------------------------------------------
(* file_expand and Grown *)

Grow(f, new) ==
  [file_name |-> f.file_name, first_sector |-> f.first_sector, last_sector |-> new,
   sector_count |-> f.sector_count + 1, file_size |-> f.file_size]
EndsAt(h, new) == [h EXCEPT !.file.last_sector = new]
PutFile(h, f) ==
  [file |-> f, path |-> h.path, index |-> h.index, read_seek |-> h.read_seek,
   write_seek |-> h.write_seek, read_sector |-> h.read_sector, write_sector |-> h.write_sector]

LEMMA ExtendedIs ==
  ASSUME NEW d \in Disks, NEW u, NEW h \in Handle, NEW new \in Sectors, new = file_alloc(u),
         NEW last \in Sectors, last = h.file.last_sector, last # new,
         NEW fs, fs = [disk |-> d, used |-> u, h |-> h]
  PROVE  /\ Linked(d, Extended(fs).disk, last, new)
         /\ Extended(fs).used = u \cup {new}
         /\ Extended(fs) = [disk |-> Extended(fs).disk, used |-> u \cup {new},
                            h |-> EndsAt(h, new)]
<1>1. fs.disk = d /\ fs.used = u /\ fs.h = h
  OBVIOUS
<1>2. PICK e : e = [d EXCEPT ![last].next = new, ![new].next = None]
  OBVIOUS
<1>a. e = [fs.disk EXCEPT ![fs.h.file.last_sector].next = new, ![new].next = None]
  BY <1>1, <1>2, Zenon
<1>b. fs.used \cup {new} = u \cup {new}
  BY <1>1
<1>c. Extended(fs) = [fs EXCEPT !.used = u \cup {new}, !.disk = e, !.h.file.last_sector = new]
  BY <1>a, <1>b, Zenon DEF Extended
<1>3. Extended(fs) = [disk |-> e, used |-> u \cup {new}, h |-> [h EXCEPT !.file.last_sector = new]]
  BY <1>c DEF Handle, Fcbs
<1>4. Linked(d, e, last, new)
  BY <1>2 DEF Disks, Blocks, Linked, None, Sectors
<1>5. Extended(fs) = [disk |-> e, used |-> u \cup {new}, h |-> EndsAt(h, new)]
  BY <1>3, Zenon DEF EndsAt
<1> QED BY <1>4, <1>5

(* The disk in a record of a call's results *)
LEMMA PutDisk ==
  ASSUME NEW a, NEW b, NEW c, NEW e
  PROVE  [[disk |-> a, used |-> b, h |-> c] EXCEPT !.disk = e] = [disk |-> e, used |-> b, h |-> c]
OBVIOUS

LEMMA ExpandIs ==
  ASSUME NEW fs
  PROVE  file_expand(fs, 1) =
           LET counted == [Extended(fs) EXCEPT !.h.file.sector_count = @ + 1]
           IN [counted EXCEPT !.disk = store_file_cached(@, counted.h)]
<1> DEFINE G(g) == g = [n \in 0..1 |-> IF n = 0 THEN fs ELSE Extended(g[n - 1])]
           grown == CHOOSE g : G(g)
           w == [n \in 0..1 |-> IF n = 0 THEN fs ELSE Extended(fs)]
<1>1. G(w)
  OBVIOUS
<1>2. G(grown)
  BY <1>1, Zenon
<1>3. grown[1] = Extended(fs)
  <2> HIDE DEF grown
  <2> QED BY <1>2
<1> QED BY <1>3, Zenon DEF file_expand

LEMMA SameFirst ==
  ASSUME NEW f, NEW g, f.first_sector = g.first_sector, NEW d, NEW k
  PROVE  Sec(d, f, k) = Sec(d, g, k) /\ Cell(d, f, k) = Cell(d, g, k)
BY DEF Sec, Cell

LEMMA CellsTransitive ==
  ASSUME NEW d, NEW e, NEW c, NEW f, NEW g, f.sector_count \in Nat, g.sector_count \in Nat,
         Successor(f, g), SameCells(d, e, f), SameCells(e, c, g)
  PROVE  SameCells(d, c, f)
<1> SUFFICES ASSUME NEW j \in Nat, NTH_BLOCK(j) < f.sector_count
             PROVE  Cell(c, f, j) = Cell(d, f, j)
  BY DEF SameCells
<1>1. NTH_BLOCK(j) < g.sector_count
  BY Position DEF Successor
<1>2. Cell(c, g, j) = Cell(e, g, j) /\ Cell(e, f, j) = Cell(d, f, j)
  BY <1>1 DEF SameCells
<1>3. Cell(c, f, j) = Cell(c, g, j) /\ Cell(e, f, j) = Cell(e, g, j)
  BY SameFirst DEF Successor
<1> QED BY <1>2, <1>3

LEMMA StepStutter ==
  ASSUME NEW d, NEW u, Sound(d, u), NEW i \in 0..Size(d)
  PROVE  Step(d, u, d, u, i, FcbAt(d, i)) /\ SameCells(d, d, FcbAt(d, i))
<1>1. FcbAt(d, i).sector_count <= FcbAt(d, i).sector_count
  BY SoundFacts DEF Chained
<1> QED BY <1>1 DEF Step, SameChain, SameEnd, SameCells

LEMMA StepTransitive ==
  ASSUME NEW d, NEW u, Sound(d, u), NEW i \in 0..Size(d), NEW f, NEW g,
         NEW e, NEW v, NEW c, NEW w, Step(d, u, e, v, i, f), Step(e, v, c, w, i, g)
  PROVE  Step(d, u, c, w, i, g)
<1>1. Size(e) = Size(d) /\ FcbAt(e, i) = f /\ Successor(FcbAt(d, i), f) /\ Successor(f, g)
  BY DEF Step, Successor
<1>2. FcbAt(d, i).sector_count \in Nat /\ f.sector_count \in Nat /\ g.sector_count \in Nat
  <2>1. Well(d, u, FcbAt(d, i)) /\ Well(e, v, f) /\ Well(c, w, g)
    BY <1>1, SoundFacts DEF Step
  <2> QED BY <2>1, WellCounts
<1>3. Successor(FcbAt(d, i), g)
  BY <1>1, <1>2 DEF Successor
<1>4. \A j \in 0..Size(d) : SameChain(d, c, FcbAt(d, j))
  <2> SUFFICES ASSUME NEW j \in 0..Size(d) PROVE SameChain(d, c, FcbAt(d, j))
    OBVIOUS
  <2>1. SameChain(d, e, FcbAt(d, j)) /\ SameChain(e, c, FcbAt(e, j))
    BY <1>1 DEF Step
  <2>2. CASE j # i
    BY <2>1, <2>2 DEF Step, SameChain
  <2>3. CASE j = i
    <3>1. \A k \in 0..(FcbAt(d, i).sector_count - 1) : k \in 0..(f.sector_count - 1)
      BY <1>1, <1>2 DEF Successor
    <3>2. \A k : Sec(c, FcbAt(d, i), k) = Sec(c, f, k) /\ Sec(e, FcbAt(d, i), k) = Sec(e, f, k)
      BY <1>1, SameFirst DEF Successor
    <3> QED BY <1>1, <2>1, <2>3, <3>1, <3>2 DEF SameChain
  <2> QED BY <2>2, <2>3
<1>5. \A j \in 0..Size(d) : j # i => FcbAt(c, j) = FcbAt(d, j) /\ SameEnd(d, c, FcbAt(d, j))
  BY <1>1 DEF Step, SameEnd
<1>6. \A j \in 1..Size(d) : j # i => SameCells(d, c, FcbAt(d, j))
  <2> SUFFICES ASSUME NEW j \in 1..Size(d), j # i PROVE SameCells(d, c, FcbAt(d, j))
    OBVIOUS
  <2>1. j \in 0..Size(d)
    OBVIOUS
  <2>2. FcbAt(e, j) = FcbAt(d, j) /\ SameCells(d, e, FcbAt(d, j)) /\ SameCells(e, c, FcbAt(d, j))
    BY <1>1, <2>1 DEF Step
  <2> QED BY <2>2 DEF SameCells
<1>7. \A s \in Sectors : s \notin w => c[s] = d[s]
  BY DEF Step
<1> QED BY <1>1, <1>3, <1>4, <1>5, <1>6, <1>7 DEF Step, Successor

LEMMA AllocIs ==
  ASSUME NEW u \in SUBSET Sectors, NEW s \in Sectors, s \notin u
  PROVE  file_alloc(u) \in Sectors /\ file_alloc(u) \notin u
<1>1. Sectors \ u \in SUBSET Nat /\ Sectors \ u # {}
  BY DEF Sectors
<1>2. file_alloc(u) \in Sectors \ u
  BY <1>1, MinIs DEF file_alloc
<1> QED BY <1>2

(* Where store_file_cached writes an entry. *)
LEMMA StoreIs ==
  ASSUME NEW d, NEW u, Sound(d, u), NEW h \in Handle, h.path # RootPath,
         NEW i \in 1..Size(d), h.index = i - 1
  PROVE  Rewritten(d, store_file_cached(d, h), RootFcb(d), i - 1, <<h.file>>)
<1>1. PICK k : k = sys_wseek(d, RootOpened(d), h.index)
  OBVIOUS
<1>2. k.write_seek = i - 1 /\ k.write_sector = Sec(d, RootFcb(d), NTH_BLOCK(i - 1))
  BY <1>1 DEF sys_wseek, RootOpened, Opened, Sec
<1>3. store_file_cached(d, h) = covering_write(d, k, <<h.file>>)
  BY <1>1 DEF store_file_cached
<1>4. <<h.file>> \in Seq(Cells) /\ Len(<<h.file>>) = 1
  <2>1. h.file \in Cells
    BY DEF Handle, Cells
  <2> QED BY <2>1
<1>5. i - 1 \in Nat /\ (i - 1) + 1 = i /\ Size(d) \in Nat
  BY SoundFacts
<1>6. HasCells(RootFcb(d), i) /\ Chained(d, RootFcb(d)) /\ d \in Disks
  <2>1. RootFcb(d).sector_count * BLOCK \in Nat
    BY SoundFacts, Constants, Products DEF Chained
  <2>2. Size(d) <= RootFcb(d).sector_count * BLOCK
    BY SoundFacts DEF Well, Size
  <2> QED BY <1>5, <2>1, <2>2, SoundFacts DEF HasCells
<1>7. InTwoSectors(i - 1, 1)
  <2>1. IN_BLOCK_OFFSET(i - 1) \in 0..(BLOCK - 1) /\ BLOCK \in Nat \ {0}
    BY <1>5, Position, Constants
  <2> QED BY <2>1 DEF InTwoSectors
<1>8. HasCells(RootFcb(d), (i - 1) + Len(<<h.file>>)) /\ InTwoSectors(i - 1, Len(<<h.file>>))
        /\ Len(<<h.file>>) > 0
  BY <1>4, <1>5, <1>6, <1>7
<1>9. Rewritten(d, covering_write(d, k, <<h.file>>), RootFcb(d), i - 1, <<h.file>>)
  BY <1>2, <1>4, <1>5, <1>6, <1>8, WriteInFile
<1> QED BY <1>3, <1>9

LEMMA PutFileIs ==
  ASSUME NEW h \in Handle, NEW g \in Fcbs
  PROVE  /\ PutFile(h, g) \in Handle /\ PutFile(h, g).file = g
         /\ PutFile(h, g).path = h.path /\ PutFile(h, g).index = h.index
         /\ PutFile(h, g).read_seek = h.read_seek /\ PutFile(h, g).write_seek = h.write_seek
         /\ PutFile(h, g).read_sector = h.read_sector
         /\ PutFile(h, g).write_sector = h.write_sector
BY DEF PutFile, Handle

LEMMA GrowIs ==
  ASSUME NEW f \in Fcbs, f.sector_count \in Nat, NEW new \in Int
  PROVE  Longer(f, Grow(f, new), new) /\ Grow(f, new) \in Fcbs
<1>2. /\ f.file_name \in Names \cup {"usr", "root"} /\ f.first_sector \in Int
      /\ f.sector_count + 1 \in Int /\ f.file_size \in Int
  BY DEF Fcbs
<1>3. Grow(f, new) \in Fcbs
  BY <1>2 DEF Grow, Fcbs
<1> QED BY <1>3 DEF Grow, Longer

Expands(fs, d, u, k, last, new) ==
  \E e : /\ Linked(d, e, last, new)
         /\ file_expand(fs, 1) = [disk |-> store_file_cached(e, k), used |-> u \cup {new},
                                  h |-> k]

LEMMA ExpandedIs ==
  ASSUME NEW d \in Disks, NEW u, NEW h \in Handle, NEW new \in Sectors, new = file_alloc(u),
         NEW last \in Sectors, last = h.file.last_sector, last # new,
         NEW fs, fs = [disk |-> d, used |-> u, h |-> h],
         NEW k, k = PutFile(h, Grow(h.file, new))
  PROVE  Expands(fs, d, u, k, last, new)
<1>1. PICK e : e = Extended(fs).disk
  OBVIOUS
<1>2. Linked(d, e, last, new)
  <2>1. Linked(d, Extended(fs).disk, last, new)
    BY ExtendedIs
  <2> QED BY <1>1, <2>1
<1>3. PICK es : es = Extended(fs)
  OBVIOUS
<1>4. es = [disk |-> e, used |-> u \cup {new}, h |-> EndsAt(h, new)]
  BY <1>1, <1>3, ExtendedIs
<1>5. PICK counted : counted = [es EXCEPT !.h.file.sector_count = @ + 1]
  OBVIOUS
<1>6. counted = [disk |-> e, used |-> u \cup {new}, h |-> k]
  BY <1>4, <1>5 DEF Handle, Fcbs, PutFile, Grow, EndsAt, Sectors
<1>7. file_expand(fs, 1) = [counted EXCEPT !.disk = store_file_cached(@, counted.h)]
  BY <1>3, <1>5, ExpandIs
<1>8. counted.disk = e /\ counted.h = k
  BY <1>6
<1>9. [counted EXCEPT !.disk = store_file_cached(@, counted.h)]
        = [counted EXCEPT !.disk = store_file_cached(e, k)]
  BY <1>8, Zenon
<1>10. [counted EXCEPT !.disk = store_file_cached(e, k)]
         = [disk |-> store_file_cached(e, k), used |-> u \cup {new}, h |-> k]
  <2>1. PICK c : c = store_file_cached(e, k)
    OBVIOUS
  <2>2. [counted EXCEPT !.disk = c] = [disk |-> c, used |-> u \cup {new}, h |-> k]
    <3>1. [[disk |-> e, used |-> u \cup {new}, h |-> k] EXCEPT !.disk = c]
            = [disk |-> c, used |-> u \cup {new}, h |-> k]
      BY PutDisk
    <3> QED BY <1>6, <3>1, Zenon
  <2> QED BY <2>1, <2>2, Zenon
<1> QED BY <1>2, <1>7, <1>9, <1>10 DEF Expands

(* What a file has before it is written to: enough sectors for its size,   *)
(* and at most one too few for the cells that are to come.                 *)
NeedsOne(f, n) ==
  /\ SectorsFor(f.file_size) <= f.sector_count
  /\ NTH_BLOCK(f.file_size + n) <= NTH_BLOCK(f.file_size) + 1

LEMMA NeedIs ==
  ASSUME NEW f, f.sector_count \in Nat, f.file_size \in Nat, NEW n \in Nat, NeedsOne(f, n)
  PROVE  /\ SectorsFor(f.file_size + n) \in Int
         /\ SectorsFor(f.file_size + n) - f.sector_count > 0 =>
              /\ SectorsFor(f.file_size + n) - f.sector_count = 1
              /\ SectorsFor(f.file_size + n) = f.sector_count + 1
         /\ ~(SectorsFor(f.file_size + n) - f.sector_count > 0) =>
              SectorsFor(f.file_size + n) <= f.sector_count
<1>1. PICK p \in Nat, q \in Nat :
        p = NTH_BLOCK(f.file_size) /\ q = NTH_BLOCK(f.file_size + n) /\ q <= p + 1
          /\ p + 1 <= f.sector_count
  <2>1. f.file_size + n \in Nat
    OBVIOUS
  <2> QED BY <2>1, Position DEF NeedsOne, SectorsFor
<1>2. SectorsFor(f.file_size + n) = q + 1
  BY <1>1 DEF SectorsFor
<1> QED BY <1>1, <1>2

(* The result of a call: the disk, the bitmap and the handle with an FCB. *)
Result(h, r, g) == r = [disk |-> r.disk, used |-> r.used, h |-> PutFile(h, g)]

GrownTo(d, u, i, h, r, g, n) ==
  /\ Result(h, r, g) /\ Step(d, u, r.disk, r.used, i, g)
  /\ SameCells(d, r.disk, FcbAt(d, i))
  /\ g.file_size = h.file.file_size
  /\ SectorsFor(h.file.file_size + n) <= g.sector_count

LEMMA PutSame ==
  ASSUME NEW h \in Handle
  PROVE  PutFile(h, h.file) = h
BY DEF PutFile, Handle

LEMMA GrownFile ==
  ASSUME SWAP_START < NSectors, NEW d, NEW u, Sound(d, u), NEW i \in 1..Size(d),
         NEW h \in Handle, h.file = FcbAt(d, i), h.path # RootPath, h.index = i - 1,
         NEW n \in Nat, NeedsOne(h.file, n),
         NEW fs, fs = [disk |-> d, used |-> u, h |-> h],
         NEW r, r = Grown(fs, n), r.used \subseteq 0..(SWAP_START - 1)
  PROVE  \E g : GrownTo(d, u, i, h, r, g, n)
<1> DEFINE f == h.file
<1>0. i \in 0..Size(d) /\ f \in Fcbs
  BY SoundFacts DEF Handle
<1>1. i \in 0..Size(d) /\ f \in Fcbs /\ Well(d, u, f) /\ Chained(d, f)
  BY <1>0, SoundFacts
<1>2. f.sector_count \in Nat \ {0} /\ f.file_size \in Nat
  BY <1>1, WellCounts
<1>3. fs.h = h /\ fs.disk = d /\ fs.used = u
  OBVIOUS
<1>4. PICK need : need = SectorsFor(f.file_size + n) - f.sector_count
  OBVIOUS
<1>5. Grown(fs, n) = IF need > 0 THEN file_expand(fs, need) ELSE fs
  BY <1>3, <1>4, Zenon DEF Grown
<1>6. CASE ~(need > 0)
  <2>1. SectorsFor(f.file_size + n) <= f.sector_count
    BY <1>2, <1>4, <1>6, NeedIs
  <2>2. r = fs
    BY <1>5, <1>6
  <2>3. Result(h, r, f)
    BY <2>2, PutSame DEF Result
  <2>4. GrownTo(d, u, i, h, r, f, n)
    BY <1>1, <1>3, <2>1, <2>2, <2>3, StepStutter DEF GrownTo
  <2> QED BY <2>4
<1>7. CASE need > 0
  <2>1. need = 1 /\ SectorsFor(f.file_size + n) = f.sector_count + 1
    BY <1>2, <1>4, <1>7, NeedIs
  <2>2. PICK new : new = file_alloc(u)
    OBVIOUS
  <2>3. new \in Sectors /\ new \notin u
    <3>1. SWAP_START \in Sectors /\ SWAP_START \notin u /\ u \in SUBSET Sectors
      BY Constants, SoundFacts DEF Sectors, Sound
    <3> QED BY <2>2, <3>1, AllocIs
  <2>4. PICK last \in Sectors : last = f.last_sector /\ last # new
    <3>1. f.last_sector \in u
      BY <1>1, <1>2, BelowIs DEF Well
    <3> QED BY <2>3, <3>1, SoundFacts
  <2>5. PICK k : k = PutFile(h, Grow(f, new))
    OBVIOUS
  <2>6. d \in Disks
    BY SoundFacts
  <2>7. PICK e : /\ Linked(d, e, last, new)
                 /\ file_expand(fs, 1) = [disk |-> store_file_cached(e, k),
                                          used |-> u \cup {new}, h |-> k]
    <3>1. Expands(fs, d, u, k, last, new)
      BY <2>2, <2>3, <2>4, <2>5, <2>6, ExpandedIs
    <3> QED BY <3>1 DEF Expands
  <2>8. PICK g, v : g = Grow(f, new) /\ v = u \cup {new}
    OBVIOUS
  <2>9. r = [disk |-> store_file_cached(e, k), used |-> v, h |-> k]
    BY <1>5, <1>7, <2>1, <2>7, <2>8
  <2>10. new \in 0..(SWAP_START - 1) /\ new \in Int
    BY <2>3, <2>8, <2>9 DEF Sectors
  <2>11. Longer(f, g, new) /\ g \in Fcbs
    BY <1>1, <1>2, <2>8, <2>10, GrowIs
  <2>12. /\ Step(d, u, e, v, i, f) /\ Fit(e, v, i, g) /\ Successor(f, g) /\ SameCells(d, e, f)
    BY <1>1, <2>3, <2>4, <2>7, <2>8, <2>10, <2>11, StepExtend
  <2>13. Sound(e, v) /\ Size(e) = Size(d) /\ FcbAt(e, i) = f
    BY <2>12 DEF Step
  <2>14. k \in Handle /\ k.path = h.path /\ k.index = h.index /\ k.file = g
    BY <2>5, <2>8, <2>11, PutFileIs
  <2>15. PICK c : c = store_file_cached(e, k)
    OBVIOUS
  <2>16. Rewritten(e, c, RootFcb(e), i - 1, <<g>>)
    BY <2>13, <2>14, <2>15, StoreIs
  <2>17. Step(e, v, c, v, i, g) /\ SameCells(e, c, g)
    BY <2>12, <2>13, <2>16, StepStore
  <2>18. Step(d, u, c, v, i, g)
    BY <1>1, <2>12, <2>17, StepTransitive
  <2>19. SameCells(d, c, f)
    <3>1. g.sector_count \in Nat
      BY <1>2, <2>11 DEF Longer
    <3> QED BY <1>2, <2>12, <2>17, <3>1, CellsTransitive
  <2>20. Result(h, r, g) /\ r.disk = c /\ r.used = v
    BY <2>5, <2>8, <2>9, <2>15 DEF Result
  <2>21. GrownTo(d, u, i, h, r, g, n)
    BY <2>1, <2>11, <2>18, <2>19, <2>20, <1>2 DEF GrownTo, Longer
  <2> QED BY <2>21
<1> QED BY <1>6, <1>7
-----------------------------------------------------------------------------
(* Handles *)

LEMMA HandleIs ==
  ASSUME NEW h \in Handle
  PROVE  /\ h.file \in Fcbs /\ h.path \in Names \cup {RootPath, "usr"} /\ h.index \in Nat
         /\ h.read_seek \in Nat /\ h.write_seek \in Nat
         /\ h.read_sector \in Int /\ h.write_sector \in Int
BY DEF Handle

LEMMA SecInt ==
  ASSUME NEW d \in Disks, NEW f \in Fcbs, NEW k \in Nat
  PROVE  Sec(d, f, k) \in Int
<1>1. CASE k = 0
  BY <1>1, SecZero DEF Fcbs
<1>2. CASE k # 0
  <2>1. k - 1 \in Nat /\ (k - 1) + 1 = k
    BY <1>2
  <2>2. Sec(d, f, (k - 1) + 1) = read_disk(d, Sec(d, f, k - 1)).next
    BY <2>1, SecNext
  <2> QED BY <2>1, <2>2, ReadIsBlock, BlockFields
<1> QED BY <1>1, <1>2

(* The positions of a handle are in the sectors it says. *)
At(d, h) ==
  /\ h \in Handle
  /\ h.read_sector = Sec(d, h.file, NTH_BLOCK(h.read_seek))
  /\ h.write_sector = Sec(d, h.file, NTH_BLOCK(h.write_seek))

(* A call that moves only the read position, or only the write position. *)
SameButRead(h, k) ==
  /\ k.file = h.file /\ k.path = h.path /\ k.index = h.index
  /\ k.write_seek = h.write_seek /\ k.write_sector = h.write_sector
SameButWrite(h, k) ==
  /\ k.file = h.file /\ k.path = h.path /\ k.index = h.index
  /\ k.read_seek = h.read_seek /\ k.read_sector = h.read_sector

ReadAt(h, k, n, s) ==
  k \in Handle /\ SameButRead(h, k) /\ k.read_seek = n /\ k.read_sector = s
MovedTo(h, n, s) == [h EXCEPT !.read_seek = n, !.read_sector = s]
SoughtTo(h, n, s) == [h EXCEPT !.read_sector = s, !.read_seek = n]
WrittenTo(h, n, s) == [h EXCEPT !.write_sector = s, !.write_seek = n]

LEMMA ReadMoved ==
  ASSUME NEW h \in Handle, NEW n \in Nat, NEW s \in Int, NEW k,
         k = MovedTo(h, n, s)
  PROVE  ReadAt(h, k, n, s)
BY Zenon DEF Handle, MovedTo, SameButRead, ReadAt

LEMMA ReadSought ==
  ASSUME NEW h \in Handle, NEW n \in Nat, NEW s \in Int, NEW k,
         k = SoughtTo(h, n, s)
  PROVE  k \in Handle /\ SameButRead(h, k) /\ k.read_seek = n /\ k.read_sector = s
BY Zenon DEF Handle, SoughtTo, SameButRead

LEMMA ReadAdvanced ==
  ASSUME NEW h \in Handle, NEW n \in Nat, NEW k,
         k = [h EXCEPT !.read_seek = n]
  PROVE  k \in Handle /\ SameButRead(h, k) /\ k.read_seek = n /\ k.read_sector = h.read_sector
BY Zenon DEF Handle, SameButRead

LEMMA WriteSought ==
  ASSUME NEW h \in Handle, NEW n \in Nat, NEW s \in Int, NEW k,
         k = WrittenTo(h, n, s)
  PROVE  k \in Handle /\ SameButWrite(h, k) /\ k.write_seek = n /\ k.write_sector = s
BY Zenon DEF Handle, WrittenTo, SameButWrite

LEMMA WseekMoves ==
  ASSUME NEW d \in Disks, NEW h, At(d, h), NEW n \in Nat, NEW k, k = sys_wseek(d, h, n)
  PROVE  At(d, k) /\ SameButWrite(h, k) /\ k.write_seek = n
<1>1. h \in Handle
  BY DEF At
<1>2. PICK s \in Int : s = Sec(d, h.file, NTH_BLOCK(n))
  BY <1>1, HandleIs, SecInt, Position
<1>3. k = WrittenTo(h, n, s)
  BY <1>2, Zenon DEF sys_wseek, Sec, WrittenTo
<1>4. k \in Handle /\ SameButWrite(h, k) /\ k.write_seek = n /\ k.write_sector = s
  BY <1>1, <1>3, WriteSought
<1> QED BY <1>2, <1>4 DEF At, SameButWrite

LEMMA RseekMoves ==
  ASSUME NEW d \in Disks, NEW h, At(d, h), NEW n \in Nat, NEW k, k = sys_rseek(d, h, n)
  PROVE  /\ At(d, k) /\ SameButRead(h, k)
         /\ n < h.file.file_size => k.read_seek = n
         /\ ~(n < h.file.file_size) => k = h
<1>1. h \in Handle
  BY DEF At
<1>2. CASE ~(n < h.file.file_size)
  <2>1. k = h
    BY <1>2, Zenon DEF sys_rseek
  <2> QED BY <1>2, <2>1 DEF SameButRead
<1>3. CASE n < h.file.file_size
  <2>1. PICK s \in Int : s = Sec(d, h.file, NTH_BLOCK(n))
    BY <1>1, HandleIs, SecInt, Position
  <2>2. k = SoughtTo(h, n, s)
    BY <1>3, <2>1, Zenon DEF sys_rseek, Sec, SoughtTo
  <2>3. k \in Handle /\ SameButRead(h, k) /\ k.read_seek = n /\ k.read_sector = s
    BY <1>1, <2>1, <2>2, ReadSought
  <2> QED BY <1>3, <2>1, <2>3 DEF At, SameButRead
<1> QED BY <1>2, <1>3

ReadInFile(h) == h.read_seek <= h.file.file_size

LEMMA AfterReadMoves ==
  ASSUME NEW d \in Disks, NEW h, At(d, h), ReadInFile(h),
         NEW n \in Nat, NEW k, k = AfterRead(d, h, n)
  PROVE  At(d, k) /\ SameButRead(h, k) /\ ReadInFile(k)
<1>1. h \in Handle
  BY DEF At
<1>2. PICK rs \in Nat, size \in Int : rs = h.read_seek /\ size = h.file.file_size
  BY <1>1, HandleIs DEF Fcbs
<1>3. PICK p \in Nat, o \in 0..(BLOCK - 1) :
        p = NTH_BLOCK(rs) /\ o = IN_BLOCK_OFFSET(rs) /\ rs = BLOCK * p + o
  BY Position
<1>4. PICK q \in Nat, t \in 0..(BLOCK - 1) :
        q = NTH_BLOCK(rs + n) /\ t = IN_BLOCK_OFFSET(rs + n) /\ rs + n = BLOCK * q + t
  <2>1. rs + n \in Nat
    OBVIOUS
  <2> QED BY <2>1, Position
<1>5. p <= q /\ q - p \in Nat /\ p + (q - p) = q
  <2>1. NTH_BLOCK(rs) <= NTH_BLOCK(rs + n)
    <3>1. rs + n \in Nat /\ rs <= rs + n
      OBVIOUS
    <3> QED BY <3>1, PositionOrder
  <2> QED BY <1>3, <1>4, <2>1
<1>6. CASE ~InRange(h, n)
  <2>1. k = h
    BY <1>6 DEF AfterRead
  <2> QED BY <2>1 DEF SameButRead
<1>7. CASE InRange(h, n) /\ q - p = 0
  <2>1. k = [h EXCEPT !.read_seek = rs + n]
    BY <1>2, <1>3, <1>4, <1>7, Zenon DEF AfterRead
  <2>2. rs + n \in Nat /\ rs + n <= size
    BY <1>2, <1>7 DEF InRange
  <2>3. k \in Handle /\ SameButRead(h, k) /\ k.read_seek = rs + n
          /\ k.read_sector = h.read_sector
    BY <1>1, <2>1, <2>2, ReadAdvanced, Zenon
  <2>4. p = q
    BY <1>7
  <2>5. k.read_sector = Sec(d, k.file, NTH_BLOCK(k.read_seek))
    BY <1>2, <1>3, <1>4, <2>3, <2>4 DEF At, SameButRead
  <2> QED BY <1>2, <2>2, <2>3, <2>5 DEF At, SameButRead, ReadInFile
<1>8. CASE InRange(h, n) /\ q - p # 0
  <2>1. PICK s, m : s = Follow(d, h.read_sector, q - p) /\ m = (p + (q - p)) * BLOCK
    OBVIOUS
  <2>2. k = MovedTo(h, m, s)
    <3>1. m = (NTH_BLOCK(h.read_seek) + (q - p)) * BLOCK
      BY <1>2, <1>3, <2>1
    <3>2. NTH_BLOCK(h.read_seek + n) - NTH_BLOCK(h.read_seek) = q - p
      BY <1>2, <1>3, <1>4
    <3> QED BY <1>8, <2>1, <3>1, <3>2, Zenon DEF AfterRead, MovedTo
  <2>3. m \in Nat /\ m = BLOCK * q /\ NTH_BLOCK(m) = q
    <3>1. BLOCK \in Nat \ {0}
      BY Constants
    <3>2. BLOCK * q \in Nat /\ q * BLOCK = BLOCK * q
      BY <3>1, Products
    <3>3. m = q * BLOCK
      BY <1>5, <2>1
    <3>4. m = BLOCK * q + 0 /\ 0 \in 0..(BLOCK - 1)
      BY <3>1, <3>2, <3>3
    <3>5. NTH_BLOCK(m) = q
      BY <3>4, PositionIs
    <3> QED BY <3>2, <3>3, <3>5
  <2>4. m <= size
    <3>1. rs + n <= size
      BY <1>2, <1>8 DEF InRange
    <3>2. PICK x \in Nat : x = BLOCK * q
      BY <2>3
    <3> QED BY <1>4, <2>3, <3>1, <3>2, Constants
  <2>5. s = Sec(d, h.file, q)
    <3>1. s = Follow(d, Follow(d, h.file.first_sector, p), q - p)
      BY <1>2, <1>3, <2>1 DEF At, Sec
    <3>2. Follow(d, Follow(d, h.file.first_sector, p), q - p)
            = Follow(d, h.file.first_sector, p + (q - p))
      BY <1>5, FollowSum
    <3> QED BY <1>5, <3>1, <3>2 DEF Sec
  <2>6. s \in Int
    BY <1>1, <2>5, HandleIs, SecInt
  <2>7. k \in Handle /\ SameButRead(h, k) /\ k.read_seek = m /\ k.read_sector = s
    <3>1. m \in Nat
      BY <2>3
    <3>2. ReadAt(h, k, m, s)
      BY <1>1, <2>2, <2>6, <3>1, ReadMoved
    <3> QED BY <3>2 DEF ReadAt
  <2>8. k.read_sector = Sec(d, k.file, NTH_BLOCK(k.read_seek))
    BY <2>3, <2>5, <2>7 DEF SameButRead
  <2> QED BY <1>2, <2>4, <2>7, <2>8 DEF At, SameButRead, ReadInFile
<1> QED BY <1>6, <1>7, <1>8
-----------------------------------------------------------------------------
(* What reads return, and the directory *)

LEMMA CellIs ==
  ASSUME NEW d \in Disks, NEW f, NEW j \in Nat
  PROVE  Cell(d, f, j) \in Cells
<1>1. read_disk(d, Sec(d, f, NTH_BLOCK(j))) \in Blocks
  BY ReadIsBlock
<1>2. IN_BLOCK_OFFSET(j) \in Offsets
  BY Position DEF Offsets
<1> QED BY <1>1, <1>2, BlockFields DEF Cell

ReadsCells(d, h, n) ==
  CellsRead(d, h, n) = [i \in 1..n |-> Cell(d, h.file, h.read_seek + i - 1)]

LEMMA CellsReadIs ==
  ASSUME NEW d \in Disks, NEW h, At(d, h), NEW n \in Nat
  PROVE  ReadsCells(d, h, n)
<1>1. PICK rs \in Nat : rs = h.read_seek
  BY HandleIs DEF At
<1>2. PICK off \in Nat : off = IN_BLOCK_OFFSET(rs)
  BY Position
<1>3. ASSUME NEW i \in 1..n
      PROVE  read_disk(d, Follow(d, h.read_sector, NTH_BLOCK(off + i - 1)))
               .data[IN_BLOCK_OFFSET(off + i - 1)] = Cell(d, h.file, rs + i - 1)
  <2>1. PICK j \in Nat : j = i - 1 /\ off + i - 1 = off + j /\ rs + i - 1 = rs + j
    <3>1. i - 1 \in Nat /\ off + i - 1 = off + (i - 1) /\ rs + i - 1 = rs + (i - 1)
      OBVIOUS
    <3> QED BY <3>1
  <2>2. /\ NTH_BLOCK(rs + j) = NTH_BLOCK(rs) + NTH_BLOCK(off + j)
        /\ IN_BLOCK_OFFSET(rs + j) = IN_BLOCK_OFFSET(off + j)
    BY <1>2, PositionSum
  <2>3. NTH_BLOCK(rs) \in Nat /\ NTH_BLOCK(off + j) \in Nat
    <3>1. off + j \in Nat
      OBVIOUS
    <3> QED BY <3>1, Position
  <2>4. h.read_sector = Follow(d, h.file.first_sector, NTH_BLOCK(rs))
    BY <1>1 DEF At, Sec
  <2>5. Follow(d, h.read_sector, NTH_BLOCK(off + j)) = Sec(d, h.file, NTH_BLOCK(rs + j))
    <3>1. Follow(d, Follow(d, h.file.first_sector, NTH_BLOCK(rs)), NTH_BLOCK(off + j))
            = Follow(d, h.file.first_sector, NTH_BLOCK(rs) + NTH_BLOCK(off + j))
      BY <2>3, FollowSum
    <3> QED BY <2>2, <2>4, <3>1 DEF Sec
  <2> QED BY <2>1, <2>2, <2>5 DEF Cell
<1>4. CellsRead(d, h, n) =
        [i \in 1..n |-> read_disk(d, Follow(d, h.read_sector, NTH_BLOCK(off + i - 1)))
                          .data[IN_BLOCK_OFFSET(off + i - 1)]]
  BY <1>1, <1>2, Zenon DEF CellsRead
<1> QED BY <1>1, <1>3, <1>4 DEF ReadsCells

LEMMA OpenedAt ==
  ASSUME NEW d \in Disks, NEW f \in Fcbs, NEW name \in Names \cup {RootPath, "usr"},
         NEW index \in Nat, NEW h, h = Opened(f, name, index)
  PROVE  /\ At(d, h) /\ h.file = f /\ h.path = name /\ h.index = index
         /\ h.read_seek = 0 /\ h.write_seek = 0
<1>1. /\ h.file = f /\ h.path = name /\ h.index = index /\ h.read_seek = 0 /\ h.write_seek = 0
      /\ h.read_sector = f.first_sector /\ h.write_sector = f.first_sector
  BY DEF Opened
<1>2. f.first_sector \in Int
  BY DEF Fcbs
<1>3. h \in Handle
  BY <1>2 DEF Opened, Handle
<1>4. NTH_BLOCK(0) = 0
  <2>1. 0 \in Nat /\ 0 \in 0..(BLOCK - 1) /\ 0 = BLOCK * 0 + 0
    BY Constants
  <2> QED BY <2>1, PositionIs
<1>5. Sec(d, f, NTH_BLOCK(0)) = f.first_sector
  BY <1>4, SecZero
<1> QED BY <1>1, <1>3, <1>5 DEF At

LEMMA EntriesAre ==
  ASSUME NEW d, NEW u, Sound(d, u)
  PROVE  /\ RootEntries(d) = [i \in 1..Size(d) |-> FcbAt(d, i)]
         /\ \A name : Positions(d, name) = {i \in 1..Size(d) : FcbAt(d, i).file_name = name}
<1>1. d \in Disks /\ RootFcb(d) \in Fcbs /\ Size(d) \in Nat
  BY SoundFacts DEF Well
<1>2. PICK h : h = RootOpened(d)
  OBVIOUS
<1>3. RootPath \in Names \cup {RootPath, "usr"} /\ 0 \in Nat
  OBVIOUS
<1>4. At(d, h) /\ h.file = RootFcb(d) /\ h.read_seek = 0
  BY <1>1, <1>2, <1>3, OpenedAt DEF RootOpened
<1>5. RootEntries(d) = [i \in 1..Size(d) |-> Cell(d, RootFcb(d), 0 + i - 1)]
  <2>1. RootEntries(d) = CellsRead(d, h, Size(d))
    BY <1>2 DEF RootEntries, Size
  <2>2. CellsRead(d, h, Size(d)) = [i \in 1..Size(d) |-> Cell(d, h.file, h.read_seek + i - 1)]
    BY <1>1, <1>4, CellsReadIs DEF ReadsCells
  <2> QED BY <1>4, <2>1, <2>2, Zenon
<1>6. \A i \in 1..Size(d) : Cell(d, RootFcb(d), 0 + i - 1) = FcbAt(d, i)
  <2> SUFFICES ASSUME NEW i \in 1..Size(d)
               PROVE  Cell(d, RootFcb(d), 0 + i - 1) = FcbAt(d, i)
    OBVIOUS
  <2>1. i \in Nat \ {0} /\ 0 + i - 1 = i - 1
    BY <1>1
  <2> QED BY <2>1, EntryIs
<1>7. RootEntries(d) = [i \in 1..Size(d) |-> FcbAt(d, i)]
  BY <1>5, <1>6
<1> QED BY <1>7 DEF Positions, Size

LEMMA Searched ==
  ASSUME NEW d, NEW u, Sound(d, u), NEW name, Positions(d, name) # {},
         NEW i, i = dir_search_file(d, name)
  PROVE  i \in 1..Size(d) /\ FcbAt(d, i).file_name = name /\ RootEntries(d)[i] = FcbAt(d, i)
<1>1. Size(d) \in Nat
  BY SoundFacts
<1>2. Positions(d, name) = {j \in 1..Size(d) : FcbAt(d, j).file_name = name}
  BY EntriesAre
<1>3. Positions(d, name) \in SUBSET Nat
  BY <1>1, <1>2
<1>4. i \in Positions(d, name)
  BY <1>3, MinIs DEF dir_search_file
<1>5. i \in 1..Size(d) /\ FcbAt(d, i).file_name = name
  BY <1>2, <1>4
<1> QED BY <1>5, EntriesAre

LEMMA FileIs ==
  ASSUME NEW d, NEW u, Sound(d, u), NEW i \in 0..Size(d)
  PROVE  /\ FcbAt(d, i) \in Fcbs /\ FcbAt(d, i).file_size \in 0..MaxSize
         /\ FcbAt(d, i).sector_count \in Nat \ {0} /\ FcbAt(d, i).file_size \in Nat
BY SoundFacts, Constants DEF Well

(* load_file_cached *)
LEMMA LoadedIs ==
  ASSUME NEW d, NEW u, Sound(d, u), NEW name \in Names \cup {RootPath, "usr"},
         name = RootPath \/ Positions(d, name) # {},
         NEW h, h = load_file_cached(d, name)
  PROVE  Placed(d, h) /\ \E i \in 0..Size(d) : OpenOn(h, FcbAt(d, i), i) /\ h.file = FcbAt(d, i)
<1>1. ASSUME NEW i \in 0..Size(d), NEW index \in Nat, h = Opened(FcbAt(d, i), name, index),
             (name = RootPath) <=> (i = 0), i # 0 => FcbAt(d, i).file_name = name
      PROVE  Placed(d, h) /\ OpenOn(h, FcbAt(d, i), i) /\ h.file = FcbAt(d, i)
  <2>1. FcbAt(d, i) \in Fcbs /\ FcbAt(d, i).file_size \in 0..MaxSize /\ d \in Disks
    BY FileIs, SoundFacts
  <2>2. /\ At(d, h) /\ h.file = FcbAt(d, i) /\ h.path = name /\ h.index = index
        /\ h.read_seek = 0 /\ h.write_seek = 0
    BY <1>1, <2>1, OpenedAt
  <2>3. Placed(d, h)
    BY <2>1, <2>2, Constants DEF At, Placed
  <2>4. OpenOn(h, FcbAt(d, i), i)
    BY <1>1, <2>2 DEF OpenOn, Older
  <2> QED BY <2>2, <2>3, <2>4
<1>2. CASE name = RootPath
  <2>1. h = Opened(FcbAt(d, 0), name, 0) /\ 0 \in 0..Size(d) /\ 0 \in Nat
    BY <1>2, SoundFacts DEF load_file_cached, RootOpened
  <2> QED BY <1>1, <1>2, <2>1
<1>3. CASE name # RootPath
  <2>1. PICK i : i = dir_search_file(d, name)
    OBVIOUS
  <2>2. i \in 1..Size(d) /\ FcbAt(d, i).file_name = name /\ RootEntries(d)[i] = FcbAt(d, i)
    BY <1>3, <2>1, Searched
  <2>3. h = Opened(FcbAt(d, i), name, i - 1)
    BY <1>3, <2>1, <2>2 DEF load_file_cached
  <2>4. i \in 0..Size(d) /\ i # 0 /\ i - 1 \in Nat
    BY <2>2, SoundFacts
  <2> QED BY <1>1, <1>3, <2>2, <2>3, <2>4
<1> QED BY <1>2, <1>3
-----------------------------------------------------------------------------
(* Insertion *)

Ins(t, ws, buf) == SubSeq(t, 1, ws) \o buf \o SubSeq(t, ws + 1, Len(t))

InsAt(t, ws, buf, i) ==
  IF i <= ws THEN t[i] ELSE IF i <= ws + Len(buf) THEN buf[i - ws] ELSE t[i - Len(buf)]

Joined(c, a, m, b, n) ==
  /\ Len(c) = m + n
  /\ \A i \in 1..(m + n) : c[i] = IF i <= m THEN a[i] ELSE b[i - m]

LEMMA Concat ==
  ASSUME NEW S, NEW a \in Seq(S), NEW b \in Seq(S), NEW m \in Nat, NEW n \in Nat,
         Len(a) = m, Len(b) = n
  PROVE  a \o b \in Seq(S) /\ Joined(a \o b, a, m, b, n)
BY DEF Joined

LEMMA InsIs ==
  ASSUME NEW S, NEW t \in Seq(S), NEW ws \in 0..Len(t), NEW buf \in Seq(S)
  PROVE  /\ Ins(t, ws, buf) \in Seq(S)
         /\ Len(Ins(t, ws, buf)) = Len(t) + Len(buf)
         /\ \A i \in 1..(Len(t) + Len(buf)) : Ins(t, ws, buf)[i] = InsAt(t, ws, buf, i)
<1>1. PICK n \in Nat, m \in Nat : n = Len(t) /\ m = Len(buf)
  OBVIOUS
<1>2. PICK a : a = SubSeq(t, 1, ws)
  OBVIOUS
<1>3. PICK b : b = SubSeq(t, ws + 1, n)
  OBVIOUS
<1>4. a \in Seq(S) /\ Len(a) = ws /\ \A i \in 1..ws : a[i] = t[i]
  BY <1>1, <1>2
<1>5. b \in Seq(S) /\ Len(b) = n - ws /\ \A i \in 1..(n - ws) : b[i] = t[ws + i]
  BY <1>1, <1>3
<1>6. PICK c : c = a \o buf
  OBVIOUS
<1>7. /\ c \in Seq(S) /\ Len(c) = ws + m
      /\ \A i \in 1..(ws + m) : c[i] = IF i <= ws THEN a[i] ELSE buf[i - ws]
  BY <1>1, <1>4, <1>6
<1>8. PICK e : e = c \o b
  OBVIOUS
<1>9. /\ e \in Seq(S) /\ Len(e) = n + m
      /\ \A i \in 1..(n + m) : e[i] = IF i <= ws + m THEN c[i] ELSE b[i - (ws + m)]
  <2>1. ws + m \in Nat /\ n - ws \in Nat /\ (ws + m) + (n - ws) = n + m
    BY <1>1
  <2>2. e \in Seq(S) /\ Joined(e, c, ws + m, b, n - ws)
    BY <1>5, <1>7, <1>8, <2>1, Concat
  <2> QED BY <2>1, <2>2 DEF Joined
<1>10. Ins(t, ws, buf) = e
  BY <1>1, <1>2, <1>3, <1>6, <1>8 DEF Ins
<1>11. \A i \in 1..(n + m) : e[i] = InsAt(t, ws, buf, i)
  <2> SUFFICES ASSUME NEW i \in 1..(n + m) PROVE e[i] = InsAt(t, ws, buf, i)
    OBVIOUS
  <2>1. CASE i <= ws
    <3>1. e[i] = t[i]
      BY <1>1, <1>4, <1>7, <1>9, <2>1
    <3> QED BY <2>1, <3>1 DEF InsAt
  <2>2. CASE ~(i <= ws) /\ i <= ws + m
    <3>1. e[i] = buf[i - ws]
      BY <1>1, <1>7, <1>9, <2>2
    <3> QED BY <1>1, <2>2, <3>1 DEF InsAt
  <2>3. CASE ~(i <= ws + m)
    <3>1. e[i] = b[i - (ws + m)] /\ i - (ws + m) \in 1..(n - ws)
      BY <1>1, <1>9, <2>3
    <3>2. ws + (i - (ws + m)) = i - m /\ ~(i <= ws)
      BY <1>1, <2>3
    <3>3. e[i] = t[i - m]
      BY <1>5, <3>1, <3>2
    <3> QED BY <1>1, <2>3, <3>2, <3>3 DEF InsAt
  <2> QED BY <2>1, <2>2, <2>3
<1> QED BY <1>1, <1>9, <1>10, <1>11

(* The cells of a file from the write position on. *)
Rest(d, f, ws) == [i \in 1..(f.file_size - ws) |-> Cell(d, f, ws + i - 1)]

LEMMA RestIs ==
  ASSUME NEW d \in Disks, NEW f, f.file_size \in Nat, NEW ws \in 0..f.file_size
  PROVE  /\ Rest(d, f, ws) \in Seq(Cells) /\ Len(Rest(d, f, ws)) = f.file_size - ws
         /\ \A i \in 1..(f.file_size - ws) : Rest(d, f, ws)[i] = Cell(d, f, ws + i - 1)
<1>1. PICK n \in Nat : n = f.file_size - ws
  OBVIOUS
<1>2. \A i \in 1..n : Cell(d, f, ws + i - 1) \in Cells
  BY CellIs
<1>3. [i \in 1..n |-> Cell(d, f, ws + i - 1)] \in Seq(Cells)
        /\ Len([i \in 1..n |-> Cell(d, f, ws + i - 1)]) = n
  BY <1>2
<1> QED BY <1>1, <1>3 DEF Rest

Followed(b, buf, d, f, ws) ==
  /\ b \in Seq(Cells) /\ Len(b) = Len(buf) + (f.file_size - ws)
  /\ \A i \in 1..Len(b) :
       b[i] = IF i <= Len(buf) THEN buf[i] ELSE Cell(d, f, ws + (i - Len(buf)) - 1)

LEMMA BufAndRest ==
  ASSUME NEW d \in Disks, NEW f, f.file_size \in Nat, NEW ws \in 0..f.file_size,
         NEW buf \in Seq(Cells), NEW b, b = buf \o Rest(d, f, ws)
  PROVE  Followed(b, buf, d, f, ws)
<1>1. PICK r : r = Rest(d, f, ws)
  OBVIOUS
<1>2. PICK n \in Nat, m \in Nat : n = f.file_size - ws /\ m = Len(buf)
  OBVIOUS
<1>3. r \in Seq(Cells) /\ Len(r) = n /\ \A i \in 1..n : r[i] = Cell(d, f, ws + i - 1)
  BY <1>1, <1>2, RestIs
<1>4. b \in Seq(Cells) /\ Len(b) = m + n
        /\ \A i \in 1..(m + n) : b[i] = IF i <= m THEN buf[i] ELSE r[i - m]
  <2>1. b \in Seq(Cells) /\ Joined(b, buf, m, r, n)
    BY <1>1, <1>2, <1>3, Concat
  <2> QED BY <2>1 DEF Joined
<1>5. \A i \in 1..(m + n) : ~(i <= m) => r[i - m] = Cell(d, f, ws + (i - m) - 1)
  BY <1>3
<1> QED BY <1>2, <1>4, <1>5 DEF Followed

HoldsFirst(e, f, s, n) ==
  s \in Seq(Cells) /\ Len(s) = n /\ \A j \in 1..n : Cell(e, f, j - 1) = s[j]

LEMMA InsertHolds ==
  ASSUME NEW d \in Disks, NEW f, f.sector_count \in Nat, f.file_size \in Nat,
         NEW t \in Seq(Cells), Holds(d, f, t), NEW ws \in 0..f.file_size,
         NEW buf \in Seq(Cells), HasCells(f, f.file_size + Len(buf)),
         NEW e, Rewritten(d, e, f, ws, buf \o Rest(d, f, ws)), NEW n \in Nat,
         n = f.file_size + Len(buf)
  PROVE  HoldsFirst(e, f, Ins(t, ws, buf), n)
<1>1. PICK size \in Nat, m \in Nat : size = f.file_size /\ m = Len(buf) /\ n = size + m
  OBVIOUS
<1>2. Len(t) = size /\ \A j \in 1..size : Cell(d, f, j - 1) = t[j]
  BY <1>1 DEF Holds
<1>3. /\ Ins(t, ws, buf) \in Seq(Cells) /\ Len(Ins(t, ws, buf)) = n
      /\ \A i \in 1..n : Ins(t, ws, buf)[i] = InsAt(t, ws, buf, i)
  <2>1. ws \in 0..Len(t) /\ Len(t) + Len(buf) = n
    BY <1>1, <1>2
  <2>2. /\ Ins(t, ws, buf) \in Seq(Cells)
        /\ Len(Ins(t, ws, buf)) = Len(t) + Len(buf)
        /\ \A i \in 1..(Len(t) + Len(buf)) : Ins(t, ws, buf)[i] = InsAt(t, ws, buf, i)
    BY <2>1, InsIs
  <2> QED BY <2>1, <2>2
<1>4. PICK b : b = buf \o Rest(d, f, ws)
  OBVIOUS
<1>5. /\ Len(b) = m + (size - ws)
      /\ \A i \in 1..Len(b) :
           b[i] = IF i <= m THEN buf[i] ELSE Cell(d, f, ws + (i - m) - 1)
  <2>1. /\ Len(b) = Len(buf) + (f.file_size - ws)
        /\ \A i \in 1..Len(b) :
             b[i] = IF i <= Len(buf) THEN buf[i] ELSE Cell(d, f, ws + (i - Len(buf)) - 1)
    <3>1. Followed(b, buf, d, f, ws)
      BY <1>4, BufAndRest
    <3> QED BY <3>1 DEF Followed
  <2> QED BY <1>1, <2>1
<1>6. ASSUME NEW j \in 1..n PROVE Cell(e, f, j - 1) = InsAt(t, ws, buf, j)
  <2>1. j - 1 \in Nat /\ j - 1 < n
    BY <1>1
  <2>2. NTH_BLOCK(j - 1) < f.sector_count
    <3>1. HasCells(f, n)
      OBVIOUS
    <3> QED BY <2>1, <3>1, EntryInChain
  <2>3. Cell(e, f, j - 1) = IF ws <= j - 1 /\ j - 1 < ws + Len(b)
                              THEN b[(j - 1) - ws + 1] ELSE Cell(d, f, j - 1)
    BY <1>4, <2>1, <2>2 DEF Rewritten
  <2>4. CASE j <= ws
    <3>1. ~(ws <= j - 1) /\ j \in 1..size
      BY <1>1, <2>4
    <3> QED BY <1>2, <2>3, <2>4, <3>1 DEF InsAt
  <2>5. CASE ~(j <= ws)
    <3>1. ws <= j - 1 /\ j - 1 < ws + Len(b) /\ (j - 1) - ws + 1 = j - ws
            /\ j - ws \in 1..Len(b)
      <4>1. Len(b) = m + (size - ws) /\ ws \in Nat /\ ws <= size
        BY <1>1, <1>5
      <4>2. j \in Nat /\ ws < j /\ j <= size + m
        BY <1>1, <2>5, <4>1
      <4> QED BY <4>1, <4>2
    <3>2. Cell(e, f, j - 1) =
            IF j - ws <= m THEN buf[j - ws] ELSE Cell(d, f, ws + ((j - ws) - m) - 1)
      BY <1>5, <2>3, <3>1
    <3>3. j - ws <= m <=> j <= ws + m
      BY <1>1
    <3>4. ~(j <= ws + m) => ws + ((j - ws) - m) - 1 = (j - m) - 1 /\ j - m \in 1..size
      BY <1>1, <2>5
    <3> QED BY <1>1, <1>2, <2>5, <3>2, <3>3, <3>4 DEF InsAt
  <2> QED BY <2>4, <2>5
<1> QED BY <1>3, <1>6 DEF HoldsFirst
-----------------------------------------------------------------------------
(* sys_write, when the file has grown *)

Fs(d, u, h) == [disk |-> d, used |-> u, h |-> h]

LEMMA FsIs ==
  ASSUME NEW d, NEW u, NEW h, NEW fs, fs = Fs(d, u, h)
  PROVE  fs.disk = d /\ fs.used = u /\ fs.h = h
BY DEF Fs

PutD(fs, e) == [fs EXCEPT !.disk = e]
PutH(fs, k) == [fs EXCEPT !.h = k]
PutDH(fs, e, k) == [fs EXCEPT !.disk = e, !.h = k]

LEMMA FsPut ==
  ASSUME NEW d, NEW u, NEW h, NEW e, NEW k, NEW fs, fs = Fs(d, u, h)
  PROVE  PutD(fs, e) = Fs(e, u, h) /\ PutH(fs, k) = Fs(d, u, k) /\ PutDH(fs, e, k) = Fs(e, u, k)
<1>1. [[disk |-> d, used |-> u, h |-> h] EXCEPT !.disk = e] = [disk |-> e, used |-> u, h |-> h]
  OBVIOUS
<1>2. [[disk |-> d, used |-> u, h |-> h] EXCEPT !.h = k] = [disk |-> d, used |-> u, h |-> k]
  OBVIOUS
<1>3. [[disk |-> e, used |-> u, h |-> h] EXCEPT !.h = k] = [disk |-> e, used |-> u, h |-> k]
  OBVIOUS
<1>4. PutD(fs, e) = Fs(e, u, h)
  BY <1>1, Zenon DEF Fs, PutD
<1>5. PutH(fs, k) = Fs(d, u, k)
  BY <1>2, Zenon DEF Fs, PutH
<1>6. PutDH(fs, e, k) = PutH(PutD(fs, e), k)
  BY Zenon DEF PutD, PutH, PutDH
<1>7. PutH(Fs(e, u, h), k) = Fs(e, u, k)
  BY <1>3, Zenon DEF Fs, PutH
<1> QED BY <1>4, <1>5, <1>6, <1>7, Zenon

(* What the insertion needs: a file of d, and positions in it. *)
Insertable(d, h, buf) ==
  /\ At(d, h) /\ Chained(d, h.file)
  /\ h.file.file_size \in Nat /\ h.file.sector_count \in Nat
  /\ ReadInFile(h) /\ h.write_seek \in 0..h.file.file_size
  /\ buf \in Seq(Cells) /\ Len(buf) > 0
  /\ HasCells(h.file, h.file.file_size + Len(buf))
  /\ InTwoSectors(h.write_seek, h.file.file_size - h.write_seek + Len(buf))

LEMMA RemainsIs ==
  ASSUME NEW d \in Disks, NEW h, At(d, h), h.file.file_size \in Nat, ReadInFile(h),
         NEW ws \in 0..h.file.file_size, ws = h.write_seek, NEW k, k = sys_rseek(d, h, ws),
         NEW rest, rest = h.file.file_size - k.read_seek
  PROVE  /\ rest \in Nat
         /\ SubSeq(CellsRead(d, k, rest), 1, h.file.file_size - ws) = Rest(d, h.file, ws)
         /\ At(d, k) /\ SameButRead(h, k) /\ ReadInFile(k)
<1>0. PICK f : f = h.file
  OBVIOUS
<1>1. PICK size \in Nat : size = h.file.file_size /\ f = h.file
  BY <1>0
<1>2. /\ At(d, k) /\ SameButRead(h, k)
      /\ ws < h.file.file_size => k.read_seek = ws
      /\ ~(ws < h.file.file_size) => k = h
  BY RseekMoves
<1>3. k.file = f /\ k.read_seek \in Nat
  BY <1>1, <1>2, HandleIs DEF SameButRead, At
<1>4. ReadInFile(k)
  BY <1>1, <1>2, <1>3 DEF ReadInFile
<1>5. rest \in Nat
  BY <1>1, <1>3, <1>4 DEF ReadInFile
<1>6. CellsRead(d, k, rest) = [i \in 1..rest |-> Cell(d, f, k.read_seek + i - 1)]
  <2>1. CellsRead(d, k, rest) = [i \in 1..rest |-> Cell(d, k.file, k.read_seek + i - 1)]
    <3>1. ReadsCells(d, k, rest)
      BY <1>2, <1>5, CellsReadIs
    <3> QED BY <3>1 DEF ReadsCells
  <2> QED BY <1>3, <2>1, Zenon
<1>7. PICK c : c = CellsRead(d, k, rest)
  OBVIOUS
<1>8. c \in Seq(Cells) /\ Len(c) = rest
        /\ \A i \in 1..rest : c[i] = Cell(d, f, k.read_seek + i - 1)
  <2>1. \A i \in 1..rest : Cell(d, f, k.read_seek + i - 1) \in Cells
    BY <1>3, <1>5, CellIs
  <2> QED BY <1>5, <1>6, <1>7, <2>1
<1>9. SubSeq(c, 1, size - ws) = Rest(d, f, ws)
  <2>1. CASE ws < size
    <3>1. k.read_seek = ws /\ rest = size - ws
      BY <1>1, <1>2, <2>1
    <3>2. SubSeq(c, 1, rest) = c
      BY <1>5, <1>8
    <3>3. c = [i \in 1..(size - ws) |-> Cell(d, f, ws + i - 1)]
      BY <1>6, <1>7, <3>1
    <3> QED BY <1>1, <3>1, <3>2, <3>3 DEF Rest
  <2>2. CASE ~(ws < size)
    <3>1. size - ws = 0
      BY <1>1, <2>2
    <3>2. SubSeq(c, 1, 0) = << >>
      BY <1>8
    <3>3. [i \in 1..0 |-> Cell(d, f, ws + i - 1)] = << >>
      OBVIOUS
    <3> QED BY <1>1, <3>1, <3>2, <3>3 DEF Rest
  <2> QED BY <2>1, <2>2
<1> QED BY <1>1, <1>2, <1>4, <1>5, <1>7, <1>9

LEMMA InsertedIs ==
  ASSUME NEW d \in Disks, NEW u, NEW h, NEW buf, Insertable(d, h, buf), NEW fs, fs = Fs(d, u, h),
         NEW synced, synced = sys_rseek(d, h, h.write_seek)
  PROVE  \E e, k :
           /\ Inserted(fs, synced, buf) = Fs(e, u, k)
           /\ Rewritten(d, e, h.file, h.write_seek, buf \o Rest(d, h.file, h.write_seek))
           /\ At(d, k) /\ SameButRead(h, k) /\ ReadInFile(k)
<1>1. /\ At(d, h) /\ Chained(d, h.file) /\ h.file.file_size \in Nat /\ ReadInFile(h)
      /\ h.write_seek \in 0..h.file.file_size /\ buf \in Seq(Cells)
  BY DEF Insertable
<1>2. PICK ws \in 0..h.file.file_size : ws = h.write_seek
  BY <1>1
<1>3. PICK rest : rest = h.file.file_size - synced.read_seek
  OBVIOUS
<1>4. /\ rest \in Nat
      /\ SubSeq(CellsRead(d, synced, rest), 1, h.file.file_size - ws) = Rest(d, h.file, ws)
      /\ At(d, synced) /\ SameButRead(h, synced) /\ ReadInFile(synced)
  BY <1>1, <1>2, <1>3, RemainsIs
<1>5. PICK k : k = AfterRead(d, synced, rest)
  OBVIOUS
<1>6. At(d, k) /\ SameButRead(synced, k) /\ ReadInFile(k)
  BY <1>4, <1>5, AfterReadMoves
<1>7. SameButRead(h, k)
  BY <1>4, <1>6 DEF SameButRead
<1>8. PICK b : b = buf \o Rest(d, h.file, ws)
  OBVIOUS
<1>9. PICK e : e = covering_write(d, k, b)
  OBVIOUS
<1>10. Inserted(fs, synced, buf) = PutDH(fs, e, k)
  <2>1. fs.disk = d /\ fs.h = h
    BY FsIs
  <2>2. b = buf \o SubSeq(CellsRead(d, synced, rest), 1, h.file.file_size - ws)
    BY <1>4, <1>8
  <2> QED BY <1>2, <1>3, <1>5, <1>9, <2>1, <2>2, Zenon DEF Inserted, PutDH
<1>11. Inserted(fs, synced, buf) = Fs(e, u, k)
  BY <1>10, FsPut
<1>12. Rewritten(d, e, h.file, ws, b)
  <2>1. Followed(b, buf, d, h.file, ws)
    BY <1>1, <1>8, BufAndRest
  <2>2. b \in Seq(Cells) /\ Len(b) = Len(buf) + (h.file.file_size - ws)
    BY <2>1 DEF Followed
  <2>3. Len(b) > 0 /\ HasCells(h.file, ws + Len(b)) /\ InTwoSectors(ws, Len(b))
    <3>1. PICK m \in Nat : m = Len(buf) /\ m > 0
      BY <1>1 DEF Insertable
    <3>2. PICK size \in Nat : size = h.file.file_size
      BY <1>1
    <3>3. Len(b) > 0 /\ ws + Len(b) = size + m /\ Len(b) = size - ws + m
      BY <2>2, <3>1, <3>2
    <3> QED BY <1>2, <3>1, <3>2, <3>3 DEF Insertable
  <2>4. k.write_seek = ws /\ k.write_sector = Sec(d, h.file, NTH_BLOCK(ws))
    BY <1>1, <1>2, <1>7 DEF SameButRead, At
  <2>5. ws \in Nat
    BY <1>1
  <2> QED BY <1>1, <1>9, <2>2, <2>3, <2>4, <2>5, WriteInFile
<1> QED BY <1>2, <1>6, <1>7, <1>8, <1>11, <1>12

Sized(f, n) ==
  [file_name |-> f.file_name, first_sector |-> f.first_sector, last_sector |-> f.last_sector,
   sector_count |-> f.sector_count, file_size |-> n]

LEMMA SizedIs ==
  ASSUME NEW f \in Fcbs, NEW n \in Int, NEW g, g = Sized(f, n)
  PROVE  /\ g \in Fcbs /\ g.file_name = f.file_name /\ g.first_sector = f.first_sector
         /\ g.last_sector = f.last_sector /\ g.sector_count = f.sector_count
         /\ g.file_size = n
BY DEF Sized, Fcbs

LEMMA SizeAdded ==
  ASSUME NEW h \in Handle, NEW n \in Int, NEW k,
         k = [h EXCEPT !.file.file_size = @ + n]
  PROVE  k = PutFile(h, Sized(h.file, h.file.file_size + n))
BY DEF Handle, Fcbs, PutFile, Sized

LEMMA AtSame ==
  ASSUME NEW d, NEW e, NEW h, At(d, h), SameLinks(d, e)
  PROVE  At(e, h)
<1>1. h \in Handle /\ NTH_BLOCK(h.read_seek) \in Nat /\ NTH_BLOCK(h.write_seek) \in Nat
  BY HandleIs, Position DEF At
<1> QED BY <1>1, SecLinks DEF At

LEMMA AtPut ==
  ASSUME NEW d, NEW h, At(d, h), NEW g \in Fcbs, g.first_sector = h.file.first_sector,
         NEW k, k = PutFile(h, g)
  PROVE  At(d, k)
<1>1. h \in Handle
  BY DEF At
<1>2. /\ k \in Handle /\ k.file = g /\ k.read_seek = h.read_seek
      /\ k.write_seek = h.write_seek /\ k.read_sector = h.read_sector
      /\ k.write_sector = h.write_sector
  BY <1>1, PutFileIs
<1>3. \A j : Sec(d, g, j) = Sec(d, h.file, j)
  BY SameFirst
<1> QED BY <1>2, <1>3 DEF At

LEMMA RepositionedIs ==
  ASSUME NEW d \in Disks, NEW u, NEW h, At(d, h), h.file.file_size \in Nat, ReadInFile(h),
         NEW fs, fs = Fs(d, u, h), NEW old \in Handle, NEW n \in Nat
  PROVE  \E k : /\ Repositioned(fs, old, n) = Fs(d, u, k)
                /\ At(d, k) /\ k.file = Sized(h.file, h.file.file_size + n)
                /\ k.path = h.path /\ k.index = h.index
                /\ k.read_seek <= h.file.file_size /\ k.write_seek = old.write_seek + n
<1>1. old.write_seek + n \in Nat /\ old.read_seek \in Nat
  BY HandleIs
<1>2. PICK w : w = sys_wseek(d, h, old.write_seek + n)
  OBVIOUS
<1>3. At(d, w) /\ SameButWrite(h, w) /\ w.write_seek = old.write_seek + n
  <2>1. \A m \in Nat : w = sys_wseek(d, h, m) =>
          At(d, w) /\ SameButWrite(h, w) /\ w.write_seek = m
    BY WseekMoves
  <2> QED BY <1>1, <1>2, <2>1
<1>4. PICK r : r = sys_rseek(d, w, old.read_seek)
  OBVIOUS
<1>5. /\ At(d, r) /\ SameButRead(w, r)
      /\ old.read_seek < w.file.file_size => r.read_seek = old.read_seek
      /\ ~(old.read_seek < w.file.file_size) => r = w
  BY <1>1, <1>3, <1>4, RseekMoves
<1>6. /\ r.file = h.file /\ r.path = h.path /\ r.index = h.index
      /\ r.write_seek = old.write_seek + n
  BY <1>3, <1>5 DEF SameButRead, SameButWrite
<1>7. r.read_seek <= h.file.file_size
  <2>1. w.read_seek = h.read_seek /\ w.file = h.file /\ h.read_seek <= h.file.file_size
    BY <1>3 DEF SameButWrite, ReadInFile
  <2> QED BY <1>1, <1>5, <2>1
<1>8. PICK k : k = [r EXCEPT !.file.file_size = @ + n]
  OBVIOUS
<1>9. PICK g : g = Sized(h.file, h.file.file_size + n)
  OBVIOUS
<1>10. r \in Handle /\ h.file \in Fcbs
  BY <1>5, HandleIs DEF At
<1>11. k = PutFile(r, g)
  <2>1. k = PutFile(r, Sized(r.file, r.file.file_size + n))
    BY <1>8, <1>10, SizeAdded
  <2> QED BY <1>6, <1>9, <2>1
<1>12. g \in Fcbs /\ g.first_sector = h.file.first_sector
  BY <1>9, <1>10, SizedIs
<1>13. At(d, k)
  BY <1>5, <1>6, <1>11, <1>12, AtPut
<1>14. /\ k.file = g /\ k.path = h.path /\ k.index = h.index
       /\ k.read_seek = r.read_seek /\ k.write_seek = r.write_seek
  BY <1>6, <1>10, <1>11, <1>12, PutFileIs
<1>15. Repositioned(fs, old, n) = PutH(fs, k)
  <2>1. fs.disk = d /\ fs.h = h
    BY FsIs
  <2> QED BY <1>2, <1>4, <1>8, <2>1, Zenon DEF Repositioned, PutH
<1>16. Repositioned(fs, old, n) = Fs(d, u, k)
  BY <1>15, FsPut
<1> QED BY <1>6, <1>7, <1>9, <1>13, <1>14, <1>16
-----------------------------------------------------------------------------
(* What sys_write leaves of a file and of the caller's handle *)

Wrote(d, h, e, k, buf) ==
  /\ Rewritten(d, e, h.file, h.write_seek, buf \o Rest(d, h.file, h.write_seek))
  /\ At(e, k) /\ k.file = Sized(h.file, h.file.file_size + Len(buf))
  /\ k.path = h.path /\ k.index = h.index
  /\ k.read_seek <= h.file.file_size /\ k.write_seek = h.write_seek + Len(buf)

LEMMA WrittenIs ==
  ASSUME NEW d \in Disks, NEW u, NEW h, NEW buf, Insertable(d, h, buf), NEW fs, fs = Fs(d, u, h)
  PROVE  \E e, k : /\ InsertedWhenGrown(fs, buf) = Fs(store_file_cached(e, k), u, k)
                   /\ Wrote(d, h, e, k, buf)
<1>1. fs.disk = d /\ fs.h = h
  BY FsIs
<1>2. PICK synced : synced = sys_rseek(d, h, h.write_seek)
  OBVIOUS
<1>3. PICK e, r : /\ Inserted(fs, synced, buf) = Fs(e, u, r)
                  /\ Rewritten(d, e, h.file, h.write_seek, buf \o Rest(d, h.file, h.write_seek))
                  /\ At(d, r) /\ SameButRead(h, r) /\ ReadInFile(r)
  BY <1>2, InsertedIs
<1>4. e \in Disks /\ At(e, r)
  BY <1>3, AtSame DEF Rewritten
<1>5. h \in Handle /\ Len(buf) \in Nat /\ r.file = h.file /\ h.file.file_size \in Nat
  BY <1>3 DEF Insertable, At, SameButRead
<1>6. PICK fr : fr = Fs(e, u, r)
  OBVIOUS
<1>7. PICK k : /\ Repositioned(fr, h, Len(buf)) = Fs(e, u, k)
               /\ At(e, k) /\ k.file = Sized(r.file, r.file.file_size + Len(buf))
               /\ k.path = r.path /\ k.index = r.index
               /\ k.read_seek <= r.file.file_size /\ k.write_seek = h.write_seek + Len(buf)
  BY <1>3, <1>4, <1>5, <1>6, RepositionedIs
<1>8. Wrote(d, h, e, k, buf)
  BY <1>3, <1>5, <1>7 DEF Wrote, SameButRead
<1>9. PICK fk : fk = Fs(e, u, k)
  OBVIOUS
<1>10. InsertedWhenGrown(fs, buf) = Saved(fk)
  BY <1>1, <1>2, <1>3, <1>6, <1>7, <1>9, Zenon DEF InsertedWhenGrown
<1>11. Saved(fk) = PutD(fk, store_file_cached(e, k))
  <2>1. fk.disk = e /\ fk.h = k
    BY <1>9, FsIs
  <2> QED BY <2>1, Zenon DEF Saved, PutD
<1>12. Saved(fk) = Fs(store_file_cached(e, k), u, k)
  BY <1>9, <1>11, FsPut
<1> QED BY <1>8, <1>10, <1>12

(* Only file_expand allocates. *)
LEMMA UsedKept ==
  ASSUME NEW d, NEW u, NEW h, NEW buf, NEW fs, fs = Fs(d, u, h)
  PROVE  InsertedWhenGrown(fs, buf).used = u
<1>1. PICK synced : synced = sys_rseek(fs.disk, fs.h, fs.h.write_seek)
  OBVIOUS
<1>2. PICK size : size = fs.h.file.file_size
  OBVIOUS
<1>3. PICK r : r = AfterRead(fs.disk, synced, size - synced.read_seek)
  OBVIOUS
<1>4. PICK e : e = covering_write(fs.disk, r, buf \o
                     SubSeq(CellsRead(fs.disk, synced, size - synced.read_seek), 1,
                            size - fs.h.write_seek))
  OBVIOUS
<1>5. Inserted(fs, synced, buf) = PutDH(fs, e, r)
  BY <1>2, <1>3, <1>4, Zenon DEF Inserted, PutDH
<1>6. PICK fr : fr = Inserted(fs, synced, buf)
  OBVIOUS
<1>7. fr = Fs(e, u, r)
  BY <1>5, <1>6, FsPut
<1>8. PICK k : k = [sys_rseek(fr.disk, sys_wseek(fr.disk, fr.h, fs.h.write_seek + Len(buf)),
                              fs.h.read_seek) EXCEPT !.file.file_size = @ + Len(buf)]
  OBVIOUS
<1>9. Repositioned(fr, fs.h, Len(buf)) = PutH(fr, k)
  BY <1>8, Zenon DEF Repositioned, PutH
<1>10. PICK fk : fk = Repositioned(fr, fs.h, Len(buf))
  OBVIOUS
<1>11. fk = Fs(e, u, k)
  <2>1. PutH(fr, k) = Fs(e, u, k)
    BY <1>7, FsPut
  <2> QED BY <1>9, <1>10, <2>1, Zenon
<1>12. InsertedWhenGrown(fs, buf) = Saved(fk)
  BY <1>1, <1>6, <1>10, Zenon DEF InsertedWhenGrown
<1>13. PICK c : c = store_file_cached(fk.disk, fk.h)
  OBVIOUS
<1>14. Saved(fk) = PutD(fk, c)
  BY <1>13, Zenon DEF Saved, PutD
<1>15. Saved(fk) = Fs(c, u, k)
  BY <1>11, <1>14, FsPut
<1> QED BY <1>12, <1>15, FsIs

(* A file has the sectors sys_write counts on; the positions of a handle. *)
Covered(f) ==
  /\ f.file_size \in Nat /\ f.sector_count \in Nat
  /\ SectorsFor(f.file_size) <= f.sector_count
InFile(h) == h.read_seek <= h.file.file_size /\ h.write_seek <= h.file.file_size

LEMMA CoveredIs ==
  ASSUME NEW f, Covered(f), NEW x \in Nat, x <= f.file_size
  PROVE  NTH_BLOCK(x) \in 0..(f.sector_count - 1)
<1>1. PICK p \in Nat, q \in Nat : p = NTH_BLOCK(x) /\ q = NTH_BLOCK(f.file_size) /\ p <= q
  BY Position, PositionOrder DEF Covered
<1>2. q + 1 <= f.sector_count
  BY <1>1 DEF Covered, SectorsFor
<1> QED BY <1>1, <1>2 DEF Covered

LEMMA AtKept ==
  ASSUME NEW d, NEW e, NEW h, At(d, h), Covered(h.file), InFile(h), SameChain(d, e, h.file)
  PROVE  At(e, h)
<1>1. h.read_seek \in Nat /\ h.write_seek \in Nat
  BY HandleIs DEF At
<1>2. NTH_BLOCK(h.read_seek) \in 0..(h.file.sector_count - 1)
        /\ NTH_BLOCK(h.write_seek) \in 0..(h.file.sector_count - 1)
  BY <1>1, CoveredIs DEF InFile
<1> QED BY <1>2 DEF At, SameChain

LEMMA EnoughCells ==
  ASSUME NEW f, f.sector_count \in Nat, NEW n \in Nat, SectorsFor(n) <= f.sector_count
  PROVE  HasCells(f, n)
<1>1. NTH_BLOCK(n) \in Nat /\ NTH_BLOCK(n) < f.sector_count
  BY Position DEF SectorsFor
<1>2. f.sector_count * BLOCK \in Nat
  BY Constants, Products
<1>3. n < f.sector_count * BLOCK
  BY <1>1, PositionBound
<1> QED BY <1>2, <1>3 DEF HasCells

(* A write that CarefulWrite allows needs at most one more sector. *)
LEMMA NeedsOneIs ==
  ASSUME NEW f, Covered(f), NEW ws \in 0..f.file_size, NEW n \in Nat,
         InTwoSectors(ws, f.file_size - ws + n)
  PROVE  NeedsOne(f, n)
<1>1. PICK size \in Nat : size = f.file_size
  BY DEF Covered
<1>2. PICK q \in Nat, o \in 0..(BLOCK - 1) :
        q = NTH_BLOCK(ws) /\ o = IN_BLOCK_OFFSET(ws) /\ ws = BLOCK * q + o
  BY <1>1, Position
<1>3. q <= NTH_BLOCK(size) /\ NTH_BLOCK(size) \in Nat
  BY <1>1, <1>2, PositionOrder, Position
<1>4. PICK x \in Nat : x = BLOCK * q /\ BLOCK * (q + 2) = x + 2 * BLOCK
  BY Constants, Products
<1>5. o + (size - ws + n) < 2 * BLOCK
  BY <1>1, <1>2 DEF InTwoSectors
<1>6. size + n < x + 2 * BLOCK
  BY <1>1, <1>2, <1>4, <1>5, Constants
<1>7. (q + 2) * BLOCK = BLOCK * (q + 2)
  <2>1. q + 2 \in Nat /\ BLOCK \in Nat
    BY Constants
  <2> QED BY <2>1, Products
<1>8. size + n \in Nat /\ q + 2 \in Nat /\ size + n < (q + 2) * BLOCK
  BY <1>4, <1>6, <1>7
<1>9. NTH_BLOCK(size + n) < q + 2 /\ NTH_BLOCK(size + n) \in Nat
  BY <1>8, PositionBound, Position
<1>10. NTH_BLOCK(size + n) <= NTH_BLOCK(size) + 1
  BY <1>3, <1>9
<1> QED BY <1>1, <1>10 DEF NeedsOne, Covered
PutU(fs, v) == [fs EXCEPT !.used = v]

LEMMA ExpandUses ==
  ASSUME NEW d, NEW u, NEW h, NEW fs, fs = Fs(d, u, h), NEW v, v = u \cup {file_alloc(u)}
  PROVE  \E e, k : file_expand(fs, 1) = Fs(e, v, k)
<1>1. fs.used = u
  BY FsIs
<1>5. ASSUME NEW w PROVE PutU(fs, w) = Fs(d, w, h)
  <2>1. [[disk |-> d, used |-> u, h |-> h] EXCEPT !.used = w] = [disk |-> d, used |-> w, h |-> h]
    OBVIOUS
  <2> QED BY <2>1, Zenon DEF Fs, PutU
<1>2. PICK e : e = [fs.disk EXCEPT ![fs.h.file.last_sector].next = file_alloc(fs.used),
                                   ![file_alloc(fs.used)].next = None]
  OBVIOUS
<1>3. PICK k : k = [fs.h EXCEPT !.file.last_sector = file_alloc(fs.used)]
  OBVIOUS
<1>4. Extended(fs) = PutH(PutD(PutU(fs, fs.used \cup {file_alloc(fs.used)}), e), k)
  <2>1. PICK new, w : new = file_alloc(fs.used) /\ w = fs.used \cup {new}
    OBVIOUS
  <2>2. e = [fs.disk EXCEPT ![fs.h.file.last_sector].next = new, ![new].next = None]
    BY <1>2, <2>1, Zenon
  <2>3. Extended(fs) = [fs EXCEPT !.used = w, !.disk = e, !.h.file.last_sector = new]
    BY <2>1, <2>2, Zenon DEF Extended
  <2>4. k = [fs.h EXCEPT !.file.last_sector = new]
    BY <1>3, <2>1, Zenon
  <2>5. [fs EXCEPT !.used = w, !.disk = e, !.h.file.last_sector = new]
          = [fs EXCEPT !.used = w, !.disk = e, !.h = k]
    <3>1. PICK g : g = PutD(PutU(fs, w), e)
      OBVIOUS
    <3>2. g.h = fs.h
      <4>1. PICK a : a = PutU(fs, w)
        OBVIOUS
      <4>2. a = Fs(d, w, h)
        BY <1>5, <4>1
      <4>3. g = Fs(e, w, h)
        BY <3>1, <4>1, <4>2, FsPut
      <4> QED BY <4>3, FsIs
    <3>3. [fs EXCEPT !.used = w, !.disk = e, !.h.file.last_sector = new]
            = [g EXCEPT !.h.file.last_sector = new]
      BY <3>1, Zenon DEF PutU, PutD
    <3>4. [fs EXCEPT !.used = w, !.disk = e, !.h = k] = [g EXCEPT !.h = k]
      BY <3>1, Zenon DEF PutU, PutD
    <3>5. [g EXCEPT !.h.file.last_sector = new] = [g EXCEPT !.h = k]
      BY <2>4, <3>2, Zenon
    <3> QED BY <3>3, <3>4, <3>5, Zenon
  <2>6. [fs EXCEPT !.used = w, !.disk = e, !.h = k] = PutH(PutD(PutU(fs, w), e), k)
    BY Zenon DEF PutU, PutD, PutH
  <2> QED BY <2>1, <2>3, <2>5, <2>6, Zenon
<1>6. PutD(Fs(d, v, h), e) = Fs(e, v, h) /\ PutH(Fs(e, v, h), k) = Fs(e, v, k)
  BY FsPut
<1>7. PICK es : es = Extended(fs)
  OBVIOUS
<1>8. es = Fs(e, v, k)
  BY <1>1, <1>4, <1>5, <1>6, <1>7, Zenon
<1>9. PICK l : l = [es.h EXCEPT !.file.sector_count = @ + 1]
  OBVIOUS
<1>10. PICK counted : counted = [es EXCEPT !.h.file.sector_count = @ + 1]
  OBVIOUS
<1>11. counted = PutH(es, l)
  BY <1>9, <1>10, Zenon DEF PutH
<1>12. PutH(es, l) = Fs(e, v, l)
  BY <1>8, FsPut
<1>13. PICK c : c = store_file_cached(counted.disk, counted.h)
  OBVIOUS
<1>14. file_expand(fs, 1) = PutD(counted, c)
  BY <1>7, <1>10, <1>13, ExpandIs, Zenon DEF PutD
<1>15. counted = Fs(e, v, l)
  BY <1>11, <1>12, Zenon
<1>16. PutD(counted, c) = Fs(c, v, l)
  BY <1>15, FsPut
<1> QED BY <1>14, <1>16, Zenon

LEMMA GrownShape ==
  ASSUME NEW d, NEW u, NEW h, h.file.sector_count \in Nat, h.file.file_size \in Nat,
         NEW n \in Nat, NeedsOne(h.file, n), NEW fs, fs = Fs(d, u, h)
  PROVE  \E e, v, k : Grown(fs, n) = Fs(e, v, k) /\ u \subseteq v
<1>1. PICK f : f = h.file
  OBVIOUS
<1>2. fs.h = h
  BY FsIs
<1>3. PICK need : need = SectorsFor(f.file_size + n) - f.sector_count
  OBVIOUS
<1>4. Grown(fs, n) = IF need > 0 THEN file_expand(fs, need) ELSE fs
  BY <1>1, <1>2, <1>3, Zenon DEF Grown
<1>5. CASE ~(need > 0)
  BY <1>4, <1>5
<1>6. CASE need > 0
  <2>1. need = 1
    BY <1>1, <1>3, <1>6, NeedIs
  <2>2. PICK v : v = u \cup {file_alloc(u)}
    OBVIOUS
  <2>3. PICK e, k : file_expand(fs, 1) = Fs(e, v, k)
    BY <2>2, ExpandUses
  <2> QED BY <1>4, <1>6, <2>1, <2>2, <2>3
<1> QED BY <1>5, <1>6

LEMMA WriteUses ==
  ASSUME NEW d, NEW u, NEW h, h.file.sector_count \in Nat, h.file.file_size \in Nat,
         NEW buf, Len(buf) \in Nat, NeedsOne(h.file, Len(buf)), NEW fs, fs = Fs(d, u, h)
  PROVE  /\ Grown(fs, Len(buf)).used = sys_write(fs, buf).used
         /\ u \subseteq sys_write(fs, buf).used
<1>1. PICK e, v, k : Grown(fs, Len(buf)) = Fs(e, v, k) /\ u \subseteq v
  BY GrownShape
<1>2. PICK r : r = Fs(e, v, k)
  OBVIOUS
<1>3. r.used = v
  BY <1>2, FsIs
<1>4. sys_write(fs, buf) = InsertedWhenGrown(r, buf)
  BY <1>1, <1>2, Zenon DEF sys_write
<1>5. InsertedWhenGrown(r, buf).used = v
  BY <1>2, UsedKept
<1> QED BY <1>1, <1>2, <1>3, <1>4, <1>5, Zenon

LEMMA SizedFit ==
  ASSUME NEW d, NEW u, Sound(d, u), NEW i \in 0..Size(d), NEW f, f = FcbAt(d, i),
         NEW n \in 0..MaxSize, HasCells(f, n), NEW g, g = Sized(f, n)
  PROVE  Fit(d, u, i, g) /\ Successor(f, g)
<1>1. Well(d, u, f) /\ f \in Fcbs
  BY SoundFacts, FileIs
<1>2. /\ g \in Fcbs /\ g.file_name = f.file_name /\ g.first_sector = f.first_sector
      /\ g.last_sector = f.last_sector /\ g.sector_count = f.sector_count /\ g.file_size = n
  BY <1>1, Constants, SizedIs
<1>3. \A e, k : Sec(e, g, k) = Sec(e, f, k)
  BY <1>2, SameFirst
<1>4. Well(d, u, g)
  BY <1>1, <1>2, <1>3 DEF Well, HasCells
<1>5. \A j \in 0..Size(d) : j # i => Apart(d, g, FcbAt(d, j))
  BY <1>2, <1>3 DEF Sound, Apart
<1>6. Successor(f, g)
  BY <1>1, <1>2 DEF Successor, Well
<1> QED BY <1>4, <1>5, <1>6 DEF Fit

(* What a client of a file does when it writes. *)
Writes(d, h, f, buf) ==
  /\ Placed(d, h) /\ h.file = f /\ Covered(f)
  /\ buf \in Seq(Cells) /\ Len(buf) > 0
  /\ f.file_size + Len(buf) <= MaxSize
  /\ InTwoSectors(h.write_seek, f.file_size - h.write_seek + Len(buf))

LEMMA WritesIs ==
  ASSUME NEW d, NEW h, NEW f, NEW buf, Writes(d, h, f, buf)
  PROVE  /\ At(d, h) /\ InFile(h) /\ ReadInFile(h) /\ h \in Handle /\ h.file = f
         /\ Covered(f) /\ Len(buf) \in Nat /\ NeedsOne(f, Len(buf))
         /\ f.file_size \in Nat /\ f.sector_count \in Nat
         /\ h.write_seek \in 0..f.file_size
<1>1. /\ At(d, h) /\ InFile(h) /\ ReadInFile(h) /\ h \in Handle /\ h.file = f
      /\ Covered(f) /\ Len(buf) \in Nat
  BY DEF Writes, Placed, At, InFile, ReadInFile
<1>2. f.file_size \in Nat /\ f.sector_count \in Nat
  BY <1>1 DEF Covered
<1>3. h.write_seek \in 0..f.file_size
  BY <1>1, <1>2, HandleIs DEF InFile
<1>4. NeedsOne(f, Len(buf))
  BY <1>1, <1>3, NeedsOneIs DEF Writes
<1> QED BY <1>1, <1>2, <1>3, <1>4

(* The handle after the file has grown: the insertion can begin. *)
LEMMA GrownInsertable ==
  ASSUME NEW d, NEW h, NEW f, NEW buf, Writes(d, h, f, buf), NEW e, SameChain(d, e, f),
         NEW v, NEW g, Well(e, v, g), v \in SUBSET Sectors, Successor(f, g),
         g.file_size = f.file_size,
         SectorsFor(f.file_size + Len(buf)) <= g.sector_count,
         NEW k, k = PutFile(h, g)
  PROVE  /\ Insertable(e, k, buf) /\ k.file = g /\ k.path = h.path /\ k.index = h.index
         /\ k.write_seek = h.write_seek /\ k \in Handle
<1>1. /\ At(d, h) /\ InFile(h) /\ ReadInFile(h) /\ h \in Handle /\ h.file = f
      /\ Covered(f) /\ Len(buf) \in Nat
      /\ f.file_size \in Nat /\ h.write_seek \in 0..f.file_size
  BY WritesIs
<1>2. g \in Fcbs /\ g.sector_count \in Nat /\ Chained(e, g)
  BY WellChained DEF Well
<1>3. At(e, h)
  BY <1>1, AtKept
<1>4. At(e, k)
  BY <1>1, <1>2, <1>3, AtPut DEF Successor
<1>5. /\ k \in Handle /\ k.file = g /\ k.path = h.path /\ k.index = h.index
      /\ k.read_seek = h.read_seek /\ k.write_seek = h.write_seek
  BY <1>1, <1>2, PutFileIs
<1>6. ReadInFile(k)
  BY <1>1, <1>5 DEF ReadInFile
<1>7. HasCells(g, g.file_size + Len(buf))
  BY <1>1, <1>2, EnoughCells
<1>8. InTwoSectors(k.write_seek, k.file.file_size - k.write_seek + Len(buf))
  BY <1>5 DEF Writes
<1> QED BY <1>1, <1>2, <1>4, <1>5, <1>6, <1>7, <1>8 DEF Insertable, Writes
(* The text of a file, after the changes of the disk that leave its cells. *)
LEMMA HoldsKept ==
  ASSUME NEW d, NEW e, NEW f, NEW g, f.sector_count \in Nat, f.file_size \in Nat,
         HasCells(f, f.file_size), g.first_sector = f.first_sector, g.file_size = f.file_size,
         SameCells(d, e, f), NEW t, Holds(d, f, t)
  PROVE  Holds(e, g, t)
<1>1. ASSUME NEW j \in 1..g.file_size PROVE Cell(e, g, j - 1) = t[j]
  <2>1. j - 1 \in Nat /\ j - 1 < f.file_size /\ j \in 1..f.file_size
    OBVIOUS
  <2>2. NTH_BLOCK(j - 1) < f.sector_count
    BY <2>1, EntryInChain
  <2>3. Cell(e, f, j - 1) = Cell(d, f, j - 1)
    BY <2>1, <2>2 DEF SameCells
  <2> QED BY <2>1, <2>3, SameFirst DEF Holds
<1> QED BY <1>1 DEF Holds

(* e and v are what sys_write leaves of d and u, and g and k of the FCB    *)
(* and the handle.                                                         *)
FileWrites(d, u, i, h, buf, e, v, g, k) ==
  /\ Step(d, u, e, v, i, g) /\ g.file_size = h.file.file_size + Len(buf)
  /\ Placed(e, k) /\ k.file = g /\ k.path = h.path
  /\ \A t \in Seq(Cells) : Holds(d, h.file, t) => Holds(e, g, Ins(t, h.write_seek, buf))

LEMMA PlacedIs ==
  ASSUME NEW e, NEW k, At(e, k), NEW f, NEW size \in Nat, NEW n \in Nat,
         k.file.file_size = size + n, k.read_seek <= size,
         k.write_seek <= size + n, size + n <= MaxSize
  PROVE  Placed(e, k)
<1>1. k.read_seek \in Nat /\ k.write_seek \in Nat /\ k \in Handle
  BY HandleIs DEF At
<1>2. k.read_seek <= size + n
  BY <1>1
<1>3. size + n \in 0..MaxSize
  BY Constants
<1> QED BY <1>1, <1>2, <1>3 DEF At, Placed

LEMMA InsertedFile ==
  ASSUME NEW d, NEW u, Sound(d, u), NEW i \in 1..Size(d), NEW h, h.file = FcbAt(d, i),
         h.path # RootPath, h.index = i - 1, NEW buf, Insertable(d, h, buf),
         h.file.file_size + Len(buf) <= MaxSize,
         NEW fs, fs = Fs(d, u, h), NEW r, r = InsertedWhenGrown(fs, buf)
  PROVE  \E e, k, g : r = Fs(e, u, k) /\ FileWrites(d, u, i, h, buf, e, u, g, k)
<1>1. d \in Disks /\ i \in 0..Size(d)
  BY SoundFacts
<1>2. PICK e, k : /\ InsertedWhenGrown(fs, buf) = Fs(store_file_cached(e, k), u, k)
                  /\ Wrote(d, h, e, k, buf)
  BY <1>1, WrittenIs
<1>a. PICK f, ws : f = h.file /\ ws = h.write_seek
  OBVIOUS
<1>3. PICK size \in Nat : f = h.file /\ ws = h.write_seek /\ size = f.file_size
  BY <1>a DEF Insertable
<1>4. PICK m \in Nat, n \in Nat : m = Len(buf) /\ n = size + m /\ n <= MaxSize
  <2>1. Len(buf) \in Nat
    BY DEF Insertable
  <2> QED BY <1>3, <2>1
<1>5. PICK g : g = Sized(f, n)
  OBVIOUS
<1>6. /\ Rewritten(d, e, f, ws, buf \o Rest(d, f, ws))
      /\ At(e, k) /\ k.file = g /\ k.path = h.path /\ k.index = h.index
      /\ k.read_seek <= size /\ k.write_seek = ws + m
  BY <1>2, <1>3, <1>4, <1>5 DEF Wrote
<1>7. Step(d, u, e, u, i, f)
  BY <1>3, <1>6, StepWrite
<1>8. Sound(e, u) /\ Size(e) = Size(d) /\ FcbAt(e, i) = f
  BY <1>7 DEF Step
<1>9. HasCells(f, n) /\ n \in 0..MaxSize
  BY <1>3, <1>4, Constants DEF Insertable
<1>10. Fit(e, u, i, g) /\ Successor(f, g)
  BY <1>1, <1>5, <1>8, <1>9, SizedFit
<1>11. PICK c : c = store_file_cached(e, k)
  OBVIOUS
<1>12. Rewritten(e, c, RootFcb(e), i - 1, <<g>>)
  <2>1. k \in Handle /\ k.path # RootPath /\ k.index = i - 1
    BY <1>6 DEF At
  <2> QED BY <1>6, <1>8, <1>11, <2>1, StoreIs
<1>13. Step(e, u, c, u, i, g) /\ SameCells(e, c, g)
  BY <1>8, <1>10, <1>12, StepStore
<1>14. Step(d, u, c, u, i, g)
  BY <1>1, <1>7, <1>13, StepTransitive
<1>15. f \in Fcbs /\ f.sector_count \in Nat
  BY <1>1, <1>3, FileIs
<1>16. g.file_size = n /\ g.first_sector = f.first_sector /\ g.sector_count = f.sector_count
  <2>1. g.file_size = n
    BY <1>5 DEF Sized
  <2>2. g.first_sector = f.first_sector
    BY <1>5 DEF Sized
  <2>3. g.sector_count = f.sector_count
    BY <1>5 DEF Sized
  <2> QED BY <2>1, <2>2, <2>3
<1>17. Placed(c, k)
  <2>1. At(c, k)
    BY <1>6, <1>12, AtSame DEF Rewritten
  <2>2. ws \in 0..size
    BY <1>3 DEF Insertable
  <2>3. k.file.file_size = size + m /\ k.read_seek <= size /\ k.write_seek <= size + m
          /\ size + m <= MaxSize
    BY <1>4, <1>6, <1>16, <2>2
  <2> QED BY <2>1, <2>3, PlacedIs
<1>18. ASSUME NEW t \in Seq(Cells), Holds(d, f, t)
       PROVE  Holds(c, g, Ins(t, ws, buf))
  <2>1. ws \in 0..f.file_size /\ buf \in Seq(Cells) /\ f.file_size \in Nat
          /\ HasCells(f, f.file_size + Len(buf)) /\ n = f.file_size + Len(buf)
    BY <1>3, <1>4 DEF Insertable
  <2>2. /\ Len(Ins(t, ws, buf)) = n
        /\ \A j \in 1..n : Cell(e, f, j - 1) = Ins(t, ws, buf)[j]
    <3>1. HoldsFirst(e, f, Ins(t, ws, buf), n)
      BY <1>1, <1>6, <1>15, <1>18, <2>1, InsertHolds
    <3> QED BY <3>1 DEF HoldsFirst
  <2>3. ASSUME NEW j \in 1..n PROVE Cell(c, g, j - 1) = Cell(e, f, j - 1)
    <3>1. j - 1 \in Nat /\ j - 1 < n
      OBVIOUS
    <3>2. NTH_BLOCK(j - 1) < g.sector_count
      BY <1>9, <1>15, <1>16, <3>1, EntryInChain
    <3>3. Cell(c, g, j - 1) = Cell(e, g, j - 1)
      BY <1>13, <3>1, <3>2 DEF SameCells
    <3> QED BY <1>16, <3>3, SameFirst
  <2> QED BY <1>16, <2>2, <2>3 DEF Holds
<1>19. FileWrites(d, u, i, h, buf, c, u, g, k)
  BY <1>3, <1>4, <1>6, <1>14, <1>16, <1>17, <1>18 DEF FileWrites
<1>20. r = Fs(c, u, k)
  BY <1>2, <1>11
<1> QED BY <1>19, <1>20

LEMMA FileWritten ==
  ASSUME SWAP_START < NSectors, NEW d, NEW u, Sound(d, u), NEW i \in 1..Size(d), NEW h,
         NEW buf, Writes(d, h, FcbAt(d, i), buf), h.path # RootPath, h.index = i - 1,
         NEW fs, fs = Fs(d, u, h), NEW r, r = sys_write(fs, buf),
         r.used \subseteq 0..(SWAP_START - 1)
  PROVE  \E e, v, k, g : r = Fs(e, v, k) /\ FileWrites(d, u, i, h, buf, e, v, g, k)
<1>1. i \in 0..Size(d) /\ d \in Disks
  BY SoundFacts
<1>2. PICK f : f = FcbAt(d, i)
  OBVIOUS
<1>3. /\ h \in Handle /\ h.file = f /\ Len(buf) \in Nat /\ NeedsOne(f, Len(buf))
      /\ f.file_size \in Nat /\ f.sector_count \in Nat
  BY <1>2, WritesIs
<1>4. PICK s : s = Grown(fs, Len(buf))
  OBVIOUS
<1>5. s.used = r.used
  BY <1>3, <1>4, WriteUses
<1>6. PICK g : GrownTo(d, u, i, h, s, g, Len(buf))
  <2>1. fs = [disk |-> d, used |-> u, h |-> h]
    BY DEF Fs
  <2> QED BY <1>2, <1>3, <1>4, <1>5, <2>1, GrownFile
<1>7. PICK e, v : e = s.disk /\ v = s.used
  OBVIOUS
<1>8. PICK k : k = PutFile(h, g)
  OBVIOUS
<1>9. s = Fs(e, v, k)
  BY <1>6, <1>7, <1>8 DEF GrownTo, Result, Fs
<1>10. /\ Step(d, u, e, v, i, g) /\ SameCells(d, e, f) /\ g.file_size = f.file_size
       /\ SectorsFor(f.file_size + Len(buf)) <= g.sector_count
  BY <1>2, <1>3, <1>6, <1>7 DEF GrownTo
<1>11. /\ Sound(e, v) /\ Size(e) = Size(d) /\ FcbAt(e, i) = g /\ Successor(f, g)
       /\ SameChain(d, e, f)
  BY <1>1, <1>2, <1>10 DEF Step, Successor
<1>12. Well(e, v, g) /\ v \in SUBSET Sectors
  BY <1>1, <1>11, SoundFacts
<1>13. /\ Insertable(e, k, buf) /\ k.file = g /\ k.path = h.path /\ k.index = h.index
       /\ k.write_seek = h.write_seek /\ k \in Handle
  BY <1>2, <1>8, <1>10, <1>11, <1>12, GrownInsertable
<1>14. r = InsertedWhenGrown(s, buf)
  BY <1>4, Zenon DEF sys_write
<1>15. g.file_size + Len(buf) <= MaxSize
  BY <1>2, <1>10 DEF Writes
<1>16. PICK c, l, q : r = Fs(c, v, l) /\ FileWrites(e, v, i, k, buf, c, v, q, l)
  BY <1>9, <1>11, <1>13, <1>14, <1>15, InsertedFile
<1>17. Step(d, u, c, v, i, q)
  BY <1>1, <1>10, <1>16, StepTransitive DEF FileWrites
<1>18. ASSUME NEW t \in Seq(Cells), Holds(d, f, t)
       PROVE  Holds(c, q, Ins(t, h.write_seek, buf))
  <2>1. HasCells(f, f.file_size)
    BY <1>1, <1>2, SoundFacts, WellCounts
  <2>2. Holds(e, g, t)
    BY <1>3, <1>10, <1>11, <1>18, <2>1, HoldsKept DEF Successor
  <2> QED BY <1>13, <1>16, <1>18, <2>2 DEF FileWrites
<1>19. FileWrites(d, u, i, h, buf, c, v, q, l)
  BY <1>2, <1>3, <1>10, <1>13, <1>16, <1>17, <1>18 DEF FileWrites
<1> QED BY <1>16, <1>19
-----------------------------------------------------------------------------
(* Changes of the disk outside the files: the root's FCB, free sectors and *)
(* the swap area.                                                          *)

RootOnly(d, e) == \A s \in Sectors : s # SECTOR_WITH_ROOT_FCB => e[s] = d[s]
UsedSame(d, e, u) == \A s \in Sectors : s \in u => e[s] = d[s]

LEMMA Untouched ==
  ASSUME NEW d, NEW e, NEW u \in SUBSET Sectors, NEW f, Well(d, u, f),
         \A s \in Sectors : s \in u \ {SECTOR_WITH_ROOT_FCB} => e[s] = d[s]
  PROVE  SameChain(d, e, f) /\ SameEnd(d, e, f) /\ SameCells(d, e, f)
<1>1. Chained(d, f)
  BY WellChained
<1>2. \A s \in Sectors : InChain(d, f, s) => e[s] = d[s]
  BY DEF InChain, Well
<1>3. SameChain(d, e, f)
  BY <1>1, <1>2, ChainKept
<1>4. f.sector_count - 1 \in 0..(f.sector_count - 1)
  BY <1>1 DEF Chained
<1>5. SameEnd(d, e, f)
  <2>1. PICK s \in Sectors : s = Sec(d, f, f.sector_count - 1)
    BY <1>1, <1>4 DEF Chained
  <2>2. InChain(d, f, s)
    BY <1>4, <2>1 DEF InChain
  <2>3. e[s].next = d[s].next
    BY <1>2, <2>2
  <2> QED BY <1>1, <1>3, <2>1, <2>3, EndKept
<1>6. SameCells(d, e, f)
  BY <1>1, <1>2, <1>3, CellsKept
<1> QED BY <1>3, <1>5, <1>6

LEMMA EntriesKept ==
  ASSUME NEW d, NEW u, Sound(d, u), NEW e, NEW g, RootFcb(e) = g, g.sector_count \in Nat,
         g.first_sector = RootFcb(d).first_sector, HasCells(g, Size(d)), SameCells(d, e, g),
         NEW j \in 1..Size(d)
  PROVE  FcbAt(e, j) = FcbAt(d, j)
<1>1. j - 1 \in Nat /\ j - 1 < Size(d) /\ j \in Nat \ {0} /\ Size(d) \in Nat
  BY SoundFacts
<1>2. NTH_BLOCK(j - 1) < g.sector_count
  BY <1>1, EntryInChain
<1>3. Cell(e, g, j - 1) = Cell(d, g, j - 1)
  BY <1>1, <1>2 DEF SameCells
<1> QED BY <1>1, <1>3, EntryIs, SameFirst

LEMMA StepElsewhere ==
  ASSUME NEW d, NEW u, Sound(d, u), NEW e \in Disks, Links(e), UsedSame(d, e, u),
         NEW v, u \subseteq v, v \subseteq 0..(SWAP_START - 1)
  PROVE  /\ Sound(e, v) /\ Size(e) = Size(d)
         /\ \A j \in 0..Size(d) : FcbAt(e, j) = FcbAt(d, j) /\ SameChain(d, e, FcbAt(d, j))
              /\ SameEnd(d, e, FcbAt(d, j)) /\ SameCells(d, e, FcbAt(d, j))
<1>1. u \in SUBSET Sectors /\ 0 \in 0..Size(d) /\ SECTOR_WITH_ROOT_FCB \in u
        /\ SECTOR_WITH_ROOT_FCB \in Sectors /\ Size(d) \in Nat
  BY SoundFacts
<1>2. \A j \in 0..Size(d) : SameChain(d, e, FcbAt(d, j)) /\ SameEnd(d, e, FcbAt(d, j))
                              /\ SameCells(d, e, FcbAt(d, j))
  <2>1. \A s \in Sectors : s \in u \ {SECTOR_WITH_ROOT_FCB} => e[s] = d[s]
    BY DEF UsedSame
  <2> QED BY <1>1, <2>1, SoundFacts, Untouched
<1>3. RootFcb(e) = RootFcb(d) /\ Size(e) = Size(d)
  BY <1>1 DEF RootFcb, Size, UsedSame
<1>4. \A j \in 0..Size(d) : FcbAt(e, j) = FcbAt(d, j)
  <2>1. FcbAt(e, 0) = FcbAt(d, 0)
    BY <1>3 DEF FcbAt
  <2>2. ASSUME NEW j \in 1..Size(d) PROVE FcbAt(e, j) = FcbAt(d, j)
    <3>1. PICK g : g = RootFcb(d)
      OBVIOUS
    <3>2. g.sector_count \in Nat /\ HasCells(g, Size(d)) /\ SameCells(d, e, g)
      BY <1>1, <1>2, <3>1, SoundFacts, WellCounts DEF Size
    <3> QED BY <1>3, <3>1, <3>2, EntriesKept
  <2> QED BY <2>1, <2>2
<1>5. Sound(e, v)
  <2>1. \A j \in 0..Size(d) : Well(e, v, FcbAt(e, j))
    BY <1>2, <1>4, WellKept, SoundFacts
  <2>2. \A j, k \in 0..Size(d) : j # k => Apart(e, FcbAt(e, j), FcbAt(e, k))
    BY <1>2, <1>4, ApartKept DEF Sound
  <2> QED BY <1>1, <1>3, <2>1, <2>2 DEF Sound, Disks
<1> QED BY <1>2, <1>3, <1>4, <1>5

(* store_file_cached of the root *)
LEMMA RootStored ==
  ASSUME NEW d \in Disks, Links(d), NEW h \in Handle, h.path = RootPath, NEW e,
         e = store_file_cached(d, h)
  PROVE  e \in Disks /\ Links(e) /\ RootFcb(e) = h.file /\ RootOnly(d, e)
<1>1. PICK b : b = Overlaid(EmptyBlock, 0, <<h.file>>, 1, 1)
  OBVIOUS
<1>2. Fits(0, <<h.file>>, 1, 1)
  <2>1. h.file \in Cells
    BY HandleIs DEF Cells
  <2> SUFFICES ASSUME NEW o \in Offsets, o \in 0..(0 + 1 - 1) PROVE <<h.file>>[1 + o - 0] \in Cells
    BY DEF Fits
  <2>2. o = 0
    OBVIOUS
  <2> QED BY <2>1, <2>2
<1>3. Laid(b, EmptyBlock, 0, <<h.file>>, 1, 1)
  BY <1>1, <1>2, EmptyIsBlock, OverlaidIs
<1>4. b \in Blocks /\ b.next = None /\ b.data[0] = h.file
  <2>1. 0 \in Offsets
    BY Constants DEF Offsets
  <2>2. b.data[0] = IF 0 \in 0..(0 + 1 - 1) THEN <<h.file>>[1 + 0 - 0] ELSE EmptyBlock.data[0]
    BY <1>3, <2>1 DEF Laid
  <2>3. b.data[0] = h.file
    BY <2>2
  <2>4. b.next = None
    BY <1>3 DEF Laid, EmptyBlock
  <2> QED BY <1>3, <2>3, <2>4 DEF Laid
<1>5. SECTOR_WITH_ROOT_FCB \in Sectors
  BY Constants DEF Sectors, SECTOR_WITH_ROOT_FCB
<1>6. e = [d EXCEPT ![SECTOR_WITH_ROOT_FCB] = b]
  BY <1>1, <1>5 DEF store_file_cached, write_disk
<1>7. e \in Disks /\ e[SECTOR_WITH_ROOT_FCB] = b
        /\ \A s \in Sectors : s # SECTOR_WITH_ROOT_FCB => e[s] = d[s]
  BY <1>4, <1>5, <1>6 DEF Disks
<1>8. Links(e)
  BY <1>4, <1>7 DEF Links
<1>9. RootFcb(e) = h.file
  BY <1>4, <1>7 DEF RootFcb
<1> QED BY <1>7, <1>8, <1>9 DEF RootOnly

LEMMA StepStoreRoot ==
  ASSUME NEW d, NEW u, Sound(d, u), NEW g, Fit(d, u, 0, g), Successor(FcbAt(d, 0), g),
         g.file_size = Size(d), NEW e \in Disks, Links(e), RootFcb(e) = g, RootOnly(d, e)
  PROVE  Step(d, u, e, u, 0, g) /\ SameCells(d, e, FcbAt(d, 0)) /\ SameCells(d, e, g)
<1>1. u \in SUBSET Sectors /\ 0 \in 0..Size(d) /\ SECTOR_WITH_ROOT_FCB \in u
        /\ Size(d) \in Nat /\ RootFcb(d) = FcbAt(d, 0) /\ u \subseteq 0..(SWAP_START - 1)
  BY SoundFacts DEF Sound
<1>2. \A s \in Sectors : s \in u \ {SECTOR_WITH_ROOT_FCB} => e[s] = d[s]
  BY DEF RootOnly
<1>3. \A j \in 0..Size(d) : SameChain(d, e, FcbAt(d, j)) /\ SameEnd(d, e, FcbAt(d, j))
                              /\ SameCells(d, e, FcbAt(d, j))
  BY <1>1, <1>2, SoundFacts, Untouched
<1>4. Well(d, u, g) /\ SameChain(d, e, g) /\ SameCells(d, e, g)
  BY <1>1, <1>2, Untouched DEF Fit
<1>5. Size(e) = Size(d)
  BY DEF Size
<1>6. \A j \in 1..Size(d) : FcbAt(e, j) = FcbAt(d, j)
  <2>1. g.sector_count \in Nat /\ HasCells(g, Size(d))
    BY <1>4, WellCounts
  <2>2. g.first_sector = RootFcb(d).first_sector
    BY <1>1 DEF Successor
  <2> QED BY <1>4, <2>1, <2>2, EntriesKept
<1>7. FcbAt(e, 0) = g
  BY DEF FcbAt
<1>8. \A j \in 0..Size(d) : FcbAt(e, j) = IF j = 0 THEN g ELSE FcbAt(d, j)
  <2>1. \A j \in 0..Size(d) : j # 0 => j \in 1..Size(d)
    BY <1>1
  <2> QED BY <1>6, <1>7, <2>1
<1>9. Sound(e, u)
  BY <1>1, <1>3, <1>4, <1>5, <1>8, FitReplaces
<1>10. \A s \in Sectors : s \notin u => e[s] = d[s]
  BY <1>1 DEF RootOnly
<1>11. \A j \in 1..Size(d) : j \in 0..Size(d)
  OBVIOUS
<1> QED BY <1>1, <1>3, <1>4, <1>5, <1>7, <1>8, <1>9, <1>10, <1>11 DEF Step, Successor

(* The directory itself grows; the sector it gets was not used. *)
GrownBy(u, f, g) ==
  \/ g.sector_count = f.sector_count
  \/ g.sector_count = f.sector_count + 1 /\ g.last_sector \notin u

LEMMA GrownRoot ==
  ASSUME SWAP_START < NSectors, NEW d, NEW u, Sound(d, u),
         NEW h \in Handle, h.file = FcbAt(d, 0), h.path = RootPath,
         NEW n \in Nat, NeedsOne(h.file, n),
         NEW fs, fs = [disk |-> d, used |-> u, h |-> h],
         NEW r, r = Grown(fs, n), r.used \subseteq 0..(SWAP_START - 1)
  PROVE  \E g : GrownTo(d, u, 0, h, r, g, n) /\ GrownBy(u, h.file, g)
<1> DEFINE f == h.file
<1>0. 0 \in 0..Size(d) /\ f \in Fcbs
  BY SoundFacts DEF Handle
<1>1. 0 \in 0..Size(d) /\ f \in Fcbs /\ Well(d, u, f) /\ Chained(d, f)
  BY <1>0, SoundFacts
<1>2. f.sector_count \in Nat \ {0} /\ f.file_size \in Nat
  BY <1>1, WellCounts
<1>3. fs.h = h /\ fs.disk = d /\ fs.used = u
  OBVIOUS
<1>4. PICK need : need = SectorsFor(f.file_size + n) - f.sector_count
  OBVIOUS
<1>5. Grown(fs, n) = IF need > 0 THEN file_expand(fs, need) ELSE fs
  BY <1>3, <1>4, Zenon DEF Grown
<1>6. CASE ~(need > 0)
  <2>1. SectorsFor(f.file_size + n) <= f.sector_count
    BY <1>2, <1>4, <1>6, NeedIs
  <2>2. r = fs
    BY <1>5, <1>6
  <2>3. Result(h, r, f)
    BY <2>2, PutSame DEF Result
  <2>4. GrownTo(d, u, 0, h, r, f, n)
    BY <1>1, <1>3, <2>1, <2>2, <2>3, StepStutter DEF GrownTo
  <2>5. GrownBy(u, f, f)
    BY DEF GrownBy
  <2> QED BY <2>4, <2>5
<1>7. CASE need > 0
  <2>1. need = 1 /\ SectorsFor(f.file_size + n) = f.sector_count + 1
    BY <1>2, <1>4, <1>7, NeedIs
  <2>2. PICK new : new = file_alloc(u)
    OBVIOUS
  <2>3. new \in Sectors /\ new \notin u
    <3>1. SWAP_START \in Sectors /\ SWAP_START \notin u /\ u \in SUBSET Sectors
      BY Constants, SoundFacts DEF Sectors, Sound
    <3> QED BY <2>2, <3>1, AllocIs
  <2>4. PICK last \in Sectors : last = f.last_sector /\ last # new
    <3>1. f.last_sector \in u
      BY <1>1, <1>2, BelowIs DEF Well
    <3> QED BY <2>3, <3>1, SoundFacts
  <2>5. PICK k : k = PutFile(h, Grow(f, new))
    OBVIOUS
  <2>6. d \in Disks
    BY SoundFacts
  <2>7. PICK e : /\ Linked(d, e, last, new)
                 /\ file_expand(fs, 1) = [disk |-> store_file_cached(e, k),
                                          used |-> u \cup {new}, h |-> k]
    <3>1. Expands(fs, d, u, k, last, new)
      BY <2>2, <2>3, <2>4, <2>5, <2>6, ExpandedIs
    <3> QED BY <3>1 DEF Expands
  <2>8. PICK g, v : g = Grow(f, new) /\ v = u \cup {new}
    OBVIOUS
  <2>9. r = [disk |-> store_file_cached(e, k), used |-> v, h |-> k]
    BY <1>5, <1>7, <2>1, <2>7, <2>8
  <2>10. new \in 0..(SWAP_START - 1) /\ new \in Int
    BY <2>3, <2>8, <2>9 DEF Sectors
  <2>11. Longer(f, g, new) /\ g \in Fcbs
    BY <1>1, <1>2, <2>8, <2>10, GrowIs
  <2>12. /\ Step(d, u, e, v, 0, f) /\ Fit(e, v, 0, g) /\ Successor(f, g) /\ SameCells(d, e, f)
    BY <1>1, <2>3, <2>4, <2>7, <2>8, <2>10, <2>11, StepExtend
  <2>13. Sound(e, v) /\ Size(e) = Size(d) /\ FcbAt(e, 0) = f
    BY <2>12 DEF Step
  <2>14. k \in Handle /\ k.path = RootPath /\ k.file = g
    BY <2>5, <2>8, <2>11, PutFileIs
  <2>15. PICK c : c = store_file_cached(e, k)
    OBVIOUS
  <2>16. c \in Disks /\ Links(c) /\ RootFcb(c) = g /\ RootOnly(e, c)
    <3>1. e \in Disks /\ Links(e)
      BY <2>13, SoundFacts DEF Sound
    <3> QED BY <2>14, <2>15, <3>1, RootStored
  <2>17. Step(e, v, c, v, 0, g) /\ SameCells(e, c, g)
    <3>1. g.file_size = Size(e)
      BY <2>11, <2>13, SoundFacts DEF Longer, Size
    <3> QED BY <2>12, <2>13, <2>16, <3>1, StepStoreRoot
  <2>18. Step(d, u, c, v, 0, g)
    BY <1>1, <2>12, <2>17, StepTransitive
  <2>19. SameCells(d, c, f)
    <3>1. g.sector_count \in Nat
      BY <1>2, <2>11 DEF Longer
    <3> QED BY <1>2, <2>12, <2>17, <3>1, CellsTransitive
  <2>20. Result(h, r, g) /\ r.disk = c /\ r.used = v
    BY <2>5, <2>8, <2>9, <2>15 DEF Result
  <2>21. GrownTo(d, u, 0, h, r, g, n)
    BY <2>1, <2>11, <2>18, <2>19, <2>20, <1>2 DEF GrownTo, Longer
  <2>22. GrownBy(u, f, g)
    BY <2>3, <2>11 DEF GrownBy, Longer
  <2> QED BY <2>21, <2>22
<1> QED BY <1>6, <1>7
-----------------------------------------------------------------------------
(* sys_create *)

(* Where an entry of the directory goes when one is inserted at ws, and    *)
(* where it was before.                                                    *)
Shift(ws, j) == IF j <= ws THEN j ELSE j + 1
OldAt(ws, j) == IF j <= ws THEN j ELSE j - 1

LEMMA Shifts ==
  ASSUME NEW n \in Nat, NEW ws \in 0..n
  PROVE  /\ \A j \in 1..n : Shift(ws, j) \in 1..(n + 1) /\ Shift(ws, j) # ws + 1
              /\ OldAt(ws, Shift(ws, j)) = j
         /\ \A j \in 1..(n + 1) : j # ws + 1 => OldAt(ws, j) \in 1..n
              /\ Shift(ws, OldAt(ws, j)) = j
         /\ \A j, k \in 1..(n + 1) : j # ws + 1 /\ k # ws + 1 /\ j # k
              => OldAt(ws, j) # OldAt(ws, k)
BY DEF Shift, OldAt

(* A file that is in no directory yet. *)
NewFile(d, u, n) ==
  /\ Well(d, u, n)
  /\ \A j \in 0..Size(d) : Apart(d, n, FcbAt(d, j))

(* The directory with an entry for n inserted, on the disk e. *)
Entered(d, e, ws, g, n) ==
  /\ Size(e) = Size(d) + 1 /\ FcbAt(e, 0) = g /\ FcbAt(e, ws + 1) = n
  /\ \A j \in 1..(Size(d) + 1) : j # ws + 1 => FcbAt(e, j) = FcbAt(d, OldAt(ws, j))

LEMMA EnteredSound ==
  ASSUME NEW d, NEW u, Sound(d, u), NEW ws \in 0..Size(d), NEW g, NEW n, NewFile(d, u, n),
         Fit(d, u, 0, g), Apart(d, g, n), NEW e, e \in Disks, Links(e), Entered(d, e, ws, g, n),
         \A f : Well(d, u, f) => SameChain(d, e, f)
  PROVE  Sound(e, u)
<1>1. PICK size \in Nat : size = Size(d) /\ Size(e) = size + 1 /\ ws \in 0..size
  BY SoundFacts DEF Entered
<1>2. \A j \in 1..(size + 1) : j # ws + 1 =>
        OldAt(ws, j) \in 1..size /\ FcbAt(e, j) = FcbAt(d, OldAt(ws, j))
  BY <1>1, Shifts DEF Entered
<1>3. \A j, k \in 1..(size + 1) : j # ws + 1 /\ k # ws + 1 /\ j # k
              => OldAt(ws, j) # OldAt(ws, k)
  BY <1>1, Shifts
<1>4. \A j \in 1..size : j \in 0..size /\ j # 0
  OBVIOUS
<1>5. \A j \in 0..size : Well(d, u, FcbAt(d, j)) /\ SameChain(d, e, FcbAt(d, j))
  BY <1>1, SoundFacts
<1>6. Well(d, u, n) /\ SameChain(d, e, n) /\ Well(d, u, g) /\ SameChain(d, e, g)
  BY DEF NewFile, Fit
<1>7. FcbAt(e, 0) = g /\ FcbAt(e, ws + 1) = n
  BY DEF Entered
<1>8. ASSUME NEW j \in 0..(size + 1) PROVE Well(e, u, FcbAt(e, j))
  <2>1. CASE j = 0
    BY <1>6, <1>7, <2>1, WellKept
  <2>2. CASE j = ws + 1
    BY <1>6, <1>7, <2>2, WellKept
  <2>3. CASE j # 0 /\ j # ws + 1
    <3>1. PICK i \in 1..size : i = OldAt(ws, j) /\ FcbAt(e, j) = FcbAt(d, i)
      BY <1>1, <1>2, <2>3
    <3>2. Well(d, u, FcbAt(d, i)) /\ SameChain(d, e, FcbAt(d, i))
      BY <1>4, <1>5, <3>1
    <3> QED BY <3>1, <3>2, WellKept
  <2> QED BY <2>1, <2>2, <2>3
<1>9. Apart(e, g, n)
  BY <1>6, ApartKept
<1>10. ASSUME NEW i \in 1..size PROVE Apart(e, g, FcbAt(d, i)) /\ Apart(e, n, FcbAt(d, i))
  <2>1. Apart(d, g, FcbAt(d, i)) /\ Apart(d, n, FcbAt(d, i)) /\ SameChain(d, e, FcbAt(d, i))
    BY <1>1, <1>4, <1>5 DEF Fit, NewFile
  <2> QED BY <1>6, <2>1, ApartKept
<1>11. ASSUME NEW i \in 1..size, NEW k \in 1..size, i # k
       PROVE  Apart(e, FcbAt(d, i), FcbAt(d, k))
  <2>1. Apart(d, FcbAt(d, i), FcbAt(d, k)) /\ SameChain(d, e, FcbAt(d, i))
          /\ SameChain(d, e, FcbAt(d, k))
    BY <1>1, <1>4, <1>5, <1>11 DEF Sound
  <2> QED BY <2>1, ApartKept
<1>12. ASSUME NEW j \in 0..(size + 1), NEW k \in 0..(size + 1), j # k
       PROVE  Apart(e, FcbAt(e, j), FcbAt(e, k))
  <2> DEFINE Old(x) == x # 0 /\ x # ws + 1
  <2>1. ASSUME NEW x \in 0..(size + 1), Old(x)
        PROVE  \E i \in 1..size : i = OldAt(ws, x) /\ FcbAt(e, x) = FcbAt(d, i)
    BY <1>1, <1>2, <2>1
  <2>2. CASE Old(j) /\ Old(k)
    <3>1. PICK i \in 1..size : i = OldAt(ws, j) /\ FcbAt(e, j) = FcbAt(d, i)
      BY <2>1, <2>2
    <3>2. PICK l \in 1..size : l = OldAt(ws, k) /\ FcbAt(e, k) = FcbAt(d, l)
      BY <2>1, <2>2
    <3>3. i # l
      BY <1>1, <1>3, <1>12, <2>2, <3>1, <3>2
    <3> QED BY <1>11, <3>1, <3>2, <3>3
  <2>3. CASE Old(j) /\ ~Old(k)
    <3>1. PICK i \in 1..size : FcbAt(e, j) = FcbAt(d, i)
      BY <2>1, <2>3
    <3> QED BY <1>7, <1>10, <2>3, <3>1, ApartBoth
  <2>4. CASE ~Old(j) /\ Old(k)
    <3>1. PICK i \in 1..size : FcbAt(e, k) = FcbAt(d, i)
      BY <2>1, <2>4
    <3> QED BY <1>7, <1>10, <2>4, <3>1
  <2>5. CASE ~Old(j) /\ ~Old(k)
    BY <1>7, <1>9, <1>12, <2>5, ApartBoth
  <2> QED BY <2>2, <2>3, <2>4, <2>5
<1>13. Size(e) \in Nat /\ u \subseteq 0..(SWAP_START - 1) /\ SECTOR_WITH_ROOT_FCB \in u
  BY <1>1 DEF Sound
<1> QED BY <1>1, <1>8, <1>12, <1>13 DEF Sound, Disks

(* Positions of a file reach at most the link after its last sector. *)
Within(f) ==
  f.sector_count \in Nat /\ f.file_size \in Nat /\ HasCells(f, f.file_size)

LEMMA WellWithin ==
  ASSUME NEW d, NEW u, NEW f, Well(d, u, f)
  PROVE  Within(f)
BY WellCounts DEF Within

LEMMA AtToEnd ==
  ASSUME NEW d, NEW e, NEW h, At(d, h), InFile(h), Within(h.file),
         SameChain(d, e, h.file), SameEnd(d, e, h.file)
  PROVE  At(e, h)
<1>1. PICK f : f = h.file
  OBVIOUS
<1>2. PICK n \in Nat : n = f.sector_count
  BY <1>1 DEF Within
<1>3. ASSUME NEW x \in Nat, x <= f.file_size
      PROVE  Sec(e, f, NTH_BLOCK(x)) = Sec(d, f, NTH_BLOCK(x))
  <2>1. PICK m \in Nat : m = n * BLOCK
    BY Constants, Products
  <2>2. x <= m
    BY <1>1, <1>2, <1>3, <2>1 DEF Within, HasCells
  <2>3. NTH_BLOCK(x) \in Nat /\ NTH_BLOCK(x) <= n
    BY <2>1, <2>2, Position, PositionBound
  <2>4. NTH_BLOCK(x) \in 0..(n - 1) \/ NTH_BLOCK(x) = n
    BY <2>3
  <2> QED BY <1>1, <1>2, <2>4 DEF SameChain, SameEnd
<1>4. h.read_seek \in Nat /\ h.write_seek \in Nat
  BY HandleIs DEF At
<1> QED BY <1>1, <1>3, <1>4 DEF At, InFile

(* The entries of the directory are what it holds. *)
LEMMA RootHolds ==
  ASSUME NEW d, NEW u, Sound(d, u), NEW t, t = [i \in 1..Size(d) |-> FcbAt(d, i)]
  PROVE  t \in Seq(Cells) /\ Len(t) = Size(d) /\ Holds(d, FcbAt(d, 0), t)
<1>1. PICK size \in Nat : size = Size(d)
  BY SoundFacts
<1>2. \A i \in 1..size : FcbAt(d, i) \in Cells
  <2>1. \A i \in 1..size : i \in 0..size
    OBVIOUS
  <2> QED BY <1>1, <2>1, FileIs DEF Cells
<1>3. [i \in 1..size |-> FcbAt(d, i)] \in Seq(Cells)
        /\ Len([i \in 1..size |-> FcbAt(d, i)]) = size
  BY <1>2
<1>4. t \in Seq(Cells) /\ Len(t) = size
  BY <1>1, <1>3
<1>5. FcbAt(d, 0) = RootFcb(d) /\ FcbAt(d, 0).file_size = size
  BY <1>1, SoundFacts DEF Size
<1>6. ASSUME NEW j \in 1..size PROVE Cell(d, FcbAt(d, 0), j - 1) = t[j]
  <2>1. j \in Nat \ {0}
    OBVIOUS
  <2> QED BY <1>1, <1>5, <2>1, EntryIs
<1> QED BY <1>1, <1>4, <1>5, <1>6 DEF Holds

Created(d, u, e, v, ws, n) ==
  /\ Sound(e, v) /\ u \subseteq v
  /\ Entered(d, e, ws, FcbAt(e, 0), n) /\ Successor(FcbAt(d, 0), FcbAt(e, 0))
  /\ \A j \in 0..Size(d) : SameChain(d, e, FcbAt(d, j))
  /\ \A j \in 1..Size(d) : SameEnd(d, e, FcbAt(d, j)) /\ SameCells(d, e, FcbAt(d, j))
  /\ \A s \in Sectors : s \notin v => e[s] = d[s]

LEMMA InsertedRoot ==
  ASSUME NEW d, NEW u, Sound(d, u), NEW n, NewFile(d, u, n),
         NEW h, h.file = FcbAt(d, 0), h.path = RootPath, Insertable(d, h, <<n>>),
         Size(d) + 1 <= MaxSize,
         NEW fs, fs = Fs(d, u, h), NEW r, r = InsertedWhenGrown(fs, <<n>>)
  PROVE  \E e, k : /\ r = Fs(e, u, k) /\ Placed(e, k) /\ k.file = FcbAt(e, 0)
                   /\ k.path = RootPath /\ Created(d, u, e, u, h.write_seek, n)
<1>1. d \in Disks /\ 0 \in 0..Size(d) /\ u \in SUBSET Sectors /\ SECTOR_WITH_ROOT_FCB \in u
        /\ SECTOR_WITH_ROOT_FCB \in Sectors
  BY SoundFacts
<1>2. PICK c, k : /\ InsertedWhenGrown(fs, <<n>>) = Fs(store_file_cached(c, k), u, k)
                  /\ Wrote(d, h, c, k, <<n>>)
  BY <1>1, WrittenIs
<1>3. PICK f, ws : f = h.file /\ ws = h.write_seek
  OBVIOUS
<1>4. PICK size \in Nat : size = Size(d) /\ f.file_size = size /\ f = FcbAt(d, 0)
                            /\ RootFcb(d) = f
  BY <1>3, SoundFacts DEF Size
<1>5. ws \in 0..size /\ <<n>> \in Seq(Cells) /\ Len(<<n>>) = 1 /\ HasCells(f, size + 1)
        /\ ws \in Nat
  BY <1>3, <1>4 DEF Insertable
<1>6. PICK g : g = Sized(f, size + 1)
  OBVIOUS
<1>7. /\ Rewritten(d, c, f, ws, <<n>> \o Rest(d, f, ws))
      /\ At(c, k) /\ k.file = g /\ k.path = RootPath
      /\ k.read_seek <= size /\ k.write_seek = ws + 1
  BY <1>2, <1>3, <1>4, <1>5, <1>6 DEF Wrote
<1>8. /\ c \in Disks /\ Links(c) /\ RootFcb(c) = RootFcb(d)
      /\ \A q : q.sector_count \in Nat => SameChain(d, c, q) /\ SameEnd(d, c, q)
      /\ \A q : Chained(d, q) /\ Apart(d, q, FcbAt(d, 0)) => SameCells(d, c, q)
      /\ \A s \in Sectors : s \notin u => c[s] = d[s]
  BY <1>1, <1>4, <1>7, RewrittenKeeps
<1>9. PICK e : e = store_file_cached(c, k)
  OBVIOUS
<1>10. e \in Disks /\ Links(e) /\ RootFcb(e) = g /\ RootOnly(c, e)
  <2>1. k \in Handle
    BY <1>7 DEF At
  <2> QED BY <1>7, <1>8, <1>9, <2>1, RootStored
<1>11. \A s \in Sectors : s \in u \ {SECTOR_WITH_ROOT_FCB} => e[s] = c[s]
  BY <1>10 DEF RootOnly
<1>12. \A q : Well(d, u, q) =>
         /\ SameChain(d, c, q) /\ SameEnd(d, c, q) /\ Well(c, u, q) /\ q.sector_count \in Nat
         /\ SameChain(c, e, q) /\ SameEnd(c, e, q) /\ SameCells(c, e, q)
  <2> SUFFICES ASSUME NEW q, Well(d, u, q)
               PROVE  /\ SameChain(d, c, q) /\ SameEnd(d, c, q) /\ Well(c, u, q)
                      /\ q.sector_count \in Nat
                      /\ SameChain(c, e, q) /\ SameEnd(c, e, q) /\ SameCells(c, e, q)
    OBVIOUS
  <2>1. q.sector_count \in Nat
    BY WellCounts
  <2>2. SameChain(d, c, q) /\ SameEnd(d, c, q)
    BY <1>8, <2>1
  <2>3. Well(c, u, q)
    BY <2>2, WellKept
  <2> QED BY <1>1, <1>11, <2>1, <2>2, <2>3, Untouched
<1>13. \A q : Well(d, u, q) => SameChain(d, e, q) /\ SameEnd(d, e, q)
  BY <1>12 DEF SameChain, SameEnd
<1>14. Fit(d, u, 0, g) /\ Successor(f, g) /\ Well(d, u, g)
  <2>1. size + 1 \in 0..MaxSize
    BY <1>4, Constants
  <2> QED BY <1>1, <1>4, <1>5, <1>6, <2>1, SizedFit DEF Fit
<1>15. g.file_size = size + 1 /\ g.first_sector = f.first_sector
         /\ g.sector_count = f.sector_count
  <2>1. f \in Fcbs
    BY <1>1, <1>4, FileIs
  <2>2. size + 1 \in Int
    OBVIOUS
  <2> QED BY <1>6, <2>1, <2>2, SizedIs
<1>16. Apart(d, g, n)
  <2>1. Apart(d, n, f)
    BY <1>1, <1>4 DEF NewFile
  <2>2. \A x : Sec(d, g, x) = Sec(d, f, x)
    BY <1>15, SameFirst
  <2> QED BY <1>15, <2>1, <2>2 DEF Apart
<1>17. Entered(d, e, ws, g, n)
  <2>1. PICK t : t = [i \in 1..Size(d) |-> FcbAt(d, i)]
    OBVIOUS
  <2>2. t \in Seq(Cells) /\ Len(t) = size /\ Holds(d, f, t)
    BY <1>4, <2>1, RootHolds
  <2>3. f.sector_count \in Nat
    BY <1>1, <1>4, FileIs
  <2>4. HoldsFirst(c, f, Ins(t, ws, <<n>>), size + 1)
    <3>1. size + 1 \in Nat /\ size + 1 = f.file_size + Len(<<n>>) /\ ws \in 0..f.file_size
            /\ f.file_size \in Nat /\ HasCells(f, f.file_size + Len(<<n>>))
      BY <1>4, <1>5
    <3> QED BY <1>1, <1>5, <1>7, <2>2, <2>3, <3>1, InsertHolds
  <2>5. \A j \in 1..(size + 1) : Cell(c, f, j - 1) = InsAt(t, ws, <<n>>, j)
    <3>1. \A j \in 1..(size + 1) : Cell(c, f, j - 1) = Ins(t, ws, <<n>>)[j]
      BY <2>4 DEF HoldsFirst
    <3>2. \A j \in 1..(size + 1) : Ins(t, ws, <<n>>)[j] = InsAt(t, ws, <<n>>, j)
      BY <1>5, <2>2, InsIs
    <3> QED BY <3>1, <3>2
  <2>6. ASSUME NEW j \in 1..(size + 1) PROVE FcbAt(e, j) = InsAt(t, ws, <<n>>, j)
    <3>1. j - 1 \in Nat /\ j - 1 < size + 1 /\ j \in Nat \ {0} /\ size + 1 \in Nat
      OBVIOUS
    <3>2. HasCells(g, size + 1) /\ g.sector_count \in Nat
      BY <1>5, <1>15, <2>3 DEF HasCells
    <3>3. NTH_BLOCK(j - 1) < g.sector_count
      BY <3>1, <3>2, EntryInChain
    <3>4. Cell(e, g, j - 1) = Cell(c, g, j - 1)
      BY <1>12, <1>14, <3>1, <3>3 DEF SameCells
    <3>5. Cell(c, g, j - 1) = Cell(c, f, j - 1)
      BY <1>15, SameFirst
    <3>6. FcbAt(e, j) = Cell(e, g, j - 1)
      BY <1>10, <3>1, EntryIs
    <3> QED BY <2>5, <3>4, <3>5, <3>6
  <2>7. FcbAt(e, ws + 1) = n
    <3>1. ws + 1 \in 1..(size + 1)
      BY <1>5
    <3>2. InsAt(t, ws, <<n>>, ws + 1) = <<n>>[1]
      BY <1>5 DEF InsAt
    <3> QED BY <2>6, <3>1, <3>2
  <2>8. ASSUME NEW j \in 1..(size + 1), j # ws + 1 PROVE FcbAt(e, j) = FcbAt(d, OldAt(ws, j))
    <3>1. InsAt(t, ws, <<n>>, j) = t[OldAt(ws, j)]
      BY <1>5, <2>8 DEF InsAt, OldAt
    <3>2. OldAt(ws, j) \in 1..size
      BY <1>5, <2>8, Shifts
    <3> QED BY <1>4, <2>1, <2>6, <3>1, <3>2
  <2>9. Size(e) = size + 1 /\ FcbAt(e, 0) = g
    BY <1>10, <1>15 DEF Size, FcbAt
  <2> QED BY <1>4, <2>7, <2>8, <2>9 DEF Entered
<1>18. Sound(e, u)
  BY <1>4, <1>5, <1>10, <1>13, <1>14, <1>16, <1>17, EnteredSound
<1>19. \A j \in 0..Size(d) : SameChain(d, e, FcbAt(d, j)) /\ SameEnd(d, e, FcbAt(d, j))
  BY <1>13, SoundFacts
<1>20. ASSUME NEW j \in 1..Size(d) PROVE SameCells(d, e, FcbAt(d, j))
  <2>1. j \in 0..Size(d) /\ j # 0
    OBVIOUS
  <2>2. Chained(d, FcbAt(d, j)) /\ Well(d, u, FcbAt(d, j)) /\ Apart(d, FcbAt(d, j), FcbAt(d, 0))
    BY <1>1, <2>1, SoundFacts DEF Sound
  <2>3. SameCells(d, c, FcbAt(d, j)) /\ SameCells(c, e, FcbAt(d, j))
    BY <1>8, <1>12, <2>2
  <2> QED BY <2>3 DEF SameCells
<1>21. \A s \in Sectors : s \notin u => e[s] = d[s]
  BY <1>1, <1>8, <1>10 DEF RootOnly
<1>22. Placed(e, k)
  <2>1. At(e, k)
    <3>1. InFile(k)
      BY <1>5, <1>7, <1>15, HandleIs DEF InFile, At
    <3>2. Within(g)
      BY <1>14, WellWithin
    <3> QED BY <1>7, <1>12, <1>14, <3>1, <3>2, AtToEnd
  <2>2. k.file.file_size = size + 1 /\ k.write_seek <= size + 1 /\ size + 1 <= MaxSize
    BY <1>4, <1>5, <1>7, <1>15
  <2> QED BY <1>7, <2>1, <2>2, PlacedIs
<1>23. Created(d, u, e, u, ws, n)
  <2>1. \A j \in 1..Size(d) : j \in 0..Size(d)
    OBVIOUS
  <2>2. FcbAt(e, 0) = g
    BY <1>17 DEF Entered
  <2> QED BY <1>4, <1>14, <1>17, <1>18, <1>19, <1>20, <1>21, <2>1, <2>2 DEF Created
<1> QED BY <1>2, <1>3, <1>7, <1>9, <1>17, <1>22, <1>23 DEF Entered

(* The FCB of an empty file describes the one sector it was given. *)
LEMMA OneSector ==
  ASSUME NEW name \in Names, NEW v \in SUBSET Sectors, NEW first \in v \ {SECTOR_WITH_ROOT_FCB},
         NEW n, n = Fcb(name, first, 0), NEW d
  PROVE  /\ n \in Fcbs /\ n.file_name = name /\ n.file_size = 0 /\ n.sector_count = 1
         /\ Well(d, v, n)
         /\ \A f : (\A k \in 0..(f.sector_count - 1) : Sec(d, f, k) # first) => Apart(d, n, f)
<1>1. first \in Int
  BY DEF Sectors
<1>2. /\ n \in Fcbs /\ n.file_name = name /\ n.file_size = 0 /\ n.sector_count = 1
      /\ n.first_sector = first /\ n.last_sector = first
  BY <1>1 DEF Fcb, Fcbs
<1>3. Sec(d, n, 0) = first
  BY <1>2, SecZero
<1>4. \A k \in 0..(n.sector_count - 1) : k = 0
  BY <1>2
<1>5. Well(d, v, n)
  <2>1. n.file_size \in 0..MaxSize /\ n.file_size <= n.sector_count * BLOCK
    BY <1>2, Constants
  <2>2. n.sector_count - 1 = 0 /\ n.sector_count \in Nat \ {0}
    BY <1>2
  <2> QED BY <1>2, <1>3, <1>4, <2>1, <2>2 DEF Well
<1>6. \A f : (\A k \in 0..(f.sector_count - 1) : Sec(d, f, k) # first) => Apart(d, n, f)
  BY <1>3, <1>4 DEF Apart
<1> QED BY <1>2, <1>5, <1>6

(* The first sector of the new file is cleared. *)
Clears(d, first, e) == e = write_disk(d, first, [EmptyBlock EXCEPT !.next = Mistyped])

LEMMA Cleared ==
  ASSUME NEW d, NEW u, Sound(d, u), NEW first \in 0..(SWAP_START - 1), first \notin u,
         NEW e, Clears(d, first, e)
  PROVE  /\ e \in Disks /\ Links(e) /\ UsedSame(d, e, u)
         /\ \A s \in Sectors : s # first => e[s] = d[s]
<1>1. PICK b : b = [EmptyBlock EXCEPT !.next = Mistyped]
  OBVIOUS
<1>2. b \in Blocks /\ b.next = Mistyped
  BY <1>1, EmptyIsBlock DEF Blocks, Mistyped
<1>3. first \in Sectors /\ first < SWAP_START
  BY Constants DEF Sectors
<1>4. e = [d EXCEPT ![first] = b]
  BY <1>1, <1>3 DEF write_disk, Clears
<1>5. d \in Disks /\ u \in SUBSET Sectors
  BY SoundFacts
<1>6. e \in Disks /\ e[first] = b /\ \A s \in Sectors : s # first => e[s] = d[s]
  BY <1>2, <1>3, <1>4, <1>5 DEF Disks
<1>7. Links(e)
  <2>1. Links(d)
    BY DEF Sound
  <2> QED BY <1>2, <1>3, <1>6, <2>1 DEF Links
<1>8. UsedSame(d, e, u)
  BY <1>6 DEF UsedSame
<1> QED BY <1>6, <1>7, <1>8

LEMMA PlacedAt ==
  ASSUME NEW d, NEW h
  PROVE  /\ Placed(d, h) => At(d, h) /\ InFile(h)
         /\ \A e : Placed(d, h) /\ At(e, h) => Placed(e, h)
BY DEF Placed, At, InFile

(* The chain of the directory, grown, does not meet the new file. *)
LEMMA GrownApart ==
  ASSUME NEW d, NEW e, NEW f, NEW g, f.sector_count \in Nat, NEW u, NEW first \in u,
         SameChain(d, e, f), Successor(f, g), GrownBy(u, f, g),
         \A k \in 0..(f.sector_count - 1) : Sec(d, f, k) # first,
         Sec(e, g, g.sector_count - 1) = g.last_sector
  PROVE  \A k \in 0..(g.sector_count - 1) : Sec(e, g, k) # first
<1> SUFFICES ASSUME NEW k \in 0..(g.sector_count - 1) PROVE Sec(e, g, k) # first
  OBVIOUS
<1>1. Sec(e, g, k) = Sec(e, f, k)
  BY SameFirst DEF Successor
<1>2. CASE k \in 0..(f.sector_count - 1)
  BY <1>1, <1>2 DEF SameChain
<1>3. CASE k \notin 0..(f.sector_count - 1)
  <2>1. g.sector_count = f.sector_count + 1 /\ g.last_sector \notin u
    BY <1>3 DEF GrownBy
  <2>2. k = g.sector_count - 1
    BY <1>3, <2>1
  <2> QED BY <2>1, <2>2
<1> QED BY <1>2, <1>3

(* What a client of the root does when it creates a file. *)
Creates(d, h) ==
  /\ Placed(d, h) /\ h.file = FcbAt(d, 0) /\ h.path = RootPath /\ Covered(h.file)
  /\ Size(d) + 1 <= MaxSize
  /\ InTwoSectors(h.write_seek, h.file.file_size - h.write_seek + 1)

LEMMA CreatesWrites ==
  ASSUME NEW d, NEW u, Sound(d, u), NEW h, Creates(d, h), NEW n \in Fcbs
  PROVE  Writes(d, h, FcbAt(d, 0), <<n>>)
<1>1. <<n>> \in Seq(Cells) /\ Len(<<n>>) = 1
  BY DEF Cells
<1>2. h.file = FcbAt(d, 0) /\ FcbAt(d, 0).file_size = Size(d)
  BY SoundFacts DEF Size, Creates
<1>3. FcbAt(d, 0).file_size + Len(<<n>>) <= MaxSize
  BY <1>1, <1>2 DEF Creates
<1>4. InTwoSectors(h.write_seek, FcbAt(d, 0).file_size - h.write_seek + Len(<<n>>))
  BY <1>1, <1>2, Zenon DEF Creates
<1>5. Len(<<n>>) > 0
  BY <1>1
<1> QED BY <1>1, <1>2, <1>3, <1>4, <1>5 DEF Writes, Creates

LEMMA ChainTransitive ==
  ASSUME NEW d, NEW e, NEW c, NEW f, NEW g, f.sector_count \in Nat, g.sector_count \in Nat,
         Successor(f, g), SameChain(d, e, f), SameChain(e, c, g)
  PROVE  SameChain(d, c, f)
<1> SUFFICES ASSUME NEW k \in 0..(f.sector_count - 1) PROVE Sec(c, f, k) = Sec(d, f, k)
  BY DEF SameChain
<1>1. k \in 0..(g.sector_count - 1)
  BY DEF Successor
<1>2. Sec(c, g, k) = Sec(e, g, k)
  BY <1>1 DEF SameChain
<1>3. Sec(c, g, k) = Sec(c, f, k) /\ Sec(e, g, k) = Sec(e, f, k)
  BY SameFirst DEF Successor
<1> QED BY <1>2, <1>3 DEF SameChain

(* The steps of sys_create put together: e is what clearing the new file's *)
(* sector leaves of d, c what growing the directory leaves of e.           *)
LEMMA CreatedAfter ==
  ASSUME NEW d, NEW u, Sound(d, u), NEW e, NEW w, u \subseteq w, Sound(e, w), Size(e) = Size(d),
         \A j \in 0..Size(d) : FcbAt(e, j) = FcbAt(d, j) /\ SameChain(d, e, FcbAt(d, j))
              /\ SameEnd(d, e, FcbAt(d, j)) /\ SameCells(d, e, FcbAt(d, j)),
         \A s \in Sectors : s \notin w => e[s] = d[s],
         NEW c, NEW v, NEW g, Step(e, w, c, v, 0, g),
         NEW b, NEW ws \in 0..Size(d), NEW n, Created(c, v, b, v, ws, n)
  PROVE  Created(d, u, b, v, ws, n)
<1>1. PICK size \in Nat : size = Size(d) /\ size = Size(e) /\ size = Size(c) /\ ws \in 0..size
  BY SoundFacts DEF Step
<1>2. /\ u \subseteq v /\ \A s \in Sectors : s \notin v => b[s] = d[s]
  BY DEF Step, Created
<1>3. ASSUME NEW j \in 1..size
      PROVE  /\ FcbAt(c, j) = FcbAt(d, j) /\ SameChain(d, b, FcbAt(d, j))
             /\ SameEnd(d, b, FcbAt(d, j)) /\ SameCells(d, b, FcbAt(d, j))
  <2>1. j \in 0..size /\ j # 0
    OBVIOUS
  <2>2. PICK f : f = FcbAt(d, j) /\ f = FcbAt(e, j) /\ f = FcbAt(c, j)
    BY <1>1, <2>1 DEF Step
  <2>3. SameChain(d, e, f) /\ SameEnd(d, e, f) /\ SameCells(d, e, f)
    BY <1>1, <2>1, <2>2
  <2>4. SameChain(e, c, f) /\ SameEnd(e, c, f) /\ SameCells(e, c, f)
    BY <1>1, <2>1, <2>2 DEF Step
  <2>5. SameChain(c, b, f) /\ SameEnd(c, b, f) /\ SameCells(c, b, f)
    BY <1>1, <2>1, <2>2 DEF Created
  <2>6. SameChain(d, b, f)
    BY <2>3, <2>4, <2>5 DEF SameChain
  <2>7. SameEnd(d, b, f)
    BY <2>3, <2>4, <2>5 DEF SameEnd
  <2>8. SameCells(d, b, f)
    BY <2>3, <2>4, <2>5 DEF SameCells
  <2> QED BY <2>2, <2>6, <2>7, <2>8
<1>4. PICK f, q : f = FcbAt(d, 0) /\ q = FcbAt(b, 0)
  OBVIOUS
<1>5. f = FcbAt(e, 0) /\ SameChain(d, e, f) /\ SameChain(e, c, f) /\ SameChain(c, b, g)
        /\ g = FcbAt(c, 0) /\ Successor(f, g) /\ Successor(g, q)
  BY <1>1, <1>4, SoundFacts DEF Step, Created, Successor
<1>6. f.sector_count \in Nat /\ g.sector_count \in Nat /\ q.sector_count \in Nat
  <2>1. Sound(c, v) /\ Sound(b, v)
    BY DEF Step, Created
  <2>2. 0 \in 0..Size(d) /\ 0 \in 0..Size(c) /\ 0 \in 0..Size(b)
    BY <2>1, SoundFacts
  <2> QED BY <1>4, <1>5, <2>1, <2>2, FileIs
<1>7. SameChain(d, b, f)
  <2>1. SameChain(d, c, f)
    BY <1>5 DEF SameChain
  <2> QED BY <1>5, <1>6, <2>1, ChainTransitive
<1>8. Successor(f, q)
  BY <1>5, <1>6 DEF Successor
<1>9. Entered(d, b, ws, q, n)
  <2>1. /\ Size(b) = size + 1 /\ FcbAt(b, 0) = q /\ FcbAt(b, ws + 1) = n
        /\ \A j \in 1..(size + 1) : j # ws + 1 => FcbAt(b, j) = FcbAt(c, OldAt(ws, j))
    BY <1>1, <1>4 DEF Created, Entered
  <2>2. \A j \in 1..(size + 1) : j # ws + 1 => FcbAt(c, OldAt(ws, j)) = FcbAt(d, OldAt(ws, j))
    BY <1>1, <1>3, Shifts
  <2> QED BY <1>1, <2>1, <2>2 DEF Entered
<1>10. \A j \in 0..size : SameChain(d, b, FcbAt(d, j))
  <2>1. \A j \in 0..size : j = 0 \/ j \in 1..size
    OBVIOUS
  <2> QED BY <1>3, <1>4, <1>7, <2>1
<1> QED BY <1>1, <1>2, <1>3, <1>4, <1>8, <1>9, <1>10 DEF Created

Single(buf, n) == buf = <<n>>

RootCreates(d, u, h, n, r) ==
  \E b, v, k : /\ r = Fs(b, v, k) /\ Placed(b, k) /\ k.file = FcbAt(b, 0)
               /\ k.path = RootPath /\ Created(d, u, b, v, h.write_seek, n)

LEMMA FileCreated ==
  ASSUME SWAP_START < NSectors, NEW d, NEW u, Sound(d, u), NEW h, Creates(d, h),
         NEW name \in Names, NEW first, first = file_alloc(u),
         NEW e, Clears(d, first, e),
         NEW n, n = Fcb(name, first, 0), NEW w, w = u \cup {first},
         NEW buf, Single(buf, n), NEW fs, fs = Fs(e, w, h), NEW r, r = sys_write(fs, buf),
         r.used \subseteq 0..(SWAP_START - 1)
  PROVE  RootCreates(d, u, h, n, r)
<1>1. first \in Sectors /\ first \notin u
  <2>1. SWAP_START \in Sectors /\ SWAP_START \notin u /\ u \in SUBSET Sectors
    BY Constants, SoundFacts DEF Sectors, Sound
  <2> QED BY <2>1, AllocIs
<1>2. /\ d \in Disks /\ 0 \in 0..Size(d) /\ u \in SUBSET Sectors /\ SECTOR_WITH_ROOT_FCB \in u
      /\ u \subseteq 0..(SWAP_START - 1)
  BY SoundFacts DEF Sound
<1>3. first \in w \ {SECTOR_WITH_ROOT_FCB} /\ w \in SUBSET Sectors /\ u \subseteq w
  BY <1>1, <1>2
<1>4. n \in Fcbs
  BY <1>3, OneSector
<1>5. PICK f : f = FcbAt(d, 0)
  OBVIOUS
<1>6. Writes(d, h, f, buf)
  BY <1>4, <1>5, CreatesWrites DEF Single
<1>7. /\ h \in Handle /\ h.file = f /\ Len(buf) \in Nat /\ NeedsOne(f, Len(buf))
      /\ f.file_size \in Nat /\ f.sector_count \in Nat /\ Covered(f)
  BY <1>6, WritesIs
<1>8. PICK s : s = Grown(fs, Len(buf))
  OBVIOUS
<1>9. s.used = r.used /\ w \subseteq r.used
  BY <1>7, <1>8, WriteUses
<1>10. first \in 0..(SWAP_START - 1) /\ w \subseteq 0..(SWAP_START - 1)
  BY <1>3, <1>9
<1>11. /\ e \in Disks /\ Links(e) /\ UsedSame(d, e, u)
       /\ \A x \in Sectors : x # first => e[x] = d[x]
  BY <1>1, <1>10, Cleared
<1>12. /\ Sound(e, w) /\ Size(e) = Size(d)
       /\ \A j \in 0..Size(d) : FcbAt(e, j) = FcbAt(d, j) /\ SameChain(d, e, FcbAt(d, j))
            /\ SameEnd(d, e, FcbAt(d, j)) /\ SameCells(d, e, FcbAt(d, j))
  BY <1>3, <1>10, <1>11, StepElsewhere
<1>13. Writes(e, h, f, buf)
  <2>1. At(d, h) /\ InFile(h) /\ Covered(h.file) /\ SameChain(d, e, h.file)
    BY <1>2, <1>5, <1>6, <1>7, <1>12, WritesIs
  <2>2. At(e, h)
    BY <2>1, AtKept
  <2>3. Placed(e, h)
    BY <1>6, <2>2, PlacedAt DEF Writes
  <2> QED BY <1>6, <2>3 DEF Writes
<1>14. \A j \in 0..Size(d), k \in Nat :
         k \in 0..(FcbAt(d, j).sector_count - 1) => Sec(e, FcbAt(d, j), k) # first
  <2>1. \A j \in 0..Size(d), k \in Nat :
          k \in 0..(FcbAt(d, j).sector_count - 1) => Sec(d, FcbAt(d, j), k) \in u
    BY SoundFacts DEF Well
  <2> QED BY <1>1, <1>12, <2>1 DEF SameChain
<1>15. f = FcbAt(e, 0)
  BY <1>2, <1>5, <1>12
<1>16. PICK g : GrownTo(e, w, 0, h, s, g, Len(buf)) /\ GrownBy(w, f, g)
  <2>1. fs = [disk |-> e, used |-> w, h |-> h]
    BY DEF Fs
  <2>2. h.path = RootPath
    BY DEF Creates
  <2>3. s.used \subseteq 0..(SWAP_START - 1)
    BY <1>9
  <2>4. PICK m \in Nat : m = Len(buf)
    BY <1>7
  <2>5. NeedsOne(h.file, m) /\ h \in Handle /\ h.file = FcbAt(e, 0) /\ s = Grown(fs, m)
    BY <1>7, <1>8, <1>15, <2>4
  <2>6. \E g : GrownTo(e, w, 0, h, s, g, m) /\ GrownBy(w, h.file, g)
    BY <1>12, <2>1, <2>2, <2>3, <2>5, GrownRoot
  <2> QED BY <1>7, <2>4, <2>6
<1>17. PICK c, v, l : c = s.disk /\ v = s.used /\ l = PutFile(h, g)
  OBVIOUS
<1>18. s = Fs(c, v, l)
  BY <1>16, <1>17 DEF GrownTo, Result, Fs
<1>19. /\ Step(e, w, c, v, 0, g) /\ g.file_size = f.file_size
       /\ SectorsFor(f.file_size + Len(buf)) <= g.sector_count
  BY <1>7, <1>16, <1>17 DEF GrownTo
<1>20. /\ Sound(c, v) /\ Size(c) = Size(d) /\ FcbAt(c, 0) = g /\ Successor(f, g)
       /\ SameChain(e, c, f) /\ w \subseteq v
  BY <1>2, <1>12, <1>15, <1>19 DEF Step, Successor
<1>21. Well(c, v, g) /\ v \in SUBSET Sectors /\ 0 \in 0..Size(c)
  BY <1>20, SoundFacts
<1>22. NewFile(c, v, n)
  <2>1. first \in v \ {SECTOR_WITH_ROOT_FCB}
    BY <1>3, <1>20
  <2>2. Well(c, v, n) /\ \A q : (\A k \in 0..(q.sector_count - 1) : Sec(c, q, k) # first)
                                  => Apart(c, n, q)
    BY <1>21, <2>1, OneSector
  <2>3. \A k \in 0..(g.sector_count - 1) : Sec(c, g, k) # first
    <3>1. \A k \in 0..(f.sector_count - 1) : Sec(e, f, k) # first
      BY <1>2, <1>5, <1>7, <1>14
    <3>2. Sec(c, g, g.sector_count - 1) = g.last_sector
      BY <1>21 DEF Well
    <3> QED BY <1>3, <1>7, <1>16, <1>20, <3>1, <3>2, GrownApart
  <2>4. ASSUME NEW j \in 0..Size(c), j # 0, NEW k \in 0..(FcbAt(c, j).sector_count - 1)
        PROVE  Sec(c, FcbAt(c, j), k) # first
    <3>1. FcbAt(c, j) = FcbAt(d, j) /\ SameChain(e, c, FcbAt(d, j)) /\ j \in 0..Size(d)
      BY <1>12, <1>19, <1>20, <2>4 DEF Step
    <3>2. k \in Nat
      BY <1>20, FileIs
    <3> QED BY <1>14, <2>4, <3>1, <3>2 DEF SameChain
  <2>5. \A j \in 0..Size(c) : Apart(c, n, FcbAt(c, j))
    BY <1>20, <2>2, <2>3, <2>4
  <2> QED BY <2>2, <2>5 DEF NewFile
<1>23. /\ Insertable(c, l, buf) /\ l.file = g /\ l.path = h.path
       /\ l.write_seek = h.write_seek /\ l \in Handle
  BY <1>13, <1>17, <1>19, <1>20, <1>21, GrownInsertable
<1>24. r = InsertedWhenGrown(s, buf)
  BY <1>8, Zenon DEF sys_write
<1>25. PICK b, k : /\ r = Fs(b, v, k) /\ Placed(b, k) /\ k.file = FcbAt(b, 0)
                   /\ k.path = RootPath /\ Created(c, v, b, v, l.write_seek, n)
  <2>1. l.path = RootPath /\ Size(c) + 1 <= MaxSize
    BY <1>20, <1>23 DEF Creates
  <2> QED BY <1>18, <1>20, <1>22, <1>23, <1>24, <2>1, InsertedRoot DEF Single
<1>26. Created(d, u, b, v, h.write_seek, n)
  <2>1. h.write_seek \in 0..Size(d)
    <3>1. Size(d) = f.file_size
      BY <1>5, SoundFacts DEF Size
    <3> QED BY <1>6, <3>1, WritesIs
  <2>2. \A x \in Sectors : x \notin w => e[x] = d[x]
    BY <1>3, <1>11
  <2>3. PICK ws \in 0..Size(d) : ws = h.write_seek
    BY <2>1
  <2>4. Created(c, v, b, v, ws, n)
    BY <1>23, <1>25, <2>3
  <2>5. Created(d, u, b, v, ws, n)
    BY <1>3, <1>12, <1>19, <2>2, <2>4, CreatedAfter
  <2> QED BY <2>3, <2>5
<1> QED BY <1>25, <1>26 DEF RootCreates
-----------------------------------------------------------------------------
(* Handles after a change of the disk *)

Held(d, h) == Placed(d, h) /\ \E i \in 0..Size(d) : OpenOn(h, FcbAt(d, i), i)

(* File i of d is file j of e; either its FCB is the same or it had the    *)
(* sectors that sys_write counts on.                                       *)
Becomes(d, e, i, j) ==
  /\ SameChain(d, e, FcbAt(d, i)) /\ Successor(FcbAt(d, i), FcbAt(e, j))
  /\ \/ FcbAt(e, j) = FcbAt(d, i) /\ SameEnd(d, e, FcbAt(d, i))
     \/ Covered(FcbAt(d, i))
  /\ i = 0 <=> j = 0

LEMMA OlderCovered ==
  ASSUME NEW d, NEW h, Placed(d, h), SectorsFor(h.file.file_size) <= h.file.sector_count
  PROVE  Covered(h.file)
<1>1. h.file.file_size \in Nat /\ h.file.sector_count \in Int
  BY HandleIs DEF Placed, Fcbs
<1>2. SectorsFor(h.file.file_size) \in Nat
  BY <1>1, Position DEF SectorsFor
<1>3. h.file.sector_count \in Nat
  BY <1>1, <1>2
<1> QED BY <1>1, <1>3 DEF Covered

LEMMA HeldKept ==
  ASSUME NEW d, NEW u, Sound(d, u), NEW e, NEW v, Sound(e, v),
         NEW i \in 0..Size(d), NEW j \in 0..Size(e), Becomes(d, e, i, j),
         NEW h, Placed(d, h), OpenOn(h, FcbAt(d, i), i)
  PROVE  Held(e, h)
<1>1. PICK f, g : f = FcbAt(d, i) /\ g = FcbAt(e, j)
  OBVIOUS
<1>2. At(d, h) /\ InFile(h) /\ \A c : At(c, h) => Placed(c, h)
  BY PlacedAt
<1>3. Well(d, u, f) /\ f.sector_count \in Nat /\ g.sector_count \in Nat /\ Within(f)
  BY <1>1, SoundFacts, FileIs, WellWithin
<1>4. SameChain(d, e, f) /\ Successor(f, g)
  BY <1>1 DEF Becomes
<1>5. Placed(e, h) /\ Older(h.file, g)
  <2>1. CASE h.file = f /\ g = f /\ SameEnd(d, e, f)
    <3>1. At(e, h)
      BY <1>2, <1>3, <1>4, <2>1, AtToEnd
    <3> QED BY <1>2, <2>1, <3>1 DEF Older
  <2>2. CASE h.file = f /\ Covered(f)
    <3>1. At(e, h)
      BY <1>2, <1>4, <2>2, AtKept
    <3> QED BY <1>2, <1>4, <2>2, <3>1 DEF Older, Successor, Covered
  <2>3. CASE h.file # f
    <3>1. /\ SectorsFor(h.file.file_size) <= h.file.sector_count
          /\ h.file.sector_count <= f.sector_count
          /\ h.file.first_sector = f.first_sector
      BY <1>1, <2>3 DEF OpenOn, Older
    <3>2. Covered(h.file)
      BY <3>1, OlderCovered
    <3>3. SameChain(d, e, h.file)
      <4> SUFFICES ASSUME NEW k \in 0..(h.file.sector_count - 1)
                   PROVE  Sec(e, h.file, k) = Sec(d, h.file, k)
        BY DEF SameChain
      <4>1. k \in 0..(f.sector_count - 1)
        BY <1>3, <3>1, <3>2 DEF Covered
      <4>2. Sec(e, f, k) = Sec(d, f, k)
        BY <1>4, <4>1 DEF SameChain
      <4> QED BY <3>1, <4>2, SameFirst
    <3>4. At(e, h)
      BY <1>2, <3>2, <3>3, AtKept
    <3>5. h.file.sector_count <= g.sector_count /\ h.file.first_sector = g.first_sector
      BY <1>3, <1>4, <3>1, <3>2 DEF Successor, Covered
    <3> QED BY <1>2, <3>1, <3>4, <3>5 DEF Older
  <2> QED BY <1>1, <2>1, <2>2, <2>3 DEF Becomes
<1>6. OpenOn(h, g, j)
  BY <1>1, <1>4, <1>5 DEF OpenOn, Becomes, Successor
<1> QED BY <1>1, <1>5, <1>6 DEF Held

AllHeld(d, e) == \A h : Held(d, h) => Held(e, h)

LEMMA HeldAfterStep ==
  ASSUME NEW d, NEW u, Sound(d, u), NEW e, NEW v, NEW i \in 0..Size(d), NEW g,
         Step(d, u, e, v, i, g), Covered(FcbAt(d, i))
  PROVE  AllHeld(d, e)
<1> SUFFICES ASSUME NEW h, Held(d, h) PROVE Held(e, h)
  BY DEF AllHeld
<1>1. PICK j \in 0..Size(d) : Placed(d, h) /\ OpenOn(h, FcbAt(d, j), j)
  BY DEF Held
<1>2. Sound(e, v) /\ j \in 0..Size(e)
  BY DEF Step
<1>3. Becomes(d, e, j, j)
  <2>1. SameChain(d, e, FcbAt(d, j))
    BY DEF Step
  <2>2. CASE j = i
    BY <2>1, <2>2 DEF Step, Becomes, Successor
  <2>3. CASE j # i
    <3>1. FcbAt(e, j) = FcbAt(d, j) /\ SameEnd(d, e, FcbAt(d, j))
      BY <2>3 DEF Step
    <3>2. FcbAt(d, j).sector_count \in Nat
      BY FileIs
    <3> QED BY <2>1, <3>1, <3>2 DEF Becomes, Successor
  <2> QED BY <2>2, <2>3
<1> QED BY <1>1, <1>2, <1>3, HeldKept

LEMMA HeldAfterCreate ==
  ASSUME NEW d, NEW u, Sound(d, u), NEW e, NEW v, NEW ws \in 0..Size(d), NEW n,
         Created(d, u, e, v, ws, n), Covered(FcbAt(d, 0))
  PROVE  AllHeld(d, e)
<1> SUFFICES ASSUME NEW h, Held(d, h) PROVE Held(e, h)
  BY DEF AllHeld
<1>1. PICK i \in 0..Size(d) : Placed(d, h) /\ OpenOn(h, FcbAt(d, i), i)
  BY DEF Held
<1>2. PICK size \in Nat : size = Size(d) /\ Size(e) = size + 1
  BY SoundFacts DEF Created, Entered
<1>3. Sound(e, v) /\ SameChain(d, e, FcbAt(d, i))
  BY DEF Created
<1>4. CASE i = 0
  <2>1. Becomes(d, e, 0, 0)
    BY <1>3, <1>4 DEF Becomes, Created
  <2>2. 0 \in 0..Size(e)
    BY <1>2
  <2> QED BY <1>1, <1>3, <1>4, <2>1, <2>2, HeldKept
<1>5. CASE i # 0
  <2>1. i \in 1..size
    BY <1>2, <1>5
  <2>2. PICK j \in 1..(size + 1) : j = Shift(ws, i) /\ j # ws + 1 /\ OldAt(ws, j) = i
    <3>1. ws \in 0..size
      BY <1>2
    <3>2. Shift(ws, i) \in 1..(size + 1) /\ Shift(ws, i) # ws + 1 /\ OldAt(ws, Shift(ws, i)) = i
      BY <2>1, <3>1, Shifts
    <3> QED BY <3>2
  <2>3. FcbAt(e, j) = FcbAt(d, i) /\ SameEnd(d, e, FcbAt(d, i))
    BY <1>2, <2>1, <2>2 DEF Created, Entered
  <2>4. FcbAt(d, i).sector_count \in Nat
    BY FileIs
  <2>5. Becomes(d, e, i, j) /\ j \in 0..Size(e)
    BY <1>2, <1>3, <1>5, <2>2, <2>3, <2>4 DEF Becomes, Successor
  <2> QED BY <1>1, <1>3, <2>5, HeldKept
<1> QED BY <1>4, <1>5

(* Nothing has changed but free sectors. *)
Elsewhere(d, e, v) ==
  /\ Sound(e, v) /\ Size(e) = Size(d)
  /\ \A j \in 0..Size(d) : FcbAt(e, j) = FcbAt(d, j) /\ SameChain(d, e, FcbAt(d, j))
       /\ SameEnd(d, e, FcbAt(d, j)) /\ SameCells(d, e, FcbAt(d, j))

LEMMA HeldElsewhere ==
  ASSUME NEW d, NEW u, Sound(d, u), NEW e, NEW v, Elsewhere(d, e, v)
  PROVE  AllHeld(d, e)
<1> SUFFICES ASSUME NEW h, Held(d, h) PROVE Held(e, h)
  BY DEF AllHeld
<1>1. PICK i \in 0..Size(d) : Placed(d, h) /\ OpenOn(h, FcbAt(d, i), i)
  BY DEF Held
<1>2. FcbAt(d, i).sector_count \in Nat
  BY FileIs
<1>3. Becomes(d, e, i, i) /\ Sound(e, v) /\ i \in 0..Size(e)
  BY <1>2 DEF Elsewhere, Becomes, Successor
<1> QED BY <1>1, <1>3, HeldKept

LEMMA HandlesKept ==
  ASSUME NEW d, NEW e, AllHeld(d, e), NEW hs, Handles(d, hs)
  PROVE  /\ Handles(e, hs)
         /\ \A k : Held(e, k) => \A c \in Clients : Handles(e, [hs EXCEPT ![c] = k])
<1>1. hs = [c \in Clients |-> hs[c]]
        /\ \A c \in Clients : hs[c] = Closed \/ Held(d, hs[c])
  BY DEF Handles, Held
<1>2. \A c \in Clients : hs[c] = Closed \/ Held(e, hs[c])
  BY <1>1 DEF AllHeld
<1>3. Handles(e, hs)
  BY <1>1, <1>2 DEF Handles, Held
<1>4. ASSUME NEW c \in Clients, NEW k, Held(e, k) PROVE Handles(e, [hs EXCEPT ![c] = k])
  <2>1. PICK q : q = [hs EXCEPT ![c] = k]
    OBVIOUS
  <2>2. DOMAIN hs = Clients
    BY <1>1
  <2>3. q = [x \in Clients |-> IF x = c THEN k ELSE hs[x]]
    BY <2>1, <2>2
  <2>4. q = [x \in Clients |-> q[x]] /\ \A x \in Clients : q[x] = IF x = c THEN k ELSE hs[x]
    BY <2>3
  <2>5. \A x \in Clients : q[x] = Closed \/ Held(e, q[x])
    BY <1>2, <1>4, <2>4
  <2>6. Handles(e, q)
    BY <2>4, <2>5 DEF Handles, Held
  <2> QED BY <2>1, <2>6
<1> QED BY <1>3, <1>4
-----------------------------------------------------------------------------
(* Texts and the swap area after a change of the disk *)

LEMMA TextsAre ==
  ASSUME NEW d, NEW t, Texts(d, t)
  PROVE  /\ DOMAIN t \subseteq Names \cup {"usr"}
         /\ \A name \in DOMAIN t : t[name] \in Seq(Bytes \cup {Program}) /\ t[name] \in Seq(Cells)
         /\ \A i \in 1..Size(d) : FcbAt(d, i).file_name \in DOMAIN t
              /\ Holds(d, FcbAt(d, i), t[FcbAt(d, i).file_name])
         /\ \A i, j \in 1..Size(d) : FcbAt(d, i).file_name = FcbAt(d, j).file_name => i = j
         /\ \A name \in DOMAIN t : \E i \in 1..Size(d) : FcbAt(d, i).file_name = name
<1>1. \A name \in DOMAIN t : t[name] \in Seq(Bytes \cup {Program})
  BY DEF Texts
<1>2. Seq(Bytes \cup {Program}) \subseteq Seq(Cells)
  <2>1. Bytes \cup {Program} \subseteq Cells
    BY DEF Cells
  <2> QED BY <2>1
<1> QED BY <1>1, <1>2 DEF Texts

(* A file that no call has changed holds its text. *)
LEMMA HoldsSame ==
  ASSUME NEW d, NEW u, Sound(d, u), NEW i \in 0..Size(d), NEW e,
         SameCells(d, e, FcbAt(d, i)), NEW t, Holds(d, FcbAt(d, i), t)
  PROVE  Holds(e, FcbAt(d, i), t)
<1>1. PICK f : f = FcbAt(d, i)
  OBVIOUS
<1>2. f.sector_count \in Nat /\ f.file_size \in Nat /\ HasCells(f, f.file_size)
  BY <1>1, SoundFacts, WellWithin DEF Within
<1> QED BY <1>1, <1>2, HoldsKept

LEMMA TextsElsewhere ==
  ASSUME NEW d, NEW u, Sound(d, u), NEW e, NEW v, Elsewhere(d, e, v), NEW t, Texts(d, t)
  PROVE  Texts(e, t)
<1>1. \A i \in 1..Size(d) : i \in 0..Size(d)
  OBVIOUS
<1>2. \A i \in 1..Size(d) : FcbAt(e, i) = FcbAt(d, i) /\ SameCells(d, e, FcbAt(d, i))
  BY <1>1 DEF Elsewhere
<1>3. \A i \in 1..Size(d) : Holds(e, FcbAt(d, i), t[FcbAt(d, i).file_name])
  BY <1>1, <1>2, TextsAre, HoldsSame
<1>4. Size(e) = Size(d)
  BY DEF Elsewhere
<1> QED BY <1>2, <1>3, <1>4 DEF Texts

(* Texts whose file i has been written to. *)
NewText(t, name, x) == [t EXCEPT ![name] = x]

LEMMA NewTextIs ==
  ASSUME NEW t, NEW name \in DOMAIN t, NEW x, NEW q, q = NewText(t, name, x)
  PROVE  DOMAIN q = DOMAIN t /\ q[name] = x /\ \A y \in DOMAIN t : y # name => q[y] = t[y]
BY DEF NewText

LEMMA MakeTexts ==
  ASSUME NEW e, NEW t,
         t = [name \in DOMAIN t |-> t[name]],
         \A name \in DOMAIN t : t[name] \in Seq(Bytes \cup {Program}),
         DOMAIN t \subseteq Names \cup {"usr"},
         \A i \in 1..Size(e) : FcbAt(e, i).file_name \in DOMAIN t
           /\ Holds(e, FcbAt(e, i), t[FcbAt(e, i).file_name]),
         \A i, j \in 1..Size(e) : FcbAt(e, i).file_name = FcbAt(e, j).file_name => i = j,
         \A name \in DOMAIN t : \E i \in 1..Size(e) : FcbAt(e, i).file_name = name
  PROVE  Texts(e, t)
<1>1. t \in [DOMAIN t -> Seq(Bytes \cup {Program})]
  OBVIOUS
<1> QED BY <1>1, Zenon DEF Texts

LEMMA TextsWritten ==
  ASSUME NEW d, NEW u, Sound(d, u), NEW i \in 1..Size(d), NEW h, h.file = FcbAt(d, i),
         NEW buf \in Seq(Bytes \cup {Program}), NEW e, NEW v, NEW g, NEW k,
         FileWrites(d, u, i, h, buf, e, v, g, k),
         h.write_seek \in 0..h.file.file_size,
         NEW t, Texts(d, t), NEW name, name = FcbAt(d, i).file_name,
         NEW q, q = NewText(t, name, Ins(t[name], h.write_seek, buf))
  PROVE  Texts(e, q)
<1>1. PICK x, ws : x = t[name] /\ ws = h.write_seek
  OBVIOUS
<1>2. name \in DOMAIN t /\ x \in Seq(Bytes \cup {Program}) /\ x \in Seq(Cells)
        /\ Holds(d, FcbAt(d, i), x)
  BY <1>1, TextsAre
<1>3. ws \in 0..Len(x)
  BY <1>1, <1>2 DEF Holds
<1>4. Ins(x, ws, buf) \in Seq(Bytes \cup {Program})
  BY <1>2, <1>3, InsIs
<1>5. q = NewText(t, name, Ins(x, ws, buf))
  BY <1>1
<1>6. DOMAIN q = DOMAIN t /\ q[name] = Ins(x, ws, buf)
        /\ \A y \in DOMAIN t : y # name => q[y] = t[y]
  BY <1>2, <1>5, NewTextIs
<1>7. \A j \in 1..Size(d) : j \in 0..Size(d)
  OBVIOUS
<1>8. /\ Size(e) = Size(d) /\ FcbAt(e, i) = g /\ g.file_name = name
      /\ \A j \in 1..Size(d) : j # i => FcbAt(e, j) = FcbAt(d, j) /\ SameCells(d, e, FcbAt(d, j))
      /\ Holds(e, g, Ins(x, ws, buf))
  <2>1. Holds(e, g, Ins(x, ws, buf))
    BY <1>1, <1>2 DEF FileWrites
  <2> QED BY <1>7, <2>1 DEF FileWrites, Step
<1>9. \A j \in 1..Size(d) : FcbAt(e, j).file_name = FcbAt(d, j).file_name
  BY <1>8
<1>10. ASSUME NEW j \in 1..Size(d)
       PROVE  FcbAt(e, j).file_name \in DOMAIN q /\ Holds(e, FcbAt(e, j), q[FcbAt(e, j).file_name])
  <2>1. CASE j = i
    BY <1>2, <1>6, <1>8, <2>1
  <2>2. CASE j # i
    <3>1. FcbAt(d, j).file_name # name /\ FcbAt(d, j).file_name \in DOMAIN t
            /\ Holds(d, FcbAt(d, j), t[FcbAt(d, j).file_name])
      BY <2>2, TextsAre
    <3>2. FcbAt(e, j) = FcbAt(d, j) /\ Holds(e, FcbAt(d, j), t[FcbAt(d, j).file_name])
      BY <1>7, <1>8, <2>2, <3>1, HoldsSame
    <3> QED BY <1>6, <3>1, <3>2
  <2> QED BY <2>1, <2>2
<1>11. \A y \in DOMAIN q : q[y] \in Seq(Bytes \cup {Program})
  <2>1. \A y \in DOMAIN t : t[y] \in Seq(Bytes \cup {Program})
    BY TextsAre
  <2> SUFFICES ASSUME NEW y \in DOMAIN t PROVE q[y] \in Seq(Bytes \cup {Program})
    BY <1>6
  <2>2. CASE y = name
    BY <1>4, <1>6, <2>2
  <2>3. CASE y # name
    BY <1>6, <2>1, <2>3
  <2> QED BY <2>2, <2>3
<1>12. DOMAIN q \subseteq Names \cup {"usr"}
  BY <1>6, TextsAre
<1>13. q = [y \in DOMAIN q |-> q[y]]
  BY <1>5 DEF NewText
<1>14. \A j, l \in 1..Size(e) : FcbAt(e, j).file_name = FcbAt(e, l).file_name => j = l
  BY <1>8, <1>9, TextsAre
<1>15. \A y \in DOMAIN q : \E j \in 1..Size(e) : FcbAt(e, j).file_name = y
  <2> SUFFICES ASSUME NEW y \in DOMAIN t
               PROVE  \E j \in 1..Size(d) : FcbAt(e, j).file_name = y
    BY <1>6, <1>8
  <2>1. PICK j \in 1..Size(d) : FcbAt(d, j).file_name = y
    BY TextsAre
  <2> QED BY <1>9, <2>1
<1> QED BY <1>8, <1>10, <1>11, <1>12, <1>13, <1>14, <1>15, MakeTexts

(* Texts with one for a new, empty file. *)
WithEmpty(t, name) == [x \in DOMAIN t \cup {name} |-> IF x = name THEN <<>> ELSE t[x]]

LEMMA TextsCreated ==
  ASSUME NEW d, NEW u, Sound(d, u), NEW ws \in 0..Size(d), NEW n, n.file_size = 0,
         NEW name \in Names, n.file_name = name, NEW e, NEW v, Created(d, u, e, v, ws, n),
         NEW t, Texts(d, t), name \notin DOMAIN t,
         NEW q, q = WithEmpty(t, name)
  PROVE  Texts(e, q)
<1>1. /\ DOMAIN q = DOMAIN t \cup {name} /\ q[name] = <<>>
      /\ \A x \in DOMAIN t : q[x] = t[x]
      /\ q = [x \in DOMAIN q |-> q[x]]
  BY DEF WithEmpty
<1>2. PICK size \in Nat : size = Size(d) /\ Size(e) = size + 1 /\ ws \in 0..size
  BY SoundFacts DEF Created, Entered
<1>3. FcbAt(e, ws + 1) = n /\ ws + 1 \in 1..(size + 1)
  BY <1>2 DEF Created, Entered
<1>4. ASSUME NEW j \in 1..(size + 1), j # ws + 1
      PROVE  /\ OldAt(ws, j) \in 1..size /\ FcbAt(e, j) = FcbAt(d, OldAt(ws, j))
             /\ FcbAt(e, j).file_name \in DOMAIN t
             /\ Holds(e, FcbAt(e, j), t[FcbAt(e, j).file_name])
  <2>1. PICK i \in 1..size : i = OldAt(ws, j)
    BY <1>2, <1>4, Shifts
  <2>2. FcbAt(e, j) = FcbAt(d, i) /\ SameCells(d, e, FcbAt(d, i)) /\ i \in 0..Size(d)
    BY <1>2, <1>4, <2>1 DEF Created, Entered
  <2>3. FcbAt(d, i).file_name \in DOMAIN t /\ Holds(d, FcbAt(d, i), t[FcbAt(d, i).file_name])
    BY <1>2, <2>1, TextsAre
  <2>4. Holds(e, FcbAt(d, i), t[FcbAt(d, i).file_name])
    BY <2>2, <2>3, HoldsSame
  <2> QED BY <2>1, <2>2, <2>3, <2>4
<1>5. Holds(e, n, <<>>)
  BY DEF Holds
<1>6. \A j \in 1..Size(e) : FcbAt(e, j).file_name \in DOMAIN q
         /\ Holds(e, FcbAt(e, j), q[FcbAt(e, j).file_name])
  <2> SUFFICES ASSUME NEW j \in 1..(size + 1)
               PROVE  /\ FcbAt(e, j).file_name \in DOMAIN q
                      /\ Holds(e, FcbAt(e, j), q[FcbAt(e, j).file_name])
    BY <1>2
  <2>1. CASE j = ws + 1
    BY <1>1, <1>3, <1>5, <2>1
  <2>2. CASE j # ws + 1
    BY <1>1, <1>4, <2>2
  <2> QED BY <2>1, <2>2
<1>7. \A j, l \in 1..Size(e) : FcbAt(e, j).file_name = FcbAt(e, l).file_name => j = l
  <2> SUFFICES ASSUME NEW j \in 1..(size + 1), NEW l \in 1..(size + 1), j # l
               PROVE  FcbAt(e, j).file_name # FcbAt(e, l).file_name
    BY <1>2
  <2>1. CASE j = ws + 1
    BY <1>3, <1>4, <2>1
  <2>2. CASE l = ws + 1
    BY <1>3, <1>4, <2>2
  <2>3. CASE j # ws + 1 /\ l # ws + 1
    <3>1. PICK i \in 1..size : i = OldAt(ws, j) /\ FcbAt(e, j) = FcbAt(d, i)
      BY <1>4, <2>3
    <3>2. PICK k \in 1..size : k = OldAt(ws, l) /\ FcbAt(e, l) = FcbAt(d, k)
      BY <1>4, <2>3
    <3>3. i # k
      BY <1>2, <2>3, <3>1, <3>2, Shifts
    <3> QED BY <1>2, <3>1, <3>2, <3>3, TextsAre
  <2> QED BY <2>1, <2>2, <2>3
<1>8. \A x \in DOMAIN q : \E j \in 1..Size(e) : FcbAt(e, j).file_name = x
  <2> SUFFICES ASSUME NEW x \in DOMAIN q
               PROVE  \E j \in 1..(size + 1) : FcbAt(e, j).file_name = x
    BY <1>2
  <2>1. CASE x = name
    BY <1>3, <2>1
  <2>2. CASE x # name
    <3>1. PICK i \in 1..size : FcbAt(d, i).file_name = x
      BY <1>1, <1>2, <2>2, TextsAre
    <3>2. PICK j \in 1..(size + 1) : j = Shift(ws, i) /\ j # ws + 1 /\ OldAt(ws, j) = i
      <4>1. Shift(ws, i) \in 1..(size + 1) /\ Shift(ws, i) # ws + 1
              /\ OldAt(ws, Shift(ws, i)) = i
        BY <1>2, <3>1, Shifts
      <4> QED BY <4>1
    <3>3. FcbAt(e, j) = FcbAt(d, i)
      BY <1>4, <3>2
    <3> QED BY <3>1, <3>3
  <2> QED BY <2>1, <2>2
<1>9. \A x \in DOMAIN q : q[x] \in Seq(Bytes \cup {Program})
  <2> SUFFICES ASSUME NEW x \in DOMAIN q PROVE q[x] \in Seq(Bytes \cup {Program})
    OBVIOUS
  <2>1. CASE x = name
    BY <1>1, <2>1
  <2>2. CASE x # name
    BY <1>1, <2>2, TextsAre
  <2> QED BY <2>1, <2>2
<1>10. DOMAIN q \subseteq Names \cup {"usr"}
  BY <1>1, TextsAre
<1> QED BY <1>1, <1>6, <1>7, <1>8, <1>9, <1>10, MakeTexts

(* The files keep out of the swap area. *)
LEMMA SwappedKept ==
  ASSUME NEW d, NEW e, NEW v, v \subseteq 0..(SWAP_START - 1),
         \A s \in Sectors : s \notin v => e[s] = d[s], NEW w, Swapped(d, w)
  PROVE  Swapped(e, w)
<1>1. \A k \in 1..Len(w) : w[k].sector = SWAP_START + k - 1 /\ w[k].sector \in Sectors
         /\ d[w[k].sector] = w[k].page
  BY DEF Swapped
<1>2. \A k \in 1..Len(w) : SWAP_START + k - 1 \notin v
  <2> SUFFICES ASSUME NEW k \in 1..Len(w) PROVE SWAP_START + k - 1 \notin v
    OBVIOUS
  <2>1. k \in Nat /\ k >= 1 /\ SWAP_START \in Nat
    BY Constants DEF Swapped
  <2> QED BY <2>1
<1>3. \A k \in 1..Len(w) : e[w[k].sector] = w[k].page
  BY <1>1, <1>2
<1> QED BY <1>1, <1>3 DEF Swapped
-----------------------------------------------------------------------------
(* The invariant holds initially. *)

LEMMA FcbIs ==
  ASSUME NEW name, name \in Names \cup {"usr", "root"}, NEW first \in Int, NEW size \in Int,
         NEW f, f = Fcb(name, first, size)
  PROVE  /\ f \in Fcbs /\ f \in Cells /\ f.file_name = name /\ f.first_sector = first
         /\ f.last_sector = first /\ f.sector_count = 1 /\ f.file_size = size
<1>1. f \in Fcbs /\ f.file_name = name /\ f.first_sector = first
        /\ f.last_sector = first /\ f.sector_count = 1 /\ f.file_size = size
  BY DEF Fcb, Fcbs
<1> QED BY <1>1 DEF Cells

(* A sector that holds one FCB *)
LEMMA OneFcb ==
  ASSUME NEW f \in Fcbs, NEW b, b = Overlaid(EmptyBlock, 0, <<f>>, 1, 1)
  PROVE  b \in Blocks /\ b.next = None /\ b.data[0] = f
<1>1. Fits(0, <<f>>, 1, 1)
  <2>1. f \in Cells
    BY DEF Cells
  <2> SUFFICES ASSUME NEW o \in Offsets, o \in 0..(0 + 1 - 1) PROVE <<f>>[1 + o - 0] \in Cells
    BY DEF Fits
  <2>2. o = 0
    OBVIOUS
  <2> QED BY <2>1, <2>2
<1>2. Laid(b, EmptyBlock, 0, <<f>>, 1, 1)
  BY <1>1, EmptyIsBlock, OverlaidIs
<1>3. 0 \in Offsets
  BY Constants DEF Offsets
<1>4. b.data[0] = IF 0 \in 0..(0 + 1 - 1) THEN <<f>>[1 + 0 - 0] ELSE EmptyBlock.data[0]
  BY <1>2, <1>3 DEF Laid
<1>5. b.next = None
  BY <1>2 DEF Laid, EmptyBlock
<1> QED BY <1>2, <1>4, <1>5 DEF Laid

RootBlock == Overlaid(EmptyBlock, 0, <<Fcb("root", RootData, 1)>>, 1, 1)
UsrBlock == [data |-> [i \in 0..(BLOCK - 1) |-> Program], next |-> UsrData + 1]

(* The disk that fs_init, root_init and fs_test make. *)
FirstFormat(d, f, g) ==
  /\ d \in Disks /\ Links(d)
  /\ RootFcb(d) = f /\ d[RootData].data[0] = g
  /\ \A o \in Offsets : d[UsrData].data[o] = Program

LEMMA FirstFcbs ==
  ASSUME NEW f, f = Fcb("root", RootData, 1), NEW g, g = Fcb("usr", UsrData, BLOCK)
  PROVE  f \in Fcbs /\ g \in Fcbs
<1>1. RootData \in Int /\ UsrData \in Int /\ BLOCK \in Int /\ 1 \in Int
  BY Constants DEF RootData, UsrData
<1> QED BY <1>1, FcbIs

LEMMA FirstBlocks ==
  ASSUME Init
  PROVE  disk = [s \in Sectors |->
           CASE s = SECTOR_WITH_ROOT_FCB -> RootBlock
             [] s = RootData -> fs_test
             [] s = UsrData -> UsrBlock
             [] OTHER -> EmptyBlock]
BY Zenon DEF Init, RootBlock, UsrBlock

LEMMA FirstDisk ==
  ASSUME Init, NEW f, f = Fcb("root", RootData, 1), NEW g, g = Fcb("usr", UsrData, BLOCK)
  PROVE  FirstFormat(disk, f, g)
<1>1. f \in Fcbs /\ g \in Fcbs
  BY FirstFcbs
<1>2. PICK b : b = RootBlock /\ b = Overlaid(EmptyBlock, 0, <<f>>, 1, 1)
  BY Zenon DEF RootBlock
<1>3. PICK c : c = fs_test /\ c = Overlaid(EmptyBlock, 0, <<g>>, 1, 1)
  BY Zenon DEF fs_test
<1>4. b \in Blocks /\ b.next = None /\ b.data[0] = f
  BY <1>1, <1>2, OneFcb
<1>5. c \in Blocks /\ c.next = None /\ c.data[0] = g
  BY <1>1, <1>3, OneFcb
<1>6. UsrBlock \in Blocks /\ UsrBlock.next = 3
        /\ \A o \in Offsets : UsrBlock.data[o] = Program
  <2>1. Program \in Cells
    BY DEF Cells
  <2> QED BY <2>1 DEF UsrBlock, Blocks, UsrData, Offsets
<1>7. EmptyBlock \in Blocks /\ EmptyBlock.next = None
  BY EmptyIsBlock DEF EmptyBlock
<1>8. disk = [s \in Sectors |->
        CASE s = SECTOR_WITH_ROOT_FCB -> RootBlock
          [] s = RootData -> fs_test
          [] s = UsrData -> UsrBlock
          [] OTHER -> EmptyBlock]
  BY FirstBlocks
<1>9. /\ \A s \in Sectors : s \notin {0, 1, 2} => disk[s] = EmptyBlock
      /\ disk[0] = b /\ disk[1] = c /\ disk[2] = UsrBlock
      /\ {0, 1, 2, 3} \subseteq Sectors /\ disk = [s \in Sectors |-> disk[s]]
  <2>1. {0, 1, 2, 3} \subseteq Sectors
    BY Constants DEF Sectors
  <2>2. disk = [s \in Sectors |->
          IF s = 0 THEN b ELSE IF s = 1 THEN c ELSE IF s = 2 THEN UsrBlock ELSE EmptyBlock]
    <3>1. \A s \in Sectors :
            (CASE s = SECTOR_WITH_ROOT_FCB -> RootBlock
               [] s = RootData -> fs_test
               [] s = UsrData -> UsrBlock
               [] OTHER -> EmptyBlock)
            = IF s = 0 THEN b ELSE IF s = 1 THEN c ELSE IF s = 2 THEN UsrBlock ELSE EmptyBlock
      BY <1>2, <1>3 DEF SECTOR_WITH_ROOT_FCB, RootData, UsrData
    <3> QED BY <1>8, <3>1
  <2> QED BY <2>1, <2>2
<1>10. \A s \in Sectors : disk[s] \in Blocks
  BY <1>4, <1>5, <1>6, <1>7, <1>9
<1>11. disk \in Disks
  BY <1>9, <1>10 DEF Disks
<1>12. \A s \in Sectors : disk[s].next \in {None} \/ (s = 2 /\ disk[s].next = 3)
  BY <1>4, <1>5, <1>6, <1>7, <1>9
<1>13. Links(disk)
  <2>1. 2 < SWAP_START
    BY Constants
  <2> QED BY <1>9, <1>12, <2>1 DEF Links
<1> QED BY <1>4, <1>5, <1>6, <1>9, <1>11, <1>13
        DEF FirstFormat, RootFcb, SECTOR_WITH_ROOT_FCB, RootData, UsrData

LEMMA FirstFiles ==
  ASSUME BLOCK <= MaxSize, NEW d, NEW f, f = Fcb("root", RootData, 1),
         NEW g, g = Fcb("usr", UsrData, BLOCK), FirstFormat(d, f, g)
  PROVE  /\ Size(d) = 1 /\ FcbAt(d, 0) = f /\ FcbAt(d, 1) = g
         /\ Sound(d, {0, 1, 2})
         /\ \A j \in 1..BLOCK : Cell(d, g, j - 1) = Program
<1>1. /\ f \in Fcbs /\ f.first_sector = 1 /\ f.last_sector = 1 /\ f.sector_count = 1
      /\ f.file_size = 1
  BY FcbIs DEF RootData
<1>2. /\ g \in Fcbs /\ g.first_sector = 2 /\ g.last_sector = 2 /\ g.sector_count = 1
      /\ g.file_size = BLOCK
  BY Constants, FcbIs DEF UsrData
<1>3. BLOCK \in Nat \ {0} /\ {0, 1, 2} \subseteq Sectors /\ 2 < SWAP_START
  BY Constants DEF Sectors
<1>4. Size(d) = 1 /\ FcbAt(d, 0) = f
  BY <1>1 DEF FirstFormat, Size, FcbAt
<1>5. ASSUME NEW o \in Offsets PROVE NTH_BLOCK(o) = 0 /\ IN_BLOCK_OFFSET(o) = o
  <2>1. o \in 0..(BLOCK - 1) /\ o = BLOCK * 0 + o
    BY <1>3 DEF Offsets
  <2> QED BY <2>1, PositionIs
<1>6. Sec(d, f, 0) = 1 /\ Sec(d, g, 0) = 2
  BY <1>1, <1>2, SecZero
<1>7. 0 \in Offsets
  BY <1>3 DEF Offsets
<1>8. FcbAt(d, 1) = g
  <2>1. FcbAt(d, 1) = Cell(d, f, 0)
    BY EntryIs DEF FirstFormat
  <2>2. Cell(d, f, 0) = read_disk(d, 1).data[0]
    BY <1>5, <1>6, <1>7 DEF Cell
  <2> QED BY <1>3, <2>1, <2>2 DEF read_disk, FirstFormat, RootData
<1>9. ASSUME NEW j \in 1..BLOCK PROVE Cell(d, g, j - 1) = Program
  <2>1. j - 1 \in Offsets
    BY <1>3 DEF Offsets
  <2>2. Cell(d, g, j - 1) = read_disk(d, 2).data[j - 1]
    BY <1>5, <1>6, <2>1 DEF Cell
  <2> QED BY <1>3, <2>1, <2>2 DEF read_disk, FirstFormat, UsrData
<1>10. \A k \in 0..0 : k = 0
  OBVIOUS
<1>11. Well(d, {0, 1, 2}, f) /\ Well(d, {0, 1, 2}, g)
  <2>1. f.sector_count - 1 = 0 /\ g.sector_count - 1 = 0
    BY <1>1, <1>2
  <2>2. f.file_size \in 0..MaxSize /\ f.file_size <= f.sector_count * BLOCK
    BY <1>1, <1>3, Constants
  <2>3. g.file_size \in 0..MaxSize /\ g.file_size <= g.sector_count * BLOCK
    BY <1>2, <1>3, Constants
  <2>4. Well(d, {0, 1, 2}, f)
    BY <1>1, <1>6, <1>10, <2>1, <2>2 DEF Well, SECTOR_WITH_ROOT_FCB
  <2>5. Well(d, {0, 1, 2}, g)
    BY <1>2, <1>6, <1>10, <2>1, <2>3 DEF Well, SECTOR_WITH_ROOT_FCB
  <2> QED BY <2>4, <2>5
<1>12. Apart(d, f, g) /\ Apart(d, g, f)
  BY <1>1, <1>2, <1>6, <1>10 DEF Apart
<1>13. \A i \in 0..1 : i = 0 \/ i = 1
  OBVIOUS
<1>14. Sound(d, {0, 1, 2})
  <2>1. \A i \in 0..Size(d) : Well(d, {0, 1, 2}, FcbAt(d, i))
    BY <1>4, <1>8, <1>11, <1>13
  <2>2. \A i, j \in 0..Size(d) : i # j => Apart(d, FcbAt(d, i), FcbAt(d, j))
    BY <1>4, <1>8, <1>12, <1>13
  <2>3. {0, 1, 2} \subseteq 0..(SWAP_START - 1) /\ SECTOR_WITH_ROOT_FCB \in {0, 1, 2}
    BY <1>3, Constants DEF SECTOR_WITH_ROOT_FCB
  <2>4. d \in [Sectors -> Blocks] /\ Links(d) /\ Size(d) \in Nat
    BY <1>4 DEF FirstFormat, Disks
  <2> QED BY <2>1, <2>2, <2>3, <2>4 DEF Sound
<1> QED BY <1>4, <1>8, <1>9, <1>14

LEMMA FirstInv ==
  ASSUME BLOCK <= MaxSize, Init
  PROVE  FileInv
<1>1. PICK f, g : f = Fcb("root", RootData, 1) /\ g = Fcb("usr", UsrData, BLOCK)
  OBVIOUS
<1>2. FirstFormat(disk, f, g)
  BY <1>1, FirstDisk
<1>3. /\ Size(disk) = 1 /\ FcbAt(disk, 0) = f /\ FcbAt(disk, 1) = g
      /\ Sound(disk, {0, 1, 2})
      /\ \A j \in 1..BLOCK : Cell(disk, g, j - 1) = Program
  BY <1>1, <1>2, FirstFiles
<1>4. used = {0, 1, 2}
  BY DEF Init, SECTOR_WITH_ROOT_FCB, RootData, UsrData
<1>5. Texts(disk, text)
  <2>1. PICK p : p = [i \in 1..BLOCK |-> Program]
    OBVIOUS
  <2>2. BLOCK \in Nat
    BY Constants
  <2>3. p \in Seq(Bytes \cup {Program}) /\ Len(p) = BLOCK /\ \A j \in 1..BLOCK : p[j] = Program
    BY <2>1, <2>2
  <2>4. text = [name \in {"usr"} |-> p]
    BY <2>1 DEF Init
  <2>5. DOMAIN text = {"usr"} /\ text["usr"] = p /\ text = [name \in DOMAIN text |-> text[name]]
    BY <2>4
  <2>6. g.file_name = "usr" /\ g.file_size = BLOCK
    BY <1>1, <2>2, FcbIs DEF UsrData
  <2>7. Holds(disk, g, p)
    BY <1>3, <2>3, <2>6 DEF Holds
  <2>8. \A i \in 1..Size(disk) : i = 1
    BY <1>3
  <2>9. 1 \in 1..Size(disk)
    BY <1>3
  <2>10. \A i \in 1..Size(disk) : FcbAt(disk, i).file_name \in DOMAIN text
           /\ Holds(disk, FcbAt(disk, i), text[FcbAt(disk, i).file_name])
    BY <1>3, <2>5, <2>6, <2>7, <2>8
  <2>11. \A name \in DOMAIN text : \E i \in 1..Size(disk) : FcbAt(disk, i).file_name = name
    BY <1>3, <2>5, <2>6, <2>9
  <2>12. \A i, j \in 1..Size(disk) : FcbAt(disk, i).file_name = FcbAt(disk, j).file_name => i = j
    BY <2>8
  <2>13. \A name \in DOMAIN text : text[name] \in Seq(Bytes \cup {Program})
    BY <2>3, <2>5
  <2>14. DOMAIN text \subseteq Names \cup {"usr"}
    BY <2>5
  <2> QED BY <2>5, <2>10, <2>11, <2>12, <2>13, <2>14, MakeTexts
<1>6. Handles(disk, handle)
  BY DEF Init, Handles
<1>7. Swapped(disk, swap)
  <2>1. swap = <<>>
    BY DEF Init
  <2> QED BY <2>1 DEF Swapped
<1> QED BY <1>3, <1>4, <1>5, <1>6, <1>7 DEF FileInv
-----------------------------------------------------------------------------
(* The actions *)

LEMMA ClosedIs == Closed.path = "closed" /\ RootPath # "closed"
<1>1. Closed.path = "closed"
  BY DEF Closed
<1>2. RootPath # "closed"
  BY Zenon DEF RootPath
<1> QED BY <1>1, <1>2

(* A client with an open file *)
LEMMA HeldBy ==
  ASSUME FileInv, NEW c \in Clients, IsFile(c) \/ IsRoot(c)
  PROVE  Held(disk, handle[c])
<1>1. handle[c] # Closed
  BY ClosedIs DEF IsFile, IsRoot
<1> QED BY <1>1 DEF FileInv, Handles, Held

(* A call that changes only the caller's handle *)
LEMMA HandleOnly ==
  ASSUME FileInv, NEW c \in Clients, NEW k, Held(disk, k),
         handle' = [handle EXCEPT ![c] = k], UNCHANGED <<disk, used, text, swap>>
  PROVE  FileInv'
<1>1. Handles(disk, handle')
  <2>1. AllHeld(disk, disk)
    BY DEF AllHeld
  <2>2. Handles(disk, handle)
    BY DEF FileInv
  <2> QED BY <2>1, <2>2, HandlesKept
<1> QED BY <1>1 DEF FileInv

LEMMA OpenKeeps ==
  ASSUME FileInv, NEW c \in Clients, NEW name \in Names \cup {RootPath, "usr"}, Open(c, name)
  PROVE  FileInv'
<1>1. PICK k : k = load_file_cached(disk, name)
  OBVIOUS
<1>2. Held(disk, k)
  <2>1. Sound(disk, used)
    BY DEF FileInv
  <2>2. name = RootPath \/ Positions(disk, name) # {}
    BY DEF Open
  <2>3. Placed(disk, k) /\ \E i \in 0..Size(disk) : OpenOn(k, FcbAt(disk, i), i)
                             /\ k.file = FcbAt(disk, i)
    BY <1>1, <2>1, <2>2, LoadedIs
  <2> QED BY <2>3 DEF Held
<1>3. handle' = [handle EXCEPT ![c] = k] /\ UNCHANGED <<disk, used, text, swap>>
  BY <1>1 DEF Open
<1> QED BY <1>2, <1>3, HandleOnly

(* A handle whose positions a call has moved *)
LEMMA HeldMoved ==
  ASSUME NEW d, NEW h, Held(d, h), NEW k, At(d, k), k.file = h.file, k.path = h.path, InFile(k)
  PROVE  Held(d, k)
BY DEF Held, Placed, At, InFile, OpenOn

LEMMA HeldAt ==
  ASSUME FileInv, NEW h, Held(disk, h)
  PROVE  disk \in Disks /\ At(disk, h) /\ InFile(h) /\ h.file.file_size \in Nat /\ ReadInFile(h)
           /\ h \in Handle
<1>1. disk \in Disks
  BY SoundFacts DEF FileInv
<1>2. Placed(disk, h)
  BY DEF Held
<1>3. At(disk, h) /\ InFile(h)
  BY <1>2, PlacedAt
<1> QED BY <1>1, <1>2, <1>3 DEF ReadInFile, InFile, Placed

LEMMA ReadKeeps ==
  ASSUME FileInv, NEW c \in Clients, NEW length \in 1..MaxSize, ReadFile(c, length)
  PROVE  FileInv'
<1>1. PICK h : h = handle[c]
  OBVIOUS
<1>2. Held(disk, h)
  BY <1>1, HeldBy DEF ReadFile
<1>3. PICK k : k = AfterRead(disk, h, length)
  OBVIOUS
<1>4. disk \in Disks /\ At(disk, h) /\ InFile(h) /\ h.file.file_size \in Nat /\ ReadInFile(h)
  BY <1>2, HeldAt
<1>5. length \in Nat
  OBVIOUS
<1>6. At(disk, k) /\ SameButRead(h, k) /\ ReadInFile(k)
  BY <1>3, <1>4, <1>5, AfterReadMoves
<1>7. InFile(k) /\ k.file = h.file /\ k.path = h.path
  BY <1>4, <1>6 DEF InFile, SameButRead, ReadInFile
<1>8. Held(disk, k)
  BY <1>2, <1>6, <1>7, HeldMoved
<1>9. handle' = [handle EXCEPT ![c] = k] /\ UNCHANGED <<disk, used, text, swap>>
  BY <1>1, <1>3 DEF ReadFile
<1> QED BY <1>8, <1>9, HandleOnly

LEMMA SeekReadKeeps ==
  ASSUME FileInv, NEW c \in Clients, NEW seek \in 0..MaxSize, SeekRead(c, seek)
  PROVE  FileInv'
<1>1. PICK h : h = handle[c]
  OBVIOUS
<1>2. Held(disk, h)
  BY <1>1, HeldBy DEF SeekRead
<1>3. PICK k : k = sys_rseek(disk, h, seek)
  OBVIOUS
<1>4. disk \in Disks /\ At(disk, h) /\ InFile(h) /\ h.file.file_size \in Nat
  BY <1>2, HeldAt
<1>5. seek \in Nat
  OBVIOUS
<1>6. /\ At(disk, k) /\ SameButRead(h, k)
      /\ seek < h.file.file_size => k.read_seek = seek
      /\ ~(seek < h.file.file_size) => k = h
  BY <1>3, <1>4, <1>5, RseekMoves
<1>7. InFile(k) /\ k.file = h.file /\ k.path = h.path
  <2>1. CASE seek < h.file.file_size
    BY <1>4, <1>5, <1>6, <2>1 DEF InFile, SameButRead
  <2>2. CASE ~(seek < h.file.file_size)
    BY <1>4, <1>6, <2>2
  <2> QED BY <2>1, <2>2
<1>8. Held(disk, k)
  BY <1>2, <1>6, <1>7, HeldMoved
<1>9. handle' = [handle EXCEPT ![c] = k] /\ UNCHANGED <<disk, used, text, swap>>
  BY <1>1, <1>3 DEF SeekRead
<1> QED BY <1>8, <1>9, HandleOnly

LEMMA SeekWriteKeeps ==
  ASSUME FileInv, NEW c \in Clients, NEW seek \in 0..MaxSize, SeekWrite(c, seek)
  PROVE  FileInv'
<1>1. PICK h : h = handle[c]
  OBVIOUS
<1>2. Held(disk, h)
  BY <1>1, HeldBy DEF SeekWrite
<1>3. PICK k : k = sys_wseek(disk, h, seek)
  OBVIOUS
<1>4. disk \in Disks /\ At(disk, h) /\ InFile(h) /\ h.file.file_size \in Nat
  BY <1>2, HeldAt
<1>5. seek \in Nat /\ seek <= h.file.file_size
  BY <1>1 DEF SeekWrite
<1>6. At(disk, k) /\ SameButWrite(h, k) /\ k.write_seek = seek
  BY <1>3, <1>4, <1>5, WseekMoves
<1>7. InFile(k) /\ k.file = h.file /\ k.path = h.path
  BY <1>4, <1>5, <1>6 DEF InFile, SameButWrite
<1>8. Held(disk, k)
  BY <1>2, <1>6, <1>7, HeldMoved
<1>9. handle' = [handle EXCEPT ![c] = k] /\ UNCHANGED <<disk, used, text, swap>>
  BY <1>1, <1>3 DEF SeekWrite
<1> QED BY <1>8, <1>9, HandleOnly

LEMMA BufferIs ==
  ASSUME NEW buf \in Buffers
  PROVE  /\ buf \in Seq(Bytes \cup {Program}) /\ buf \in Seq(Cells)
         /\ Len(buf) \in Nat /\ Len(buf) > 0
<1>1. buf \in Seq(Bytes) /\ Len(buf) > 0 /\ Len(buf) \in Nat
  <2>1. CASE buf \in {<<b>> : b \in Bytes}
    <3>1. PICK b \in Bytes : buf = <<b>>
      BY <2>1
    <3> QED BY <3>1
  <2>2. CASE buf \in Bytes \X Bytes
    <3>1. PICK a \in Bytes, b \in Bytes : buf = <<a, b>>
      BY <2>2
    <3> QED BY <3>1
  <2> QED BY <2>1, <2>2 DEF Buffers
<1>2. Bytes \subseteq Bytes \cup {Program} /\ Bytes \subseteq Cells
  BY DEF Cells
<1> QED BY <1>1, <1>2

(* What CarefulWrite says of a handle, in the terms of the lemmas. *)
LEMMA CarefulIs ==
  ASSUME NEW h, NEW n, CarefulWrite(h, n)
  PROVE  /\ Fresh(h) /\ SectorsFor(h.file.file_size) <= h.file.sector_count
         /\ InTwoSectors(h.write_seek, h.file.file_size - h.write_seek + n)
<1>1. Fresh(h) /\ h.file.sector_count >= SectorsFor(h.file.file_size)
  BY DEF CarefulWrite
<1>2. InTwoSectors(h.write_seek, h.file.file_size - h.write_seek + n)
  BY Zenon DEF CarefulWrite, InTwoSectors
<1> QED BY <1>1, <1>2

(* The entry a fresh handle of a file is for *)
LEMMA FreshIs ==
  ASSUME FileInv, NEW h, Held(disk, h), Fresh(h), h.path # RootPath
  PROVE  \E i \in 1..Size(disk) : /\ h.index = i - 1 /\ h.file = FcbAt(disk, i)
                                  /\ FcbAt(disk, i).file_name = h.path
<1>1. h.index < Size(disk) /\ RootEntries(disk)[h.index + 1] = h.file
  BY DEF Fresh, Size
<1>2. Sound(disk, used) /\ h \in Handle
  BY HeldAt DEF FileInv
<1>3. Size(disk) \in Nat /\ RootEntries(disk) = [i \in 1..Size(disk) |-> FcbAt(disk, i)]
  BY <1>2, SoundFacts, EntriesAre
<1>4. PICK i \in 1..Size(disk) : h.index = i - 1 /\ i = h.index + 1
  BY <1>1, <1>2, <1>3, HandleIs
<1>5. h.file = FcbAt(disk, i)
  BY <1>1, <1>3, <1>4
<1>6. h.file.file_name = h.path
  BY DEF Held, OpenOn
<1> QED BY <1>4, <1>5, <1>6

LEMMA WriteKeeps ==
  ASSUME Careful, SWAP_START < NSectors, FileInv, NEW c \in Clients, NEW buf \in Buffers,
         WriteFile(c, buf)
  PROVE  FileInv'
<1>1. PICK h : h = handle[c]
  OBVIOUS
<1>2. Held(disk, h) /\ h.path # RootPath
  BY <1>1, HeldBy DEF WriteFile, IsFile
<1>3. /\ h.file.file_size + Len(buf) <= MaxSize /\ CarefulWrite(h, Len(buf))
  BY <1>1 DEF WriteFile, MayWrite
<1>4. /\ Fresh(h) /\ SectorsFor(h.file.file_size) <= h.file.sector_count
      /\ InTwoSectors(h.write_seek, h.file.file_size - h.write_seek + Len(buf))
  BY <1>3, CarefulIs
<1>5. PICK i \in 1..Size(disk) : /\ h.index = i - 1 /\ h.file = FcbAt(disk, i)
                                 /\ FcbAt(disk, i).file_name = h.path
  BY <1>2, <1>4, FreshIs
<1>6. Placed(disk, h) /\ Covered(h.file)
  BY <1>2, <1>4, OlderCovered DEF Held
<1>7. buf \in Seq(Bytes \cup {Program}) /\ buf \in Seq(Cells) /\ Len(buf) \in Nat /\ Len(buf) > 0
  BY BufferIs
<1>8. Writes(disk, h, FcbAt(disk, i), buf)
  BY <1>3, <1>4, <1>5, <1>6, <1>7 DEF Writes
<1>9. Sound(disk, used) /\ Texts(disk, text) /\ Handles(disk, handle) /\ Swapped(disk, swap)
  BY DEF FileInv
<1>10. PICK fs : fs = Fs(disk, used, h)
  OBVIOUS
<1>11. PICK r : r = sys_write(fs, buf)
  OBVIOUS
<1>12. /\ r.used \subseteq 0..(SWAP_START - 1) /\ disk' = r.disk /\ used' = r.used
       /\ handle' = [handle EXCEPT ![c] = r.h] /\ swap' = swap
  <2>1. Leaves(c, r)
    BY <1>1, <1>10, <1>11, Zenon DEF WriteFile, Write, Fs
  <2> QED BY <2>1 DEF Leaves
<1>13. PICK e, v, k, g : r = Fs(e, v, k) /\ FileWrites(disk, used, i, h, buf, e, v, g, k)
  BY <1>2, <1>5, <1>8, <1>9, <1>10, <1>11, <1>12, FileWritten
<1>14. disk' = e /\ used' = v /\ handle' = [handle EXCEPT ![c] = k]
  <2>1. r.disk = e /\ r.used = v /\ r.h = k
    BY <1>13, FsIs
  <2> QED BY <1>12, <2>1, Zenon
<1>15. Step(disk, used, e, v, i, g) /\ Placed(e, k) /\ k.file = g /\ k.path = h.path
  BY <1>13 DEF FileWrites
<1>16. /\ Sound(e, v) /\ FcbAt(e, i) = g /\ g.file_name = h.path /\ Size(e) = Size(disk)
       /\ \A s \in Sectors : s \notin v => e[s] = disk[s]
  BY <1>5, <1>15 DEF Step
<1>17. i \in 0..Size(disk) /\ i # 0
  OBVIOUS
<1>18. Held(e, k)
  <2>1. OpenOn(k, g, i)
    BY <1>2, <1>15, <1>16, <1>17 DEF OpenOn, Older
  <2> QED BY <1>15, <1>16, <1>17, <2>1 DEF Held
<1>19. Handles(e, handle')
  <2>1. AllHeld(disk, e)
    BY <1>5, <1>6, <1>9, <1>15, <1>17, HeldAfterStep
  <2> QED BY <1>9, <1>14, <1>18, <2>1, HandlesKept
<1>20. Texts(e, text')
  <2>1. text' = NewText(text, h.path, Ins(text[h.path], h.write_seek, buf))
    BY <1>1, Zenon DEF WriteFile, NewText, Ins
  <2>2. h.write_seek \in 0..h.file.file_size
    BY <1>5, <1>8, WritesIs
  <2> QED BY <1>5, <1>7, <1>9, <1>13, <2>1, <2>2, TextsWritten
<1>21. Swapped(e, swap')
  <2>1. v \subseteq 0..(SWAP_START - 1)
    BY <1>16 DEF Sound
  <2> QED BY <1>9, <1>12, <1>16, <2>1, SwappedKept
<1> QED BY <1>14, <1>16, <1>19, <1>20, <1>21 DEF FileInv

LEMMA CreateKeeps ==
  ASSUME Careful, SWAP_START < NSectors, FileInv, NEW c \in Clients, NEW name \in Names,
         Create(c, name)
  PROVE  FileInv'
<1>1. PICK h : h = handle[c]
  OBVIOUS
<1>2. Held(disk, h) /\ h.path = RootPath
  BY <1>1, HeldBy DEF Create, IsRoot
<1>3. h.file.file_size + 1 <= MaxSize /\ CarefulWrite(h, 1)
  BY <1>1 DEF Create, MayWrite
<1>4. /\ Fresh(h) /\ SectorsFor(h.file.file_size) <= h.file.sector_count
      /\ InTwoSectors(h.write_seek, h.file.file_size - h.write_seek + 1)
  BY <1>3, CarefulIs
<1>5. Sound(disk, used) /\ Texts(disk, text) /\ Handles(disk, handle) /\ Swapped(disk, swap)
  BY DEF FileInv
<1>6. h.file = FcbAt(disk, 0) /\ h.file.file_size = Size(disk)
  BY <1>2, <1>4, <1>5, SoundFacts DEF Fresh, Size
<1>7. Placed(disk, h) /\ Covered(h.file)
  BY <1>2, <1>4, OlderCovered DEF Held
<1>8. Creates(disk, h)
  BY <1>2, <1>3, <1>4, <1>6, <1>7 DEF Creates
<1>9. PICK first : first = file_alloc(used)
  OBVIOUS
<1>10. PICK n, w : n = Fcb(name, first, 0) /\ w = used \cup {first}
  OBVIOUS
<1>11. PICK d : Clears(disk, first, d)
  BY DEF Clears
<1>12. PICK fs, buf : fs = Fs(d, w, h) /\ Single(buf, n)
  BY DEF Single
<1>13. PICK r : r = sys_write(fs, buf)
  OBVIOUS
<1>14. /\ r.used \subseteq 0..(SWAP_START - 1) /\ disk' = r.disk /\ used' = r.used
       /\ handle' = [handle EXCEPT ![c] = r.h] /\ swap' = swap
  <2>1. Leaves(c, r)
    BY <1>1, <1>9, <1>10, <1>11, <1>12, <1>13, Zenon DEF Create, Write, Fs, Clears, Single
  <2> QED BY <2>1 DEF Leaves
<1>15. PICK e, v, k : /\ r = Fs(e, v, k) /\ Placed(e, k) /\ k.file = FcbAt(e, 0)
                      /\ k.path = RootPath /\ Created(disk, used, e, v, h.write_seek, n)
  <2>1. RootCreates(disk, used, h, n, r)
    BY <1>5, <1>8, <1>9, <1>10, <1>11, <1>12, <1>13, <1>14, FileCreated
  <2> QED BY <2>1 DEF RootCreates
<1>16. disk' = e /\ used' = v /\ handle' = [handle EXCEPT ![c] = k]
  <2>1. r.disk = e /\ r.used = v /\ r.h = k
    BY <1>15, FsIs
  <2> QED BY <1>14, <2>1, Zenon
<1>17. PICK ws \in 0..Size(disk) : ws = h.write_seek /\ Created(disk, used, e, v, ws, n)
  <2>1. h.write_seek \in Nat /\ h.write_seek <= h.file.file_size
    BY <1>7, HandleIs DEF Placed
  <2>2. Size(disk) \in Nat
    BY <1>5, SoundFacts
  <2> QED BY <1>6, <1>15, <2>1, <2>2
<1>18. Sound(e, v) /\ \A s \in Sectors : s \notin v => e[s] = disk[s]
  BY <1>17 DEF Created
<1>19. Held(e, k)
  <2>1. OpenOn(k, FcbAt(e, 0), 0)
    BY <1>15 DEF OpenOn, Older
  <2>2. 0 \in 0..Size(e)
    BY <1>18, SoundFacts
  <2> QED BY <1>15, <2>1, <2>2 DEF Held
<1>20. Handles(e, handle')
  <2>1. AllHeld(disk, e)
    BY <1>5, <1>6, <1>7, <1>17, HeldAfterCreate
  <2> QED BY <1>5, <1>16, <1>19, <2>1, HandlesKept
<1>21. Texts(e, text')
  <2>1. text' = WithEmpty(text, name) /\ name \notin DOMAIN text
    BY Zenon DEF Create, WithEmpty, Files
  <2>2. n.file_size = 0 /\ n.file_name = name
    BY <1>10 DEF Fcb
  <2> QED BY <1>5, <1>17, <2>1, <2>2, TextsCreated
<1>22. Swapped(e, swap')
  <2>1. v \subseteq 0..(SWAP_START - 1)
    BY <1>18 DEF Sound
  <2> QED BY <1>5, <1>14, <1>18, <2>1, SwappedKept
<1> QED BY <1>16, <1>18, <1>20, <1>21, <1>22 DEF FileInv

(* The page that sys_execve writes *)
LEMMA PageIs ==
  ASSUME NEW d \in Disks, NEW f \in Fcbs, f.file_size \in Nat, NEW p, p = Page(d, f)
  PROVE  p \in Blocks /\ p.next = Overwritten
<1>1. PICK h : h = Opened(f, RootPath, 0)
  OBVIOUS
<1>2. At(d, h) /\ h.file = f /\ h.read_seek = 0
  BY <1>1, OpenedAt
<1>3. PICK n \in Nat : n = f.file_size
  OBVIOUS
<1>4. PICK code : code = CellsRead(d, h, n)
  OBVIOUS
<1>5. code = [i \in 1..n |-> Cell(d, h.file, h.read_seek + i - 1)]
  BY <1>2, <1>4, CellsReadIs DEF ReadsCells
<1>6. Len(code) = n /\ \A i \in 1..n : code[i] \in Cells
  <2>1. \A i \in 1..n : Cell(d, h.file, h.read_seek + i - 1) \in Cells
    BY <1>2, CellIs
  <2> QED BY <1>5, <2>1
<1>7. PICK b : b = [i \in 0..(BLOCK - 1) |-> IF i < Len(code) THEN code[i + 1] ELSE Blank]
  OBVIOUS
<1>8. b \in [0..(BLOCK - 1) -> Cells]
  <2>1. Blank \in Cells
    BY DEF Cells
  <2>2. \A i \in 0..(BLOCK - 1) : i < n => i + 1 \in 1..n
    OBVIOUS
  <2> QED BY <1>6, <1>7, <2>1, <2>2
<1>9. p = [data |-> b, next |-> Overwritten]
  BY <1>1, <1>3, <1>4, <1>7, Zenon DEF Page
<1> QED BY <1>8, <1>9 DEF Blocks, Overwritten

LEMMA ExecveKeeps ==
  ASSUME FileInv, NEW name \in Programs, sys_execve(name)
  PROVE  FileInv'
<1>1. Sound(disk, used) /\ Texts(disk, text) /\ Handles(disk, handle) /\ Swapped(disk, swap)
  BY DEF FileInv
<1>2. PICK h : h = load_file_cached(disk, name)
  OBVIOUS
<1>3. PICK i \in 0..Size(disk) : h.file = FcbAt(disk, i)
  <2>1. name \in Names \cup {RootPath, "usr"} /\ Positions(disk, name) # {}
    BY Constants DEF sys_execve
  <2> QED BY <1>1, <1>2, <2>1, LoadedIs
<1>4. PICK p : p = Page(disk, h.file)
  OBVIOUS
<1>5. disk \in Disks /\ used \subseteq 0..(SWAP_START - 1) /\ Links(disk)
  BY <1>1, SoundFacts DEF Sound
<1>6. p \in Blocks /\ p.next = Overwritten
  BY <1>1, <1>3, <1>4, <1>5, FileIs, PageIs
<1>7. PICK m \in Nat : m = Len(swap)
  BY <1>1 DEF Swapped
<1>8. PICK sector : sector = SWAP_START + m
  OBVIOUS
<1>9. /\ m < NSectors - SWAP_START /\ disk' = write_disk(disk, sector, p)
      /\ swap' = Append(swap, [sector |-> sector, page |-> p])
      /\ UNCHANGED <<used, handle, text>>
  BY <1>2, <1>4, <1>7, <1>8, Zenon DEF sys_execve, swap_alloc
<1>10. sector \in Sectors /\ ~(sector < SWAP_START) /\ sector \notin used /\ sector \in Int
  BY <1>5, <1>7, <1>8, <1>9, Constants DEF Sectors
<1>11. PICK e : e = disk'
  OBVIOUS
<1>12. e \in Disks /\ e[sector] = p /\ \A s \in Sectors : s # sector => e[s] = disk[s]
  <2>1. e = [disk EXCEPT ![sector] = p]
    BY <1>9, <1>10, <1>11 DEF write_disk
  <2> QED BY <1>5, <1>6, <1>10, <2>1 DEF Disks
<1>13. Links(e)
  BY <1>5, <1>6, <1>10, <1>12 DEF Links
<1>14. Elsewhere(disk, e, used)
  <2>1. UsedSame(disk, e, used)
    BY <1>10, <1>12 DEF UsedSame
  <2> QED BY <1>1, <1>5, <1>12, <1>13, <2>1, StepElsewhere DEF Elsewhere
<1>15. Handles(e, handle)
  BY <1>1, <1>14, HeldElsewhere, HandlesKept
<1>16. Texts(e, text)
  BY <1>1, <1>14, TextsElsewhere
<1>17. Swapped(e, swap')
  <2>1. PICK q : q = [sector |-> sector, page |-> p]
    OBVIOUS
  <2>2. q \in [sector : Int, page : Blocks] /\ q.sector = sector /\ q.page = p
    BY <1>6, <1>10, <2>1
  <2>3. swap \in Seq([sector : Int, page : Blocks]) /\ swap' = Append(swap, q)
    BY <1>1, <1>9, <2>1 DEF Swapped
  <2>4. /\ swap' \in Seq([sector : Int, page : Blocks]) /\ Len(swap') = m + 1
        /\ swap'[m + 1] = q /\ \A k \in 1..m : swap'[k] = swap[k]
    BY <1>7, <2>2, <2>3
  <2>5. ASSUME NEW k \in 1..(m + 1)
        PROVE  /\ swap'[k].sector = SWAP_START + k - 1 /\ swap'[k].sector \in Sectors
               /\ e[swap'[k].sector] = swap'[k].page
    <3>1. CASE k = m + 1
      BY <1>7, <1>8, <1>10, <1>12, <2>2, <2>4, <3>1, Constants
    <3>2. CASE k # m + 1
      <4>1. k \in 1..m
        BY <3>2
      <4>2. swap[k].sector = SWAP_START + k - 1 /\ swap[k].sector \in Sectors
              /\ disk[swap[k].sector] = swap[k].page
        BY <1>1, <1>7, <4>1 DEF Swapped
      <4>3. SWAP_START + k - 1 # sector
        BY <1>8, <4>1, Constants
      <4> QED BY <1>12, <2>4, <4>1, <4>2, <4>3
    <3> QED BY <3>1, <3>2
  <2> QED BY <2>4, <2>5 DEF Swapped
<1>18. Sound(e, used)
  BY <1>14 DEF Elsewhere
<1> QED BY <1>9, <1>11, <1>15, <1>16, <1>17, <1>18 DEF FileInv
-----------------------------------------------------------------------------
(***************************************************************************)
(* The disk, the clients' handles and the swap area agree with each other  *)
(* and with what has been written (FileInv), after every sequence of       *)
(* calls of fs.c and execve.c by clients that keep to the rules of         *)
(* CarefulWrite.                                                           *)
(***************************************************************************)
THEOREM FilesConsistent ==
  ASSUME Careful, BLOCK <= MaxSize, SWAP_START < NSectors
  PROVE  Spec => []FileInv
<1>1. Init => FileInv
  BY FirstInv
<1>2. FileInv /\ [Next]_vars => FileInv'
  <2> SUFFICES ASSUME FileInv, [Next]_vars PROVE FileInv'
    OBVIOUS
  <2>1. ASSUME NEW name \in Programs, sys_execve(name) PROVE FileInv'
    BY <2>1, ExecveKeeps
  <2>2. ASSUME NEW c \in Clients, NEW name \in Names \cup {RootPath, "usr"}, Open(c, name)
        PROVE  FileInv'
    BY <2>2, OpenKeeps
  <2>3. ASSUME NEW c \in Clients, NEW name \in Names, Create(c, name) PROVE FileInv'
    BY <2>3, CreateKeeps
  <2>4. ASSUME NEW c \in Clients, NEW buf \in Buffers, WriteFile(c, buf) PROVE FileInv'
    BY <2>4, WriteKeeps
  <2>5. ASSUME NEW c \in Clients, NEW length \in 1..MaxSize, ReadFile(c, length)
        PROVE  FileInv'
    BY <2>5, ReadKeeps
  <2>6. ASSUME NEW c \in Clients, NEW seek \in 0..MaxSize, SeekRead(c, seek)
        PROVE  FileInv'
    BY <2>6, SeekReadKeeps
  <2>7. ASSUME NEW c \in Clients, NEW seek \in 0..MaxSize, SeekWrite(c, seek)
        PROVE  FileInv'
    BY <2>7, SeekWriteKeeps
  <2>8. CASE UNCHANGED vars
    BY <2>8 DEF vars, FileInv
  <2> QED BY <2>1, <2>2, <2>3, <2>4, <2>5, <2>6, <2>7, <2>8, Zenon DEF Next
<1> QED BY <1>1, <1>2, PTL DEF Spec

LEMMA InvTypeOK == FileInv => TypeOK
<1> SUFFICES ASSUME FileInv PROVE TypeOK
  OBVIOUS
<1>1. Sound(disk, used) /\ Texts(disk, text)
  BY DEF FileInv
<1>2. used \subseteq Sectors /\ Links(disk)
  BY <1>1, SoundFacts DEF Sound
<1>3. /\ Files \subseteq Names \cup {"usr"}
      /\ \A name \in Files : text[name] \in Seq(Bytes \cup {Program})
  BY <1>1, TextsAre DEF Files
<1>4. ASSUME NEW c \in Clients, handle[c] # Closed
      PROVE  /\ handle[c].file.file_size \in 0..MaxSize
             /\ handle[c].read_seek \in 0..handle[c].file.file_size
             /\ handle[c].write_seek \in 0..handle[c].file.file_size
  <2>1. PICK h : h = handle[c]
    OBVIOUS
  <2>2. Placed(disk, h)
    BY <1>4, <2>1 DEF FileInv, Handles
  <2>3. h.read_seek \in Nat /\ h.write_seek \in Nat /\ h.file.file_size \in 0..MaxSize
          /\ h.read_seek <= h.file.file_size /\ h.write_seek <= h.file.file_size
    BY <2>2, HandleIs DEF Placed
  <2> QED BY <2>1, <2>3
<1> QED BY <1>2, <1>3, <1>4 DEF TypeOK, Links

(* A set whose elements are numbered *)
LEMMA Counted ==
  ASSUME NEW n \in Nat, NEW S, NEW F, F \in [1..n -> S],
         \A i, j \in 1..n : F[i] = F[j] => i = j, \A s \in S : \E i \in 1..n : F[i] = s
  PROVE  Cardinality(S) = n
<1>1. F \in Bijection(1..n, S)
  BY DEF Bijection, Injection, Surjection, IsInjective
<1>2. ExistsBijection(1..n, S)
  BY <1>1 DEF ExistsBijection
<1> QED BY <1>2, FS_CountingElements

(* The sectors of a file *)
ChainOf(d, f, C) == C = [k \in 1..f.sector_count |-> Follow(d, f.first_sector, k - 1)]
ElementsOf(C, n, S) == S = {C[k] : k \in 1..n}

LEMMA SectorsOf ==
  ASSUME NEW d, NEW u, NEW f, Well(d, u, f), NEW C, ChainOf(d, f, C),
         NEW S, ElementsOf(C, f.sector_count, S)
  PROVE  /\ Cardinality(S) = f.sector_count /\ C[f.sector_count] = f.last_sector
         /\ \A s \in S : InChain(d, f, s)
         /\ S \subseteq u \ {SECTOR_WITH_ROOT_FCB}
<1>1. PICK n \in Nat \ {0} : n = f.sector_count
  BY DEF Well
<1>2. \A k \in 1..n : k - 1 \in 0..(n - 1)
  OBVIOUS
<1>3. \A k \in 1..n : C[k] = Sec(d, f, k - 1)
  BY <1>1 DEF Sec, ChainOf
<1>4. \A k, l \in 1..n : C[k] = C[l] => k = l
  <2> SUFFICES ASSUME NEW k \in 1..n, NEW l \in 1..n, C[k] = C[l] PROVE k = l
    OBVIOUS
  <2>1. PICK a \in 0..(n - 1) : a = k - 1
    OBVIOUS
  <2>2. PICK b \in 0..(n - 1) : b = l - 1
    OBVIOUS
  <2>3. Sec(d, f, a) = Sec(d, f, b)
    BY <1>3, <2>1, <2>2
  <2>4. a = b
    BY <1>1, <2>3 DEF Well
  <2> QED BY <2>1, <2>2, <2>4
<1>5. C \in [1..n -> S] /\ \A s \in S : \E k \in 1..n : C[k] = s
  BY <1>1 DEF ChainOf, ElementsOf
<1>6. Cardinality(S) = n
  BY <1>4, <1>5, Counted
<1>7. \A s \in S : InChain(d, f, s)
  <2> SUFFICES ASSUME NEW s \in S PROVE \E k \in 0..(n - 1) : s = Sec(d, f, k)
    BY <1>1 DEF InChain
  <2>1. PICK k \in 1..n : C[k] = s
    BY <1>5
  <2> QED BY <1>2, <1>3, <2>1
<1>8. \A s \in S : s \in u \ {SECTOR_WITH_ROOT_FCB}
  BY <1>7 DEF InChain, Well
<1>9. C[n] = f.last_sector
  <2>1. n \in 1..n
    OBVIOUS
  <2> QED BY <1>1, <1>3, <2>1 DEF Well
<1> QED BY <1>1, <1>6, <1>7, <1>8, <1>9

LEMMA InvChains == FileInv => ChainsDisjoint
<1> SUFFICES ASSUME FileInv PROVE ChainsDisjoint
  OBVIOUS
<1> DEFINE all == Entries \cup {RootFcb(disk)}
           sectors(f) == {Chain(f)[k] : k \in 1..f.sector_count}
<1>1. Sound(disk, used)
  BY DEF FileInv
<1>2. ASSUME NEW f \in all PROVE \E i \in 0..Size(disk) : f = FcbAt(disk, i)
  <2>1. RootEntries(disk) = [i \in 1..Size(disk) |-> FcbAt(disk, i)] /\ Size(disk) \in Nat
    BY <1>1, EntriesAre, SoundFacts
  <2>2. CASE f \in Entries
    <3>1. PICK i \in 1..Size(disk) : f = RootEntries(disk)[i]
      BY <2>2 DEF Entries, Size
    <3>2. f = FcbAt(disk, i) /\ i \in 0..Size(disk)
      BY <2>1, <3>1
    <3> QED BY <3>2
  <2>3. CASE f = RootFcb(disk)
    BY <1>1, <2>3, SoundFacts
  <2> QED BY <2>2, <2>3
<1>3. ASSUME NEW f \in all
      PROVE  /\ Cardinality(sectors(f)) = f.sector_count
             /\ Chain(f)[f.sector_count] = f.last_sector
             /\ \A s \in sectors(f) : InChain(disk, f, s)
             /\ sectors(f) \subseteq used \ {SECTOR_WITH_ROOT_FCB}
  <2>1. Well(disk, used, f)
    BY <1>1, <1>2, SoundFacts
  <2>2. PICK C, S : C = Chain(f) /\ S = sectors(f)
    OBVIOUS
  <2>3. ChainOf(disk, f, C) /\ ElementsOf(C, f.sector_count, S)
    BY <2>2, Zenon DEF Chain, ChainOf, ElementsOf
  <2>4. /\ Cardinality(S) = f.sector_count /\ C[f.sector_count] = f.last_sector
        /\ \A s \in S : InChain(disk, f, s)
        /\ S \subseteq used \ {SECTOR_WITH_ROOT_FCB}
    BY <2>1, <2>3, SectorsOf
  <2> QED BY <2>2, <2>4
<1>4. ASSUME NEW f \in all, NEW g \in all, f # g PROVE sectors(f) \cap sectors(g) = {}
  <2>1. PICK i \in 0..Size(disk) : f = FcbAt(disk, i)
    BY <1>2
  <2>2. PICK j \in 0..Size(disk) : g = FcbAt(disk, j)
    BY <1>2
  <2>3. Apart(disk, f, g)
    BY <1>1, <1>4, <2>1, <2>2 DEF Sound
  <2>4. \A s : ~(InChain(disk, f, s) /\ InChain(disk, g, s))
    BY <2>3 DEF InChain, Apart
  <2> HIDE DEF sectors
  <2> QED BY <1>3, <2>4
<1> QED BY <1>3, <1>4, Zenon DEF ChainsDisjoint

LEMMA SubSeqIs ==
  ASSUME NEW S, NEW t \in Seq(S), NEW x \in Nat, NEW n \in Nat, x + n <= Len(t)
  PROVE  SubSeq(t, x + 1, x + n) = [i \in 1..n |-> t[x + i]]
<1>1. PICK q : q = SubSeq(t, x + 1, x + n)
  OBVIOUS
<1>2. q \in Seq(S) /\ Len(q) = n
  BY <1>1
<1>3. \A i \in 1..n : q[i] = t[x + i]
  BY <1>1
<1>4. q = [i \in 1..n |-> q[i]]
  BY <1>2
<1> QED BY <1>1, <1>3, <1>4

(* Reading n cells of a file that holds t, from position x on *)
LEMMA ReadsText ==
  ASSUME NEW d \in Disks, NEW h, At(d, h), NEW S, NEW t \in Seq(S), Holds(d, h.file, t),
         NEW n \in Nat, NEW x \in Nat, x = h.read_seek, NEW size \in Nat,
         size = h.file.file_size, x + n <= size
  PROVE  CellsRead(d, h, n) = SubSeq(t, x + 1, x + n)
<1>1. CellsRead(d, h, n) = [i \in 1..n |-> Cell(d, h.file, x + i - 1)]
  BY CellsReadIs DEF ReadsCells
<1>2. Len(t) = size /\ \A j \in 1..size : Cell(d, h.file, j - 1) = t[j]
  BY DEF Holds
<1>3. ASSUME NEW i \in 1..n PROVE Cell(d, h.file, x + i - 1) = t[x + i]
  <2>1. x + i \in 1..size /\ x + i - 1 = (x + i) - 1
    OBVIOUS
  <2> QED BY <1>2, <2>1
<1>4. [i \in 1..n |-> Cell(d, h.file, x + i - 1)] = [i \in 1..n |-> t[x + i]]
  BY <1>3
<1>5. SubSeq(t, x + 1, x + n) = [i \in 1..n |-> t[x + i]]
  <2>1. x + n <= Len(t)
    BY <1>2
  <2> QED BY <2>1, SubSeqIs
<1> QED BY <1>1, <1>4, <1>5

LEMMA InvReads == FileInv => ReadsReturnText
<1> SUFFICES ASSUME FileInv, NEW c \in Clients, IsFile(c), Fresh(handle[c]),
                    NEW length \in 0..MaxSize, InRange(handle[c], length)
             PROVE  CellsRead(disk, handle[c], length) =
                      SubSeq(text[handle[c].path], handle[c].read_seek + 1,
                             handle[c].read_seek + length)
  BY DEF ReadsReturnText
<1>1. PICK h : h = handle[c]
  OBVIOUS
<1>2. Held(disk, h) /\ h.path # RootPath /\ Fresh(h) /\ InRange(h, length)
  BY <1>1, HeldBy DEF IsFile
<1>3. disk \in Disks /\ At(disk, h) /\ h.file.file_size \in Nat /\ h.read_seek \in Nat
  BY <1>2, HeldAt, HandleIs
<1>4. PICK i \in 1..Size(disk) : h.file = FcbAt(disk, i) /\ FcbAt(disk, i).file_name = h.path
  BY <1>2, FreshIs
<1>5. PICK t : t = text[h.path]
  OBVIOUS
<1>6. t \in Seq(Bytes \cup {Program}) /\ Holds(disk, h.file, t)
  <2>1. Texts(disk, text)
    BY DEF FileInv
  <2> QED BY <1>4, <1>5, <2>1, TextsAre
<1>7. length \in Nat /\ h.read_seek + length <= h.file.file_size
  BY <1>2 DEF InRange
<1>8. CellsRead(disk, h, length) = SubSeq(t, h.read_seek + 1, h.read_seek + length)
  BY <1>3, <1>6, <1>7, ReadsText
<1> QED BY <1>1, <1>5, <1>8

LEMMA InvFilesKept == FileInv => FilesKept
<1> SUFFICES ASSUME FileInv PROVE FilesKept
  OBVIOUS
<1>1. Sound(disk, used) /\ Texts(disk, text)
  BY DEF FileInv
<1>2. PICK size \in Nat : size = Size(disk) /\ size = RootFcb(disk).file_size
  BY <1>1, SoundFacts DEF Size
<1>3. Cardinality(Files) = size
  <2>1. PICK F : F = [i \in 1..size |-> FcbAt(disk, i).file_name]
    OBVIOUS
  <2>2. \A i \in 1..size : F[i] = FcbAt(disk, i).file_name
    BY <2>1
  <2>3. \A i \in 1..size : FcbAt(disk, i).file_name \in Files
    BY <1>1, <1>2, TextsAre DEF Files
  <2>4. F \in [1..size -> Files]
    BY <2>1, <2>3
  <2>5. \A i, j \in 1..size : F[i] = F[j] => i = j
    <3> SUFFICES ASSUME NEW i \in 1..size, NEW j \in 1..size, F[i] = F[j] PROVE i = j
      OBVIOUS
    <3>1. FcbAt(disk, i).file_name = FcbAt(disk, j).file_name
      BY <2>2
    <3> QED BY <1>1, <1>2, <3>1, TextsAre
  <2>6. \A name \in Files : \E i \in 1..size : F[i] = name
    <3> SUFFICES ASSUME NEW name \in Files PROVE \E i \in 1..size : F[i] = name
      OBVIOUS
    <3>1. PICK i \in 1..size : FcbAt(disk, i).file_name = name
      BY <1>1, <1>2, TextsAre DEF Files
    <3> QED BY <2>2, <3>1
  <2> QED BY <2>4, <2>5, <2>6, Counted
<1>4. ASSUME NEW name \in Files
      PROVE  /\ Positions(disk, name) # {}
             /\ Content(RootEntries(disk)[dir_search_file(disk, name)]) = text[name]
  <2>1. Positions(disk, name) # {}
    <3>1. PICK i \in 1..Size(disk) : FcbAt(disk, i).file_name = name
      BY <1>1, TextsAre DEF Files
    <3>2. i \in Positions(disk, name)
      BY <1>1, <3>1, EntriesAre
    <3> QED BY <3>2
  <2>2. PICK i : i = dir_search_file(disk, name)
    OBVIOUS
  <2>3. i \in 1..Size(disk) /\ FcbAt(disk, i).file_name = name
          /\ RootEntries(disk)[i] = FcbAt(disk, i)
    BY <1>1, <2>1, <2>2, Searched
  <2>4. PICK f : f = FcbAt(disk, i)
    OBVIOUS
  <2>5. f \in Fcbs /\ f.file_size \in Nat
    <3>1. i \in 0..Size(disk)
      BY <1>2, <2>3
    <3> QED BY <1>1, <2>4, <3>1, FileIs
  <2>6. PICK t : t = text[name]
    OBVIOUS
  <2>7. t \in Seq(Bytes \cup {Program}) /\ Holds(disk, f, t)
    BY <1>1, <2>3, <2>4, <2>6, TextsAre
  <2>8. PICK h : h = Opened(f, RootPath, 0)
    OBVIOUS
  <2>9. disk \in Disks /\ At(disk, h) /\ h.file = f /\ h.read_seek = 0
    BY <1>1, <2>5, <2>8, SoundFacts, OpenedAt
  <2>10. PICK n \in Nat : n = f.file_size
    BY <2>5
  <2>11. CellsRead(disk, h, n) = SubSeq(t, 0 + 1, 0 + n)
    <3>1. 0 \in Nat /\ 0 + n <= n
      OBVIOUS
    <3> QED BY <2>7, <2>9, <2>10, <3>1, ReadsText
  <2>12. SubSeq(t, 0 + 1, 0 + n) = t
    <3>1. Len(t) = n
      BY <2>7, <2>10 DEF Holds
    <3> QED BY <2>7, <2>10, <3>1
  <2>13. Content(f) = t
    BY <2>8, <2>10, <2>11, <2>12, Zenon DEF Content
  <2>14. RootEntries(disk)[dir_search_file(disk, name)] = f
    BY <2>2, <2>3, <2>4
  <2> QED BY <2>1, <2>6, <2>13, <2>14
<1> QED BY <1>2, <1>3, <1>4 DEF FilesKept

LEMMA InvSwapKept == FileInv => SwapKept
BY DEF FileInv, Swapped, SwapKept

(***************************************************************************)
(* fs.c, execve.c: the bitmap and the links stay on the disk, a next       *)
(* sector is overwritten with a program's bytes only in the swap area, and *)
(* the positions of every open file are in the file (TypeOK).              *)
(***************************************************************************)
THEOREM FileTypes ==
  ASSUME Careful, BLOCK <= MaxSize, SWAP_START < NSectors
  PROVE  Spec => []TypeOK
BY FilesConsistent, InvTypeOK, PTL

(***************************************************************************)
(* fs.c:166-180 and 339-387: every file that was created is in the root    *)
(* exactly once and holds what was written to it (FilesKept), for          *)
(* directories and files of any size.                                      *)
(***************************************************************************)
THEOREM FilesAreKept ==
  ASSUME Careful, BLOCK <= MaxSize, SWAP_START < NSectors
  PROVE  Spec => []FilesKept
BY FilesConsistent, InvFilesKept, PTL

(***************************************************************************)
(* fs.h:42: an FCB describes one chain without a cycle, and the chains of  *)
(* different files have no sector in common (ChainsDisjoint), however      *)
(* file_expand and sys_create have allocated them.                         *)
(***************************************************************************)
THEOREM ChainsAreDisjoint ==
  ASSUME Careful, BLOCK <= MaxSize, SWAP_START < NSectors
  PROVE  Spec => []ChainsDisjoint
BY FilesConsistent, InvChains, PTL

(***************************************************************************)
(* sys_read (fs.c:183) returns the text at the client's read position      *)
(* (ReadsReturnText), for every sequence of seeks, reads and writes of all *)
(* clients after which the client's FCB is not out of date.                *)
(***************************************************************************)
THEOREM ReadsAreRight ==
  ASSUME Careful, BLOCK <= MaxSize, SWAP_START < NSectors
  PROVE  Spec => []ReadsReturnText
BY FilesConsistent, InvReads, PTL

(***************************************************************************)
(* execve.c:24-27: the pages that sys_execve has written to the swap area  *)
(* stay as they were written (SwapKept), whatever files are created and    *)
(* grow.                                                                   *)
(***************************************************************************)
THEOREM SwapIsKept ==
  ASSUME Careful, BLOCK <= MaxSize, SWAP_START < NSectors
  PROVE  Spec => []SwapKept
BY FilesConsistent, InvSwapKept, PTL
=============================================================================
