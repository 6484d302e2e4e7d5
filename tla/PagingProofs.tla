---------------------------- MODULE PagingProofs ----------------------------
(***************************************************************************)
(* Theorems about Paging, for every size of memory and of page tables,     *)
(* every place of code and stack, and every number of callers, programs    *)
(* and calls.                                                              *)
(***************************************************************************)
EXTENDS Paging, FiniteSetTheorems, WellFoundedInduction, TLAPS

(* The first page that memory_init leaves free *)
Base == RESERVED + ITSELF_END

(* The directory entry and the table entry of the code, the stack and the  *)
(* page the stack grows into                                               *)
CodeDir == CODE \div ENTRIES
CodeSlot == CODE % ENTRIES
StackDir == STACK \div ENTRIES
StackSlot == STACK % ENTRIES
GrownSlot == (STACK - 1) % ENTRIES

InitialEntry(page, i) ==
  CASE page = KernelPd /\ i < ITSELF_END -> [p |-> TRUE, n |-> RESERVED + i]
    [] /\ page \in RESERVED..(RESERVED + ITSELF_END - 1)
       /\ (page - RESERVED) * ENTRIES + i \in Pages
         -> [p |-> TRUE, n |-> (page - RESERVED) * ENTRIES + i]
    [] OTHER -> Zero

-----------------------------------------------------------------------------
(***************************************************************************)
(* The uses a task's pages have: its directory, two page tables, its code, *)
(* its stack and the page the stack grows into.                            *)
(***************************************************************************)
Kinds == {"directory", "code table", "stack table", "code", "stack", "grown"}

CodeTable(m, cr3) == m.entry[cr3][CodeDir].n
StackTable(m, cr3) == m.entry[cr3][StackDir].n

PageOf(m, cr3, kind) ==
  CASE kind = "directory"   -> cr3
    [] kind = "code table"  -> CodeTable(m, cr3)
    [] kind = "stack table" -> StackTable(m, cr3)
    [] kind = "code"        -> m.entry[CodeTable(m, cr3)][CodeSlot].n
    [] kind = "stack"       -> m.entry[StackTable(m, cr3)][StackSlot].n
    [] kind = "grown"       -> m.entry[StackTable(m, cr3)][GrownSlot].n

Held(m, cr3, kind) ==
  CASE kind = "directory"   -> TRUE
    [] kind = "code table"  -> m.entry[cr3][CodeDir].p
    [] kind = "stack table" -> m.entry[cr3][StackDir].p
    [] kind = "code"        -> m.entry[cr3][CodeDir].p /\ m.entry[CodeTable(m, cr3)][CodeSlot].p
    [] kind = "stack"       -> m.entry[cr3][StackDir].p /\ m.entry[StackTable(m, cr3)][StackSlot].p
    [] kind = "grown"       -> m.entry[cr3][StackDir].p /\ m.entry[StackTable(m, cr3)][GrownSlot].p

(* The callers in a call, and the directory their call works on *)
In(labels) == {c \in Callers : frame[c].at \in labels}
Building == In({"create", "map", "swap", "stack"})
Working(labels) == {frame[c].cr3 : c \in In(labels)}

(* While a call has page 0 mapped as code, that is no use of page 0. *)
Real(m, cr3, kind) == Held(m, cr3, kind) /\ ~(kind = "code" /\ cr3 \in Working({"swap"}))

(* No page has two uses. *)
OneUse ==
  /\ \A a, b \in Directories, j, k \in Kinds :
       Real(mem, a, j) /\ Real(mem, b, k) /\ PageOf(mem, a, j) = PageOf(mem, b, k)
         => a = b /\ j = k
  /\ \A a \in Directories, j \in Kinds :
       Real(mem, a, j) => PageOf(mem, a, j) \in mem.used /\ PageOf(mem, a, j) >= Base

(* What is in a directory and its page tables *)
Shape(m, a) ==
  /\ \A d \in Slots \ {CodeDir, StackDir} : m.entry[a][d] = InitialEntry(KernelPd, d)
  /\ m.entry[a][CodeDir].p \/ m.entry[a][CodeDir] = Zero
  /\ m.entry[a][StackDir].p \/ m.entry[a][StackDir] = Zero
  /\ m.entry[a][CodeDir].p =>
       \A i \in Slots \ {CodeSlot} : m.entry[CodeTable(m, a)][i] = Zero
  /\ m.entry[a][StackDir].p =>
       \A i \in Slots \ {StackSlot, GrownSlot} : m.entry[StackTable(m, a)][i] = Zero

DirShape == \A a \in Directories : Shape(mem, a)

(* The kernel's pages are as memory_init left them, free ones are clear. *)
KernelShape ==
  /\ 0..(Base - 1) \subseteq mem.used
  /\ \A page \in 0..(Base - 1), i \in Slots : mem.entry[page][i] = InitialEntry(page, i)
  /\ \A page \in Pages \ mem.used, i \in Slots : mem.entry[page][i] = Zero

(* At most one call of sys_execve is under way. *)
OneCall == \A c, e \in Building : c = e

(* A call's directory holds what its statements have put there so far. *)
Begun(m, f) ==
  /\ ~m.entry[f.cr3][StackDir].p
  /\ f.at = "map" => ~m.entry[f.cr3][CodeDir].p
  /\ f.at = "swap" => /\ m.entry[f.cr3][CodeDir].p
                      /\ m.entry[CodeTable(m, f.cr3)][CodeSlot].p
  /\ f.at = "stack" => /\ m.entry[f.cr3][CodeDir].p
                       /\ m.entry[CodeTable(m, f.cr3)][CodeSlot] = [p |-> FALSE, n |-> f.sector]

Progress ==
  \A c \in Building :
    /\ frame[c].sector \in 1..(sector - 1)
    /\ frame[c].program \in Programs
    /\ swap[frame[c].sector] = frame[c].program
    /\ frame[c].at # "create" =>
         /\ frame[c].cr3 \in Directories
         /\ prog[frame[c].cr3] = frame[c].program
         /\ \A x \in executed : x[1] # frame[c].cr3
         /\ Begun(mem, frame[c])

(* The other directories are complete: code at hand or in its swap sector. *)
Finished(a) ==
  LET pte == mem.entry[CodeTable(mem, a)][CodeSlot]
  IN /\ mem.entry[a][CodeDir].p /\ mem.entry[a][StackDir].p
     /\ mem.entry[StackTable(mem, a)][StackSlot].p
     /\ pte.p => mem.content[pte.n] = prog[a]
     /\ ~pte.p => pte.n \in 1..(sector - 1) /\ swap[pte.n] = prog[a]

Complete == \A a \in Directories \ Working({"map", "swap", "stack"}) : Finished(a)

Histories ==
  /\ live \subseteq Directories
  /\ \A x \in executed : x[1] \in Directories /\ x[2] = prog[x[1]]

(***************************************************************************)
(* The pages that are used, counted: four for every task, one more when    *)
(* its code has been loaded and one when its stack has grown; less what    *)
(* the call under way has not allocated yet.                               *)
(***************************************************************************)
Loaded == {a \in Directories : Real(mem, a, "code")}
Grown == {a \in Directories : Real(mem, a, "grown")}
Missing ==
  IF In({"map"}) # {} THEN 3 ELSE IF In({"swap", "stack"}) # {} THEN 2 ELSE 0

(* A call that has taken its swap sector and will make a directory *)
Starting == IF In({"create"}) # {} THEN 1 ELSE 0

Counted ==
  /\ Cardinality(mem.used) + Missing <=
       Base + 4 * Cardinality(Directories) + Cardinality(Loaded) + Cardinality(Grown)
  /\ Cardinality(Directories) + Starting <= sector - 1

PagingInv ==
  /\ TypeOK /\ OneUse /\ DirShape /\ KernelShape /\ OneCall
  /\ Progress /\ Complete /\ Histories /\ Counted
-----------------------------------------------------------------------------
(* Arithmetic *)

LEMMA DivMod ==
  ASSUME NEW a \in Nat, NEW b \in Nat \ {0}
  PROVE  /\ a \div b \in Nat
         /\ a % b \in 0..(b - 1)
         /\ a = b * (a \div b) + (a % b)
<1>1. PICK q \in Nat : q = a \div b
  OBVIOUS
<1>2. PICK r \in 0..(b - 1) : r = a % b
  OBVIOUS
<1>3. a = b * q + r
  BY <1>1, <1>2, SMTT(30)
<1>4. a = b * (a \div b) + (a % b)
  BY <1>1, <1>2, <1>3, Zenon
<1> QED BY <1>1, <1>2, <1>4

LEMMA DivRange ==
  ASSUME NEW a \in Nat, NEW b \in Nat \ {0}, NEW lo \in Nat, NEW hi \in Nat,
         lo * b <= a, a < hi * b
  PROVE  lo <= a \div b /\ a \div b < hi
<1>1. PICK q \in Nat, r \in 0..(b - 1) : q = a \div b /\ a = b * q + r
  BY DivMod
<1>2. CASE q < lo
  <2>1. (q + 1) * b <= lo * b
    BY <1>2, SMTT(30)
  <2>2. (q + 1) * b = b * q + b
    BY SMTT(30)
  <2> QED BY <1>1, <2>1, <2>2, lo * b \in Nat, b * q \in Nat
<1>3. CASE q >= hi
  <2>1. hi * b <= q * b
    BY <1>3, SMTT(30)
  <2>2. q * b = b * q
    BY SMTT(30)
  <2> QED BY <1>1, <2>1, <2>2, hi * b \in Nat, b * q \in Nat
<1> QED BY <1>1, <1>2, <1>3

LEMMA SizeFacts ==
  /\ ENTRIES \in Nat \ {0} /\ ITSELF_END \in Nat /\ ITSELF_END <= ENTRIES
  /\ RESERVED \in Nat \ {0} /\ MaxExec \in Nat /\ NPages \in Nat
  /\ Base \in Nat /\ Base + 6 * MaxExec <= NPages /\ 0 < Base
  /\ Pages \subseteq Nat /\ 0 \in Pages /\ KernelPd \in Pages
  /\ 0..(Base - 1) \subseteq Pages
  /\ SwapSectors \subseteq Pages
  /\ Pages \cup SwapSectors = Pages
BY PagingAssumption DEF Base, Pages, SwapSectors, KernelPd

LEMMA PlaceFacts ==
  /\ CodeDir \in Slots /\ StackDir \in Slots /\ CodeDir # StackDir
  /\ CodeDir >= ITSELF_END /\ StackDir >= ITSELF_END
  /\ CodeSlot \in Slots /\ StackSlot \in Slots /\ GrownSlot \in Slots
  /\ GrownSlot # StackSlot
  /\ (STACK - 1) \div ENTRIES = StackDir
  /\ (STACK - 1) + 1 = STACK
<1>1. /\ CODE \in Nat /\ STACK \in Nat /\ STACK - 1 \in Nat
      /\ ITSELF_END * ENTRIES <= CODE /\ CODE < ENTRIES * ENTRIES
      /\ ITSELF_END * ENTRIES <= STACK /\ STACK < ENTRIES * ENTRIES
      /\ (STACK - 1) + 1 = STACK
  <2>1. ITSELF_END * ENTRIES \in Nat /\ ENTRIES * ENTRIES \in Nat
    BY SizeFacts
  <2> QED BY <2>1, PagingAssumption
<1>2. /\ ITSELF_END <= CodeDir /\ CodeDir < ENTRIES /\ CodeDir \in Nat
      /\ ITSELF_END <= StackDir /\ StackDir < ENTRIES /\ StackDir \in Nat
  BY <1>1, SizeFacts, DivRange, DivMod DEF CodeDir, StackDir
<1>3. CodeSlot \in Slots /\ StackSlot \in Slots /\ GrownSlot \in Slots
  BY <1>1, SizeFacts, DivMod DEF CodeSlot, StackSlot, GrownSlot, Slots
<1>4. CodeDir # StackDir /\ (STACK - 1) \div ENTRIES = StackDir
  BY PagingAssumption DEF CodeDir, StackDir
<1>5. GrownSlot # StackSlot
  <2>1. STACK = ENTRIES * StackDir + StackSlot
    BY <1>1, SizeFacts, DivMod DEF StackDir, StackSlot
  <2>2. STACK - 1 = ENTRIES * ((STACK - 1) \div ENTRIES) + GrownSlot
    BY <1>1, SizeFacts, DivMod DEF GrownSlot
  <2>3. STACK - 1 = ENTRIES * StackDir + GrownSlot
    BY <1>4, <2>2, Zenon
  <2> QED BY <1>1, <1>2, <1>3, <2>1, <2>3, SizeFacts, ENTRIES * StackDir \in Nat DEF Slots
<1> QED BY <1>1, <1>2, <1>3, <1>4, <1>5, SizeFacts DEF Slots

LEMMA LowestIsThere ==
  ASSUME NEW S, S \subseteq Nat, S # {}
  PROVE  Min(S) \in S
<1>1. PICK x \in S : \A y \in S : ~(<<y, x>> \in OpToRel(<, Nat))
  BY WFMin, NatLessThanWellFounded
<1>2. \A y \in S : x <= y
  <2> TAKE y \in S
  <2>1. x \in Nat /\ y \in Nat
    OBVIOUS
  <2>2. ~(y < x)
    BY <1>1, <2>1 DEF OpToRel
  <2> QED BY <2>1, <2>2
<1> QED BY <1>2 DEF Min
-----------------------------------------------------------------------------
(* What the operations do to memory *)

Mems == [used : SUBSET Pages, entry : [Pages -> [Slots -> Entries]],
         content : [Pages -> Contents]]

To(page) == [p |-> TRUE, n |-> page]

Put(m, x, i, e) == [m EXCEPT !.entry[x][i] = e]

LEMMA EntryFacts ==
  /\ \A m \in Mems, x \in Pages, i \in Slots :
       m.entry[x][i] \in Entries /\ m.entry[x][i].n \in Pages /\ m.entry[x][i].p \in BOOLEAN
  /\ \A page \in Pages : To(page) \in Entries /\ To(page).p /\ To(page).n = page
  /\ Zero \in Entries /\ ~Zero.p /\ Zero.n = 0
  /\ \A b \in BOOLEAN, s \in SwapSectors : [p |-> b, n |-> s] \in Entries
<1>1. Entries = [p : BOOLEAN, n : Pages]
  BY SizeFacts DEF Entries
<1>2. \A e \in Entries : e.n \in Pages /\ e.p \in BOOLEAN
  BY <1>1
<1>3. \A m \in Mems, x \in Pages, i \in Slots : m.entry[x][i] \in Entries
  BY DEF Mems
<1>4. \A page \in Pages : To(page) \in Entries /\ To(page).p /\ To(page).n = page
  BY <1>1 DEF To
<1>5. Zero \in Entries /\ ~Zero.p /\ Zero.n = 0
  BY <1>1, SizeFacts DEF Zero
<1>6. \A b \in BOOLEAN, s \in SwapSectors : [p |-> b, n |-> s] \in Entries
  BY DEF Entries
<1> QED BY <1>2, <1>3, <1>4, <1>5, <1>6

LEMMA PutFacts ==
  ASSUME NEW m \in Mems, NEW x \in Pages, NEW i \in Slots, NEW e \in Entries
  PROVE  /\ Put(m, x, i, e) \in Mems
         /\ Put(m, x, i, e).used = m.used
         /\ Put(m, x, i, e).content = m.content
         /\ Put(m, x, i, e).entry[x][i] = e
         /\ \A y \in Pages, j \in Slots :
              y # x \/ j # i => Put(m, x, i, e).entry[y][j] = m.entry[y][j]
BY DEF Put, Mems

LEMMA AllocatedFacts ==
  ASSUME NEW m \in Mems, NEW x \in Pages
  PROVE  /\ Allocated(m, x) \in Mems
         /\ Allocated(m, x).used = m.used \cup {x}
         /\ Allocated(m, x).entry = m.entry
         /\ Allocated(m, x).content = m.content
BY DEF Allocated, Mems

LEMMA FreePage ==
  ASSUME NEW m \in Mems, ~(Pages \subseteq m.used)
  PROVE  p_malloc(m) \in Pages /\ p_malloc(m) \notin m.used
<1>1. Pages \ m.used \subseteq Nat /\ Pages \ m.used # {}
  BY SizeFacts
<1> QED BY <1>1, LowestIsThere DEF p_malloc

(* set_mmap where there is a page table, and where there is none *)
LEMMA MapInTable ==
  ASSUME NEW m \in Mems, NEW cr3 \in Pages, NEW virtual, NEW page \in Pages,
         virtual \div ENTRIES \in Slots, virtual % ENTRIES \in Slots,
         m.entry[cr3][virtual \div ENTRIES].p
  PROVE  set_mmap(m, cr3, virtual, page) =
           Put(m, m.entry[cr3][virtual \div ENTRIES].n, virtual % ENTRIES, To(page))
BY DEF set_mmap, Put, To

LEMMA MapWithNewTable ==
  ASSUME NEW m \in Mems, NEW cr3 \in Pages, NEW virtual, NEW page \in Pages,
         virtual \div ENTRIES \in Slots, virtual % ENTRIES \in Slots,
         ~m.entry[cr3][virtual \div ENTRIES].p,
         p_malloc(m) \in Pages
  PROVE  set_mmap(m, cr3, virtual, page) =
           Put(Put(Allocated(m, p_malloc(m)), cr3, virtual \div ENTRIES, To(p_malloc(m))),
               p_malloc(m), virtual % ENTRIES, To(page))
<1> DEFINE d == virtual \div ENTRIES
           new == p_malloc(m)
           w == Put(Allocated(m, new), cr3, d, To(new))
<1>1. Allocated(m, new) \in Mems
  BY AllocatedFacts
<1>2. w.entry[cr3][d] = To(new)
  BY <1>1, EntryFacts, PutFacts
<1>3. w.entry[cr3][d].n = new
  BY <1>2 DEF To
<1>4. set_mmap(m, cr3, virtual, page) = Put(w, w.entry[cr3][d].n, virtual % ENTRIES, To(page))
  BY DEF set_mmap, Put, To
<1> HIDE DEF w
<1>5. set_mmap(m, cr3, virtual, page) = Put(w, new, virtual % ENTRIES, To(page))
  BY <1>3, <1>4
<1> QED BY <1>5 DEF w

(* The entries of n are those of m, apart from one or two. *)
SameBut(m, n, x, i) ==
  \A y \in Pages, j \in Slots : y # x \/ j # i => n.entry[y][j] = m.entry[y][j]

SameButTwo(m, n, x, i, z, k) ==
  \A y \in Pages, j \in Slots :
    (y # x \/ j # i) /\ (y # z \/ j # k) => n.entry[y][j] = m.entry[y][j]

Changed(m, n, x, i, e) ==
  /\ n \in Mems /\ n.used = m.used /\ n.content = m.content
  /\ n.entry[x][i] = e
  /\ SameBut(m, n, x, i)

LEMMA PutChanges ==
  ASSUME NEW m \in Mems, NEW x \in Pages, NEW i \in Slots, NEW e \in Entries
  PROVE  Changed(m, Put(m, x, i, e), x, i, e)
BY PutFacts DEF Changed, SameBut

LEMMA UsedFacts ==
  ASSUME NEW m \in Mems
  PROVE  /\ IsFiniteSet(m.used) /\ Cardinality(m.used) \in Nat
         /\ Cardinality(m.used) < NPages => ~(Pages \subseteq m.used)
<1>1. IsFiniteSet(Pages) /\ Cardinality(Pages) = NPages
  <2>1. NPages - 1 \in Int /\ 0 \in Int /\ (0 > NPages - 1 => NPages = 0) /\ NPages - 1 - 0 + 1 = NPages
    BY SizeFacts
  <2> QED BY <2>1, FS_Interval DEF Pages
<1>2. m.used \in SUBSET Pages
  BY DEF Mems
<1>3. IsFiniteSet(m.used)
  BY <1>1, <1>2, FS_Subset
<1>4. Cardinality(m.used) \in Nat
  BY <1>3, FS_CardinalityType
<1>5. ASSUME Pages \subseteq m.used PROVE Cardinality(m.used) = NPages
  BY <1>1, <1>2, <1>5, m.used = Pages
<1> QED BY <1>3, <1>4, <1>5, SizeFacts

LEMMA CreateEffect ==
  ASSUME mem \in Mems, NEW c \in Callers, ExecCreate(c), ~(Pages \subseteq mem.used),
         0 \in mem.used
  PROVE  \E t \in Pages \ mem.used :
           /\ t = p_malloc(mem)
           /\ mem' \in Mems /\ mem'.used = mem.used \cup {t} /\ mem'.content = mem.content
           /\ \A i \in Slots : mem'.entry[t][i] = mem.entry[0][i]
           /\ \A y \in Pages, i \in Slots : y # t => mem'.entry[y][i] = mem.entry[y][i]
<1> DEFINE t == p_malloc(mem)
           w == Allocated(mem, t)
<1>1. t \in Pages \ mem.used
  BY FreePage
<1> HIDE DEF t
<1>2. w \in Mems /\ w.used = mem.used \cup {t} /\ w.entry = mem.entry /\ w.content = mem.content
  BY <1>1, AllocatedFacts
<1> HIDE DEF w
<1>3. mem' = [w EXCEPT !.entry[t] = w.entry[0]]
  BY DEF ExecCreate, copy_pts, KernelPd, t, w
<1>4. /\ mem' \in Mems /\ mem'.used = w.used /\ mem'.content = w.content
      /\ \A i \in Slots : mem'.entry[t][i] = w.entry[0][i]
      /\ \A y \in Pages, i \in Slots : y # t => mem'.entry[y][i] = w.entry[y][i]
  BY <1>1, <1>2, <1>3, SizeFacts DEF Mems
<1> QED BY <1>1, <1>2, <1>4 DEF t

LEMMA MapEffect ==
  ASSUME mem \in Mems, NEW c \in Callers, ExecMap(c), ~(Pages \subseteq mem.used),
         NEW a \in Pages, a = frame[c].cr3, a \in mem.used, ~mem.entry[a][CodeDir].p
  PROVE  \E t \in Pages \ mem.used :
           /\ mem' \in Mems /\ mem'.used = mem.used \cup {t} /\ mem'.content = mem.content
           /\ mem'.entry[a][CodeDir] = To(t)
           /\ mem'.entry[t][CodeSlot] = To(0)
           /\ SameButTwo(mem, mem', a, CodeDir, t, CodeSlot)
<1> DEFINE t == p_malloc(mem)
           w == Allocated(mem, t)
           v == Put(w, a, CodeDir, To(t))
<1>1. t \in Pages \ mem.used
  BY FreePage
<1>2. mem' = Put(v, t, CodeSlot, To(0))
  <2>1. CODE \div ENTRIES \in Slots /\ CODE % ENTRIES \in Slots
    BY PlaceFacts DEF CodeDir, CodeSlot
  <2>2. mem' = set_mmap(mem, a, CODE, 0)
    BY DEF ExecMap
  <2> QED BY <1>1, <2>1, <2>2, SizeFacts, MapWithNewTable DEF CodeDir, CodeSlot
<1> HIDE DEF t
<1>3. w \in Mems /\ w.used = mem.used \cup {t} /\ w.entry = mem.entry /\ w.content = mem.content
  BY <1>1, AllocatedFacts
<1> HIDE DEF w
<1>4. Changed(w, v, a, CodeDir, To(t))
  <2>1. To(t) \in Entries /\ CodeDir \in Slots
    BY <1>1, EntryFacts, PlaceFacts
  <2> QED BY <1>3, <2>1, PutChanges
<1> HIDE DEF v
<1>5. Changed(v, mem', t, CodeSlot, To(0))
  <2>1. To(0) \in Entries /\ CodeSlot \in Slots
    BY SizeFacts, EntryFacts, PlaceFacts
  <2>2. v \in Mems
    BY <1>4 DEF Changed
  <2> QED BY <1>1, <1>2, <2>1, <2>2, PutChanges
<1>6. mem'.entry[a][CodeDir] = To(t)
  BY <1>1, <1>4, <1>5, PlaceFacts DEF Changed, SameBut
<1>7. SameButTwo(mem, mem', a, CodeDir, t, CodeSlot)
  BY <1>3, <1>4, <1>5 DEF SameButTwo, Changed, SameBut
<1> QED BY <1>1, <1>3, <1>4, <1>5, <1>6, <1>7 DEF Changed

LEMMA SetSwapEffect ==
  ASSUME mem \in Mems, NEW c \in Callers, ExecSetSwap(c), NEW a \in Pages, a = frame[c].cr3,
         frame[c].sector \in SwapSectors
  PROVE  /\ mem' \in Mems /\ mem'.used = mem.used /\ mem'.content = mem.content
         /\ mem'.entry[CodeTable(mem, a)][CodeSlot] = [p |-> FALSE, n |-> frame[c].sector]
         /\ SameBut(mem, mem', CodeTable(mem, a), CodeSlot)
<1> DEFINE t == CodeTable(mem, a)
           e == [p |-> FALSE, n |-> frame[c].sector]
<1>1. mem' = Put(mem, t, CodeSlot, e)
  BY DEF ExecSetSwap, swap_sector_set, Put, CodeTable, CodeDir, CodeSlot
<1>2. t \in Pages
  BY EntryFacts, PlaceFacts DEF CodeTable
<1>3. e \in Entries
  BY EntryFacts
<1> HIDE DEF t, e
<1>4. Changed(mem, mem', t, CodeSlot, e)
  BY <1>1, <1>2, <1>3, PutChanges, PlaceFacts
<1> QED BY <1>4 DEF t, e, Changed

LEMMA StackEffect ==
  ASSUME mem \in Mems, NEW c \in Callers, ExecStack(c), Cardinality(mem.used) + 1 < NPages,
         NEW a \in Pages, a = frame[c].cr3, a \in mem.used, ~mem.entry[a][StackDir].p
  PROVE  \E x, t \in Pages \ mem.used :
           /\ x # t
           /\ mem' \in Mems /\ mem'.used = mem.used \cup {x, t} /\ mem'.content = mem.content
           /\ mem'.entry[a][StackDir] = To(t)
           /\ mem'.entry[t][StackSlot] = To(x)
           /\ SameButTwo(mem, mem', a, StackDir, t, StackSlot)
<1> DEFINE x == p_malloc(mem)
           u == Allocated(mem, x)
           t == p_malloc(u)
           w == Allocated(u, t)
           v == Put(w, a, StackDir, To(t))
<1>1. x \in Pages \ mem.used
  <2>1. ~(Pages \subseteq mem.used)
    BY UsedFacts, SizeFacts
  <2> QED BY <2>1, FreePage
<1> HIDE DEF x
<1>2. u \in Mems /\ u.used = mem.used \cup {x} /\ u.entry = mem.entry /\ u.content = mem.content
  BY <1>1, AllocatedFacts
<1> HIDE DEF u
<1>3. t \in Pages \ u.used
  <2>1. Cardinality(u.used) = Cardinality(mem.used) + 1
    <3>1. IsFiniteSet(mem.used)
      BY UsedFacts
    <3>2. x \notin mem.used
      BY <1>1
    <3>3. Cardinality(mem.used \cup {x}) = Cardinality(mem.used) + 1
      BY <3>1, <3>2, FS_AddElement, Zenon
    <3> QED BY <1>2, <3>3
  <2>2. ~(Pages \subseteq u.used)
    BY <1>2, <2>1, UsedFacts
  <2> QED BY <1>2, <2>2, FreePage
<1>4. mem' = Put(v, t, StackSlot, To(x))
  <2>1. STACK \div ENTRIES \in Slots /\ STACK % ENTRIES \in Slots
    BY PlaceFacts DEF StackDir, StackSlot
  <2>2. mem' = set_mmap(u, a, STACK, x)
    BY DEF ExecStack, load_memory, u, x
  <2>3. ~u.entry[a][STACK \div ENTRIES].p
    BY <1>2 DEF StackDir
  <2> QED BY <1>1, <1>2, <1>3, <2>1, <2>2, <2>3, MapWithNewTable DEF StackDir, StackSlot
<1> HIDE DEF t
<1>5. w \in Mems /\ w.used = u.used \cup {t} /\ w.entry = u.entry /\ w.content = u.content
  BY <1>2, <1>3, AllocatedFacts
<1> HIDE DEF w
<1>6. Changed(w, v, a, StackDir, To(t))
  <2>1. To(t) \in Entries /\ StackDir \in Slots
    BY <1>3, EntryFacts, PlaceFacts
  <2> QED BY <1>5, <2>1, PutChanges
<1> HIDE DEF v
<1>7. Changed(v, mem', t, StackSlot, To(x))
  <2>1. To(x) \in Entries /\ StackSlot \in Slots
    BY <1>1, EntryFacts, PlaceFacts
  <2>2. v \in Mems
    BY <1>6 DEF Changed
  <2> QED BY <1>3, <1>4, <2>1, <2>2, PutChanges
<1>8. mem'.entry[a][StackDir] = To(t)
  BY <1>2, <1>3, <1>6, <1>7, PlaceFacts DEF Changed, SameBut
<1>9. SameButTwo(mem, mem', a, StackDir, t, StackSlot)
  BY <1>2, <1>5, <1>6, <1>7 DEF SameButTwo, Changed, SameBut
<1>10. x # t /\ t \in Pages \ mem.used /\ mem'.used = mem.used \cup {x, t}
       /\ mem'.content = mem.content
  BY <1>1, <1>2, <1>3, <1>5, <1>6, <1>7 DEF Changed
<1> QED BY <1>1, <1>7, <1>8, <1>9, <1>10 DEF Changed

(* A page that is loaded into a table that is there *)
LEMMA LoadEffect ==
  ASSUME NEW m \in Mems, NEW a \in Pages, ~(Pages \subseteq m.used), NEW virtual,
         NEW d \in Slots, NEW i \in Slots, virtual \div ENTRIES = d, virtual % ENTRIES = i,
         m.entry[a][d].p, NEW t \in Pages, t = m.entry[a][d].n, t # a \/ i # d
  PROVE  \E x \in Pages \ m.used :
           LET n == load_memory(m, a, virtual)
           IN /\ n \in Mems /\ n.used = m.used \cup {x} /\ n.content = m.content
              /\ n.entry[t][i] = To(x) /\ SameBut(m, n, t, i)
              /\ n.entry[a][d] = m.entry[a][d]
              /\ addr_translate(n, a, virtual) = x
<1> DEFINE x == p_malloc(m)
           u == Allocated(m, x)
           n == load_memory(m, a, virtual)
<1>1. x \in Pages \ m.used
  BY FreePage
<1>2. n = set_mmap(u, a, virtual, x)
  BY DEF load_memory
<1> HIDE DEF x
<1>3. u \in Mems /\ u.used = m.used \cup {x} /\ u.entry = m.entry /\ u.content = m.content
  BY <1>1, AllocatedFacts
<1> HIDE DEF u
<1>4. n = Put(u, t, i, To(x))
  BY <1>1, <1>2, <1>3, MapInTable
<1> HIDE DEF n
<1>5. Changed(u, n, t, i, To(x))
  <2>1. To(x) \in Entries
    BY <1>1, EntryFacts
  <2> QED BY <1>3, <1>4, <2>1, PutChanges
<1>6. SameBut(m, n, t, i)
  BY <1>3, <1>5 DEF SameBut, Changed
<1>7. n.entry[a][d] = m.entry[a][d]
  BY <1>6 DEF SameBut
<1>8. addr_translate(n, a, virtual) = x
  <2>1. n.entry[t][i].n = x
    BY <1>1, <1>5, EntryFacts DEF Changed
  <2> QED BY <1>7, <2>1 DEF addr_translate
<1> QED BY <1>1, <1>3, <1>5, <1>6, <1>7, <1>8 DEF n, Changed

LEMMA CodeFaultEffect ==
  ASSUME mem \in Mems, swap \in [SwapSectors -> Contents], NEW a \in Pages, CodeFault(a),
         ~(Pages \subseteq mem.used), mem.entry[a][CodeDir].p, CodeTable(mem, a) # a,
         mem.entry[CodeTable(mem, a)][CodeSlot].n \in SwapSectors
  PROVE  \E x \in Pages \ mem.used :
           /\ mem' \in Mems /\ mem'.used = mem.used \cup {x}
           /\ mem'.entry[CodeTable(mem, a)][CodeSlot] = To(x)
           /\ SameBut(mem, mem', CodeTable(mem, a), CodeSlot)
           /\ mem'.content[x] = swap[mem.entry[CodeTable(mem, a)][CodeSlot].n]
           /\ \A y \in Pages : y # x => mem'.content[y] = mem.content[y]
<1> DEFINE t == CodeTable(mem, a)
           n == load_memory(mem, a, CODE)
<1>1. t \in Pages /\ t = mem.entry[a][CodeDir].n
  BY EntryFacts, PlaceFacts DEF CodeTable
<1>2. CODE \div ENTRIES = CodeDir /\ CODE % ENTRIES = CodeSlot
  BY DEF CodeDir, CodeSlot
<1>3. PICK x \in Pages \ mem.used :
        /\ n \in Mems /\ n.used = mem.used \cup {x} /\ n.content = mem.content
        /\ n.entry[t][CodeSlot] = To(x) /\ SameBut(mem, n, t, CodeSlot)
        /\ addr_translate(n, a, CODE) = x
  BY <1>1, <1>2, PlaceFacts, LoadEffect
<1>4. swap_sector_of(mem, a, CODE) = mem.entry[t][CodeSlot].n
  BY <1>1, <1>2 DEF swap_sector_of
<1>5. mem' = [n EXCEPT !.content[x] = swap[mem.entry[t][CodeSlot].n]]
  BY <1>3, <1>4 DEF CodeFault, on_page_fault, SwapInAligned
<1>6. swap[mem.entry[t][CodeSlot].n] \in Contents
  OBVIOUS
<1> HIDE DEF n, t
<1>7. /\ mem' \in Mems /\ mem'.used = n.used /\ mem'.entry = n.entry
      /\ mem'.content[x] = swap[mem.entry[t][CodeSlot].n]
      /\ \A y \in Pages : y # x => mem'.content[y] = n.content[y]
  BY <1>3, <1>5, <1>6 DEF Mems
<1>8. SameBut(mem, mem', t, CodeSlot)
  BY <1>3, <1>7 DEF SameBut
<1>9. /\ x \in Pages \ mem.used /\ mem' \in Mems /\ mem'.used = mem.used \cup {x}
      /\ mem'.entry[t][CodeSlot] = To(x) /\ SameBut(mem, mem', t, CodeSlot)
      /\ mem'.content[x] = swap[mem.entry[t][CodeSlot].n]
      /\ \A y \in Pages : y # x => mem'.content[y] = mem.content[y]
  BY <1>3, <1>7, <1>8
<1> QED BY <1>9 DEF t

(* The stack's page is there, so that no other page is loaded. *)
LEMMA StackFaultEffect ==
  ASSUME mem \in Mems, NEW a \in Pages, StackFault(a), ~(Pages \subseteq mem.used),
         mem.entry[a][StackDir].p, StackTable(mem, a) # a,
         mem.entry[StackTable(mem, a)][StackSlot].p
  PROVE  \E x \in Pages \ mem.used :
           /\ mem' \in Mems /\ mem'.used = mem.used \cup {x}
           /\ mem'.entry[StackTable(mem, a)][GrownSlot] = To(x)
           /\ SameBut(mem, mem', StackTable(mem, a), GrownSlot)
           /\ \A y \in Pages : y \notin {x, mem.entry[StackTable(mem, a)][StackSlot].n} =>
                mem'.content[y] = mem.content[y]
<1> DEFINE t == StackTable(mem, a)
           n == load_memory(mem, a, STACK - 1)
           z == mem.entry[t][StackSlot].n
<1>1. t \in Pages /\ t = mem.entry[a][StackDir].n
  BY EntryFacts, PlaceFacts DEF StackTable
<1>2. /\ (STACK - 1) \div ENTRIES = StackDir /\ (STACK - 1) % ENTRIES = GrownSlot
      /\ STACK \div ENTRIES = StackDir /\ STACK % ENTRIES = StackSlot
      /\ (STACK - 1) + 1 = STACK
  BY PlaceFacts DEF StackDir, StackSlot, GrownSlot
<1>3. PICK x \in Pages \ mem.used :
        /\ n \in Mems /\ n.used = mem.used \cup {x} /\ n.content = mem.content
        /\ n.entry[t][GrownSlot] = To(x) /\ SameBut(mem, n, t, GrownSlot)
        /\ n.entry[a][StackDir] = mem.entry[a][StackDir]
        /\ addr_translate(n, a, STACK - 1) = x
  BY <1>1, <1>2, PlaceFacts, LoadEffect
<1>4. z \in Pages
  BY <1>1, EntryFacts, PlaceFacts
<1>5. n.entry[t][StackSlot] = mem.entry[t][StackSlot]
  BY <1>1, <1>3, PlaceFacts DEF SameBut
<1>6. has_addr(n, a, STACK) /\ addr_translate(n, a, STACK) = z
  BY <1>1, <1>2, <1>3, <1>5 DEF has_addr, addr_translate
<1>7. mem' = [n EXCEPT !.content[x] = "mixed", !.content[z] = "mixed"]
  BY <1>2, <1>3, <1>6 DEF StackFault, on_page_fault
<1> HIDE DEF n, t, z
<1>8. /\ mem' \in Mems /\ mem'.used = n.used /\ mem'.entry = n.entry
      /\ \A y \in Pages : y \notin {x, z} => mem'.content[y] = n.content[y]
  <2>1. "mixed" \in Contents
    BY DEF Contents
  <2> QED BY <1>3, <1>4, <1>7, <2>1 DEF Mems
<1>9. SameBut(mem, mem', t, GrownSlot)
  BY <1>3, <1>8 DEF SameBut
<1>10. /\ x \in Pages \ mem.used /\ mem' \in Mems /\ mem'.used = mem.used \cup {x}
       /\ mem'.entry[t][GrownSlot] = To(x) /\ SameBut(mem, mem', t, GrownSlot)
       /\ \A y \in Pages : y \notin {x, z} => mem'.content[y] = mem.content[y]
  BY <1>3, <1>8, <1>9
<1> QED BY <1>10 DEF t, z
-----------------------------------------------------------------------------
(* Consequences of the invariant *)

LEMMA KindFacts ==
  ASSUME NEW m, NEW a
  PROVE  /\ PageOf(m, a, "directory") = a
         /\ PageOf(m, a, "code table") = CodeTable(m, a)
         /\ PageOf(m, a, "stack table") = StackTable(m, a)
         /\ PageOf(m, a, "code") = m.entry[CodeTable(m, a)][CodeSlot].n
         /\ PageOf(m, a, "stack") = m.entry[StackTable(m, a)][StackSlot].n
         /\ PageOf(m, a, "grown") = m.entry[StackTable(m, a)][GrownSlot].n
         /\ Held(m, a, "directory")
         /\ Held(m, a, "code table") <=> m.entry[a][CodeDir].p
         /\ Held(m, a, "stack table") <=> m.entry[a][StackDir].p
         /\ Held(m, a, "code") <=>
              m.entry[a][CodeDir].p /\ m.entry[CodeTable(m, a)][CodeSlot].p
         /\ Held(m, a, "stack") <=>
              m.entry[a][StackDir].p /\ m.entry[StackTable(m, a)][StackSlot].p
         /\ Held(m, a, "grown") <=>
              m.entry[a][StackDir].p /\ m.entry[StackTable(m, a)][GrownSlot].p
BY DEF PageOf, Held

LEMMA KindsAre ==
  /\ "directory" \in Kinds /\ "code table" \in Kinds /\ "stack table" \in Kinds
  /\ "code" \in Kinds /\ "stack" \in Kinds /\ "grown" \in Kinds
  /\ \A k \in Kinds : \/ k = "directory" \/ k = "code table" \/ k = "stack table"
                      \/ k = "code" \/ k = "stack" \/ k = "grown"
BY DEF Kinds

LEMMA TypeParts ==
  /\ TypeOK <=>
       /\ mem \in Mems /\ sector \in 1..(MaxExec + 1) /\ swap \in [SwapSectors -> Contents]
       /\ live \subseteq Pages /\ prog \in [Pages -> Contents]
       /\ frame \in [Callers -> [at : {"user", "create", "map", "swap", "stack"},
                                 sector : SwapSectors, program : Contents, cr3 : Pages]]
       /\ executed \subseteq (Pages \X Contents)
  /\ TypeOK' <=>
       /\ mem' \in Mems /\ sector' \in 1..(MaxExec + 1) /\ swap' \in [SwapSectors -> Contents]
       /\ live' \subseteq Pages /\ prog' \in [Pages -> Contents]
       /\ frame' \in [Callers -> [at : {"user", "create", "map", "swap", "stack"},
                                  sector : SwapSectors, program : Contents, cr3 : Pages]]
       /\ executed' \subseteq (Pages \X Contents)
BY DEF TypeOK, Mems

(* Where a task's directory and tables are, and that they are its own *)
LEMMA OwnTables ==
  ASSUME TypeOK, OneUse, NEW a \in Directories, NEW b \in Directories
  PROVE  /\ a \in Pages /\ a \in mem.used /\ a >= Base
         /\ CodeTable(mem, a) \in Pages /\ StackTable(mem, a) \in Pages
         /\ mem.entry[a][CodeDir].p =>
              /\ CodeTable(mem, a) \in mem.used /\ CodeTable(mem, a) >= Base
              /\ CodeTable(mem, a) # b
         /\ mem.entry[a][StackDir].p =>
              /\ StackTable(mem, a) \in mem.used /\ StackTable(mem, a) >= Base
              /\ StackTable(mem, a) # b
         /\ mem.entry[a][CodeDir].p /\ mem.entry[b][CodeDir].p /\ a # b =>
              CodeTable(mem, a) # CodeTable(mem, b)
         /\ mem.entry[a][StackDir].p /\ mem.entry[b][StackDir].p /\ a # b =>
              StackTable(mem, a) # StackTable(mem, b)
         /\ mem.entry[a][CodeDir].p /\ mem.entry[b][StackDir].p =>
              CodeTable(mem, a) # StackTable(mem, b)
<1>1. a \in Pages /\ b \in Pages
  BY DEF Directories
<1>2. CodeTable(mem, a) \in Pages /\ StackTable(mem, a) \in Pages
  BY <1>1, TypeParts, EntryFacts, PlaceFacts DEF CodeTable, StackTable
<1>3. \A e \in {a, b} :
        /\ Real(mem, e, "directory")
        /\ mem.entry[e][CodeDir].p => Real(mem, e, "code table")
        /\ mem.entry[e][StackDir].p => Real(mem, e, "stack table")
  BY KindFacts DEF Real
<1>4. \A e \in {a, b} :
        /\ PageOf(mem, e, "directory") = e
        /\ PageOf(mem, e, "code table") = CodeTable(mem, e)
        /\ PageOf(mem, e, "stack table") = StackTable(mem, e)
  BY KindFacts
<1> HIDE DEF Real
<1>5. /\ a \in mem.used /\ a >= Base
      /\ mem.entry[a][CodeDir].p => CodeTable(mem, a) \in mem.used /\ CodeTable(mem, a) >= Base
      /\ mem.entry[a][StackDir].p => StackTable(mem, a) \in mem.used /\ StackTable(mem, a) >= Base
  <2>1. \A k \in Kinds : Real(mem, a, k) =>
          PageOf(mem, a, k) \in mem.used /\ PageOf(mem, a, k) >= Base
    BY DEF OneUse
  <2> QED BY <1>3, <1>4, <2>1, KindsAre
<1>6. /\ mem.entry[a][CodeDir].p => CodeTable(mem, a) # b
      /\ mem.entry[a][StackDir].p => StackTable(mem, a) # b
  BY <1>3, <1>4, KindsAre DEF OneUse
<1>7. /\ mem.entry[a][CodeDir].p /\ mem.entry[b][CodeDir].p /\ a # b =>
           CodeTable(mem, a) # CodeTable(mem, b)
      /\ mem.entry[a][StackDir].p /\ mem.entry[b][StackDir].p /\ a # b =>
           StackTable(mem, a) # StackTable(mem, b)
      /\ mem.entry[a][CodeDir].p /\ mem.entry[b][StackDir].p =>
           CodeTable(mem, a) # StackTable(mem, b)
  BY <1>3, <1>4, KindsAre DEF OneUse
<1> QED BY <1>1, <1>2, <1>5, <1>6, <1>7

(* A directory that a step does not touch keeps its uses. *)
Same(m, n, a) ==
  /\ \A d \in Slots : n.entry[a][d] = m.entry[a][d]
  /\ m.entry[a][CodeDir].p =>
       \A i \in Slots : n.entry[CodeTable(m, a)][i] = m.entry[CodeTable(m, a)][i]
  /\ m.entry[a][StackDir].p =>
       \A i \in Slots : n.entry[StackTable(m, a)][i] = m.entry[StackTable(m, a)][i]

LEMMA SameUses ==
  ASSUME NEW m, NEW n, NEW a, Same(m, n, a)
  PROVE  /\ \A k \in Kinds : /\ Held(n, a, k) <=> Held(m, a, k)
                             /\ Held(m, a, k) => PageOf(n, a, k) = PageOf(m, a, k)
         /\ Shape(m, a) => Shape(n, a)
         /\ CodeTable(n, a) = CodeTable(m, a) /\ StackTable(n, a) = StackTable(m, a)
<1>1. /\ n.entry[a][CodeDir] = m.entry[a][CodeDir]
      /\ n.entry[a][StackDir] = m.entry[a][StackDir]
  BY PlaceFacts DEF Same
<1>2. CodeTable(n, a) = CodeTable(m, a) /\ StackTable(n, a) = StackTable(m, a)
  BY <1>1 DEF CodeTable, StackTable
<1>3. /\ m.entry[a][CodeDir].p =>
           n.entry[CodeTable(m, a)][CodeSlot] = m.entry[CodeTable(m, a)][CodeSlot]
      /\ m.entry[a][StackDir].p =>
           /\ n.entry[StackTable(m, a)][StackSlot] = m.entry[StackTable(m, a)][StackSlot]
           /\ n.entry[StackTable(m, a)][GrownSlot] = m.entry[StackTable(m, a)][GrownSlot]
  BY PlaceFacts DEF Same
<1>4. ASSUME NEW k \in Kinds
      PROVE  /\ Held(n, a, k) <=> Held(m, a, k)
             /\ Held(m, a, k) => PageOf(n, a, k) = PageOf(m, a, k)
  <2>1. CASE k = "directory"
    BY <2>1 DEF Held, PageOf
  <2>2. CASE k = "code table"
    BY <1>1, <1>2, <2>2 DEF Held, PageOf
  <2>3. CASE k = "stack table"
    BY <1>1, <1>2, <2>3 DEF Held, PageOf
  <2>4. CASE k = "code"
    BY <1>1, <1>2, <1>3, <2>4 DEF Held, PageOf
  <2>5. CASE k = "stack"
    BY <1>1, <1>2, <1>3, <2>5 DEF Held, PageOf
  <2>6. CASE k = "grown"
    BY <1>1, <1>2, <1>3, <2>6 DEF Held, PageOf
  <2> QED BY <2>1, <2>2, <2>3, <2>4, <2>5, <2>6, KindsAre
<1>5. Shape(m, a) => Shape(n, a)
  BY <1>1, <1>2 DEF Shape, Same
<1> QED BY <1>2, <1>4, <1>5

LEMMA FreeIsHigh ==
  ASSUME KernelShape, NEW x \in Pages \ mem.used
  PROVE  x >= Base
<1>1. x \in Nat /\ Base \in Nat /\ x \notin 0..(Base - 1)
  BY SizeFacts DEF KernelShape
<1> QED BY <1>1

(* The invariant OneUse after a step that gives a0 the uses K, all new *)
LEMMA OneUseKept ==
  ASSUME OneUse, KernelShape, TypeOK, NEW a0, NEW K,
         mem.used \subseteq mem'.used,
         \A a \in Directories', k \in Kinds : Real(mem, a, k)' =>
           \/ /\ a \in Directories /\ Real(mem, a, k)
              /\ PageOf(mem', a, k) = PageOf(mem, a, k)
           \/ a = a0 /\ k \in K,
         \A k \in K : /\ PageOf(mem', a0, k) \in Pages \ mem.used
                      /\ PageOf(mem', a0, k) \in mem'.used,
         \A j, k \in K : PageOf(mem', a0, j) = PageOf(mem', a0, k) => j = k
  PROVE  OneUse'
<1>1. \A k \in K : PageOf(mem', a0, k) >= Base
  BY FreeIsHigh
<1> HIDE DEF Real
<1>2. \A a, b \in Directories', j, k \in Kinds :
        Real(mem, a, j)' /\ Real(mem, b, k)' /\ PageOf(mem', a, j) = PageOf(mem', b, k)
          => a = b /\ j = k
  BY DEF OneUse
<1>3. \A a \in Directories', j \in Kinds :
        Real(mem, a, j)' => PageOf(mem', a, j) \in mem'.used /\ PageOf(mem', a, j) >= Base
  BY <1>1 DEF OneUse
<1>4. Base' = Base
  BY DEF Base
<1> QED BY <1>2, <1>3 DEF OneUse
-----------------------------------------------------------------------------
(* Which calls are under way *)

Labels == {"create", "map", "swap", "stack"}

LEMMA Quiet ==
  ASSUME MayRun, Masked
  PROVE  /\ Building = {}
         /\ \A labels \in SUBSET Labels : In(labels) = {} /\ Working(labels) = {}
<1>1. \A c \in Callers : frame[c].at = "user"
  BY DEF MayRun
<1>2. \A labels \in SUBSET Labels : In(labels) = {}
  BY <1>1 DEF In, Labels
<1>3. \A labels \in SUBSET Labels : Working(labels) = {}
  BY <1>2 DEF Working
<1> QED BY <1>2, <1>3 DEF Building, Labels

LEMMA OneCaller ==
  ASSUME OneCall, NEW c \in Building
  PROVE  /\ c \in Callers /\ frame[c].at \in Labels
         /\ \A labels \in SUBSET Labels :
              /\ In(labels) = IF frame[c].at \in labels THEN {c} ELSE {}
              /\ Working(labels) = IF frame[c].at \in labels THEN {frame[c].cr3} ELSE {}
<1>1. c \in Callers /\ frame[c].at \in Labels
  BY DEF Building, In, Labels
<1>2. \A labels \in SUBSET Labels : In(labels) = IF frame[c].at \in labels THEN {c} ELSE {}
  BY <1>1 DEF OneCall, Building, In, Labels
<1>3. ASSUME NEW labels \in SUBSET Labels
      PROVE  Working(labels) = IF frame[c].at \in labels THEN {frame[c].cr3} ELSE {}
  <2>1. In(labels) = IF frame[c].at \in labels THEN {c} ELSE {}
    BY <1>2
  <2> QED BY <2>1 DEF Working
<1> QED BY <1>1, <1>2, <1>3

(* After a step of c, c is the only caller that may be in a call. *)
LEMMA OneCallerNext ==
  ASSUME NEW c \in Callers, Building \subseteq {c}, NEW f,
         frame \in [Callers -> [at : Labels \cup {"user"}, sector : SwapSectors,
                                program : Contents, cr3 : Pages]],
         frame' = [frame EXCEPT ![c] = f]
  PROVE  /\ OneCall' /\ Building' \subseteq {c} /\ frame'[c] = f
         /\ \A labels \in SUBSET Labels :
              /\ In(labels)' = IF f.at \in labels THEN {c} ELSE {}
              /\ Working(labels)' = IF f.at \in labels THEN {f.cr3} ELSE {}
<1>1. \A e \in Callers \ {c} : frame'[e].at \notin Labels
  BY DEF Building, In, Labels
<1>2. frame'[c] = f
  OBVIOUS
<1>3. \A labels \in SUBSET Labels : In(labels)' = IF f.at \in labels THEN {c} ELSE {}
  BY <1>1, <1>2 DEF In
<1>4. ASSUME NEW labels \in SUBSET Labels
      PROVE  Working(labels)' = IF f.at \in labels THEN {f.cr3} ELSE {}
  <2>1. In(labels)' = IF f.at \in labels THEN {c} ELSE {}
    BY <1>3
  <2> QED BY <1>2, <2>1 DEF Working
<1>5. Building' \subseteq {c}
  BY <1>1 DEF Building, In, Labels
<1>6. OneCall'
  BY <1>5 DEF OneCall
<1> QED BY <1>2, <1>3, <1>4, <1>5, <1>6
-----------------------------------------------------------------------------
(* Counting *)

LEMMA DirectoriesFinite ==
  /\ IsFiniteSet(Directories) /\ Cardinality(Directories) \in Nat
  /\ IsFiniteSet(Directories') /\ Cardinality(Directories') \in Nat
<1>1. IsFiniteSet(Pages)
  <2>1. NPages - 1 \in Int /\ 0 \in Int
    BY SizeFacts
  <2> QED BY <2>1, FS_Interval DEF Pages
<1>2. Directories \in SUBSET Pages /\ Directories' \in SUBSET Pages
  BY DEF Directories
<1>3. IsFiniteSet(Directories) /\ IsFiniteSet(Directories')
  BY <1>1, <1>2, FS_Subset, Zenon
<1> QED BY <1>3, FS_CardinalityType

LEMMA SomeFinite ==
  ASSUME NEW D, IsFiniteSet(D), NEW S \in SUBSET D
  PROVE  /\ IsFiniteSet(S) /\ Cardinality(S) \in Nat /\ Cardinality(D) \in Nat
         /\ Cardinality(S) <= Cardinality(D)
         /\ \A a \in D \ S : Cardinality(S) + 1 <= Cardinality(D)
<1>1. IsFiniteSet(S) /\ Cardinality(S) <= Cardinality(D)
  BY FS_Subset
<1>2. Cardinality(S) \in Nat /\ Cardinality(D) \in Nat
  BY <1>1, FS_CardinalityType
<1>3. ASSUME NEW a \in D \ S
      PROVE  Cardinality(S) + 1 <= Cardinality(D)
  <2>1. a \notin S
    OBVIOUS
  <2>2. Cardinality(S \cup {a}) = Cardinality(S) + 1
    BY <1>1, <2>1, FS_AddElement, Zenon
  <2>3. S \cup {a} \in SUBSET D
    OBVIOUS
  <2>4. Cardinality(S \cup {a}) <= Cardinality(D)
    BY <2>3, FS_Subset, Zenon
  <2> QED BY <2>2, <2>4
<1> QED BY <1>1, <1>2, <1>3

(* There is a free page whenever the system needs one. *)
LEMMA Room ==
  ASSUME TypeOK, Counted
  PROVE  /\ In({"create"}) # {} => Cardinality(mem.used) < NPages
         /\ Cardinality(mem.used) + Missing <= NPages
         /\ \A a \in Directories : a \notin Loaded => Cardinality(mem.used) < NPages
         /\ \A a \in Directories : a \notin Grown => Cardinality(mem.used) < NPages
<1> DEFINE D == Cardinality(Directories)
           L == Cardinality(Loaded)
           G == Cardinality(Grown)
           U == Cardinality(mem.used)
<1>1. Loaded \in SUBSET Directories /\ Grown \in SUBSET Directories
  BY DEF Loaded, Grown
<1>2. IsFiniteSet(Directories)
  BY DirectoriesFinite
<1>3. /\ D \in Nat /\ L \in Nat /\ G \in Nat /\ L <= D /\ G <= D
      /\ \A a \in Directories : a \notin Loaded => L + 1 <= D
      /\ \A a \in Directories : a \notin Grown => G + 1 <= D
  BY <1>1, <1>2, SomeFinite
<1>4. U \in Nat
  BY TypeParts, UsedFacts
<1>5. Missing \in Nat
  BY DEF Missing
<1>6. sector \in 1..(MaxExec + 1)
  BY DEF TypeOK
<1>7. /\ U + Missing <= Base + 4 * D + L + G
      /\ D <= sector - 1
      /\ In({"create"}) # {} => D + 1 <= sector - 1
  BY <1>3, <1>6 DEF Counted, Starting
<1> HIDE DEF D, L, G, U
<1>8. /\ In({"create"}) # {} => U < NPages
      /\ U + Missing <= NPages
      /\ \A a \in Directories : a \notin Loaded => U < NPages
      /\ \A a \in Directories : a \notin Grown => U < NPages
  BY <1>3, <1>4, <1>5, <1>6, <1>7, SizeFacts
<1> QED BY <1>8 DEF U

(***************************************************************************)
(* The count after a step that takes some pages, may add a directory, and  *)
(* may load code or grow a stack                                           *)
(***************************************************************************)
LEMMA CountKept ==
  ASSUME TypeOK, TypeOK', Counted, NEW taken \in Nat, NEW dirs \in Nat, NEW loads \in Nat,
         NEW grows \in Nat,
         Cardinality(mem.used)' <= Cardinality(mem.used) + taken,
         Cardinality(Directories') = Cardinality(Directories) + dirs,
         Cardinality(Loaded') >= Cardinality(Loaded) + loads,
         Cardinality(Grown') >= Cardinality(Grown) + grows,
         taken + Missing' <= Missing + 4 * dirs + loads + grows,
         dirs + Starting' + sector <= Starting + sector'
  PROVE  Counted'
<1>1. /\ Loaded \in SUBSET Directories /\ Grown \in SUBSET Directories
      /\ Loaded' \in SUBSET Directories' /\ Grown' \in SUBSET Directories'
  BY DEF Loaded, Grown
<1>2. /\ Cardinality(Loaded) \in Nat /\ Cardinality(Grown) \in Nat
      /\ Cardinality(Loaded') \in Nat /\ Cardinality(Grown') \in Nat
  BY <1>1, DirectoriesFinite, SomeFinite
<1>3. /\ Cardinality(mem.used) \in Nat /\ Cardinality(mem'.used) \in Nat
      /\ sector \in Nat /\ sector' \in Nat
  BY TypeParts, UsedFacts, SizeFacts
<1>4. Missing \in Nat /\ Missing' \in Nat /\ Starting \in Nat /\ Starting' \in Nat
  BY DEF Missing, Starting
<1>5. Base \in Nat /\ Base' = Base
  BY SizeFacts DEF Base
<1>6. /\ Cardinality(mem.used) + Missing <=
           Base + 4 * Cardinality(Directories) + Cardinality(Loaded) + Cardinality(Grown)
      /\ Cardinality(Directories) + Starting <= sector - 1
  BY DEF Counted
<1>7. /\ Cardinality(Directories) \in Nat
      /\ Cardinality(mem'.used) <= Cardinality(mem.used) + taken
  BY DirectoriesFinite
<1>8. Cardinality(mem'.used) + Missing' <=
        Base + 4 * Cardinality(Directories') + Cardinality(Loaded') + Cardinality(Grown')
  <2>1. PICK u2 \in Nat, d2 \in Nat, l2 \in Nat, g2 \in Nat, m2 \in Nat :
          /\ u2 = Cardinality(mem'.used) /\ d2 = Cardinality(Directories')
          /\ l2 = Cardinality(Loaded') /\ g2 = Cardinality(Grown') /\ m2 = Missing'
    BY <1>2, <1>3, <1>4, DirectoriesFinite
  <2>2. /\ u2 <= Cardinality(mem.used) + taken
        /\ d2 = Cardinality(Directories) + dirs
        /\ l2 >= Cardinality(Loaded) + loads /\ g2 >= Cardinality(Grown) + grows
        /\ taken + m2 <= Missing + 4 * dirs + loads + grows
    BY <1>7, <2>1
  <2>3. u2 + m2 <= Base + 4 * d2 + l2 + g2
    BY <1>2, <1>3, <1>4, <1>5, <1>6, <1>7, <2>2, SMTT(30)
  <2> QED BY <2>1, <2>3
<1>9. Cardinality(Directories') + Starting' <= sector' - 1
  <2>1. PICK d2 \in Nat, s2 \in Nat, k2 \in Nat :
          d2 = Cardinality(Directories') /\ s2 = Starting' /\ k2 = sector'
    BY <1>3, <1>4, DirectoriesFinite
  <2>2. d2 + s2 <= k2 - 1
    BY <1>3, <1>4, <1>6, <1>7, <2>1
  <2> QED BY <2>1, <2>2
<1> QED BY <1>5, <1>8, <1>9 DEF Counted
-----------------------------------------------------------------------------
(***************************************************************************)
(* What every step that changes memory has in common: it takes the free    *)
(* pages new, and writes entries only in those, in one directory a0 and    *)
(* in the tables of a0; contents change only in new pages and in the page  *)
(* of a0's stack.                                                          *)
(***************************************************************************)
OwnTable(a0, y) ==
  /\ a0 \in Directories
  /\ \/ mem.entry[a0][CodeDir].p /\ y = CodeTable(mem, a0)
     \/ mem.entry[a0][StackDir].p /\ y = StackTable(mem, a0)

OwnStack(a0, y) ==
  a0 \in Directories /\ Real(mem, a0, "stack") /\ y = PageOf(mem, a0, "stack")

Step(a0, new) ==
  /\ mem' \in Mems /\ mem'.used = mem.used \cup new
  /\ new \subseteq Pages \ mem.used /\ a0 \in Directories \cup new
  /\ \A y \in Pages, i \in Slots :
       y \notin new /\ y # a0 /\ ~OwnTable(a0, y) => mem'.entry[y][i] = mem.entry[y][i]
  /\ \A y \in Pages : y \notin new /\ ~OwnStack(a0, y) => mem'.content[y] = mem.content[y]
  /\ Directories \subseteq Directories' /\ Directories' \subseteq Directories \cup {a0}
  /\ \A a \in Directories : prog'[a] = prog[a]
  /\ sector' = sector /\ swap' = swap /\ executed' = executed

LEMMA StepKeepsKernel ==
  ASSUME TypeOK, OneUse, KernelShape, NEW a0, NEW new, Step(a0, new)
  PROVE  KernelShape'
<1>1. \A y \in Pages : OwnTable(a0, y) => y \in mem.used /\ y >= Base
  BY OwnTables DEF OwnTable
<1>2. a0 \in mem'.used /\ a0 >= Base
  BY OwnTables, FreeIsHigh DEF Step
<1>3. \A x \in new : x >= Base
  BY FreeIsHigh DEF Step
<1>4. 0..(Base - 1) \subseteq mem'.used
  BY DEF KernelShape, Step
<1>5. ASSUME NEW page \in 0..(Base - 1), NEW i \in Slots
      PROVE  mem'.entry[page][i] = InitialEntry(page, i)
  <2>1. page \in Pages /\ ~(page >= Base)
    BY SizeFacts
  <2>2. mem'.entry[page][i] = mem.entry[page][i]
    BY <1>1, <1>2, <1>3, <2>1 DEF Step
  <2> QED BY <2>2 DEF KernelShape
<1>6. ASSUME NEW page \in Pages \ mem'.used, NEW i \in Slots
      PROVE  mem'.entry[page][i] = Zero
  <2>1. mem'.entry[page][i] = mem.entry[page][i]
    BY <1>1, <1>2 DEF Step
  <2> QED BY <2>1 DEF KernelShape, Step
<1>7. Base' = Base /\ Zero' = Zero
  BY DEF Base, Zero
<1> QED BY <1>4, <1>5, <1>6, <1>7 DEF KernelShape

(* The directories other than a0 keep their shape and their uses. *)
LEMMA StepKeepsOthers ==
  ASSUME TypeOK, OneUse, NEW a0, NEW new, Step(a0, new), NEW a \in Directories', a # a0
  PROVE  /\ a \in Directories /\ Same(mem, mem', a)
         /\ Shape(mem, a) => Shape(mem', a)
         /\ \A k \in Kinds : /\ Held(mem', a, k) <=> Held(mem, a, k)
                             /\ Held(mem, a, k) => PageOf(mem', a, k) = PageOf(mem, a, k)
         /\ a \notin Working({"swap"}) => (Finished(a) => Finished(a)')
<1>1. a \in Directories
  BY DEF Step
<1>2. Same(mem, mem', a)
  <2>1. a \in Pages /\ a \in mem.used /\ ~OwnTable(a0, a)
    BY <1>1, OwnTables DEF OwnTable
  <2>2. a \notin new
    BY <2>1 DEF Step
  <2>3. \A d \in Slots : mem'.entry[a][d] = mem.entry[a][d]
    BY <2>1, <2>2 DEF Step
  <2>4. ASSUME mem.entry[a][CodeDir].p
        PROVE  \A i \in Slots : mem'.entry[CodeTable(mem, a)][i] = mem.entry[CodeTable(mem, a)][i]
    <3>1. CodeTable(mem, a) \in Pages /\ CodeTable(mem, a) \in mem.used
      BY <1>1, <2>4, OwnTables
    <3>2. CodeTable(mem, a) # a0 /\ ~OwnTable(a0, CodeTable(mem, a))
      BY <1>1, <2>4, <3>1, OwnTables DEF OwnTable, Step
    <3> QED BY <3>1, <3>2 DEF Step
  <2>5. ASSUME mem.entry[a][StackDir].p
        PROVE  \A i \in Slots : mem'.entry[StackTable(mem, a)][i] = mem.entry[StackTable(mem, a)][i]
    <3>1. StackTable(mem, a) \in Pages /\ StackTable(mem, a) \in mem.used
      BY <1>1, <2>5, OwnTables
    <3>2. StackTable(mem, a) # a0 /\ ~OwnTable(a0, StackTable(mem, a))
      BY <1>1, <2>5, <3>1, OwnTables DEF OwnTable, Step
    <3> QED BY <3>1, <3>2 DEF Step
  <2> QED BY <2>3, <2>4, <2>5 DEF Same
<1>3. /\ Shape(mem, a) => Shape(mem', a)
      /\ \A k \in Kinds : /\ Held(mem', a, k) <=> Held(mem, a, k)
                          /\ Held(mem, a, k) => PageOf(mem', a, k) = PageOf(mem, a, k)
      /\ CodeTable(mem', a) = CodeTable(mem, a) /\ StackTable(mem', a) = StackTable(mem, a)
  BY <1>2, SameUses
<1>4. ASSUME a \notin Working({"swap"}), Finished(a)
      PROVE  Finished(a)'
  <2> DEFINE pte == mem.entry[CodeTable(mem, a)][CodeSlot]
  <2>1. /\ mem.entry[a][CodeDir].p /\ mem.entry[a][StackDir].p
        /\ mem.entry[StackTable(mem, a)][StackSlot].p
        /\ pte.p => mem.content[pte.n] = prog[a]
        /\ ~pte.p => pte.n \in 1..(sector - 1) /\ swap[pte.n] = prog[a]
    BY <1>4 DEF Finished
  <2>2. /\ mem'.entry[a][CodeDir].p /\ mem'.entry[a][StackDir].p
        /\ mem'.entry[StackTable(mem', a)][StackSlot].p
        /\ mem'.entry[CodeTable(mem', a)][CodeSlot] = pte
    BY <1>2, <1>3, <2>1, PlaceFacts DEF Same
  <2>3. prog'[a] = prog[a] /\ sector' = sector /\ swap' = swap
    BY <1>1 DEF Step
  <2>4. ASSUME pte.p PROVE mem'.content[pte.n] = mem.content[pte.n]
    <3>1. Real(mem, a, "code") /\ PageOf(mem, a, "code") = pte.n
      BY <1>4, <2>1, <2>4, KindFacts DEF Real
    <3> HIDE DEF pte, Real
    <3>2. pte.n \in mem.used
      <4>1. \A k \in Kinds : Real(mem, a, k) => PageOf(mem, a, k) \in mem.used
        BY <1>1 DEF OneUse
      <4> QED BY <3>1, <4>1, KindsAre
    <3>3. ~OwnStack(a0, pte.n)
      <4>1. ASSUME NEW b \in Directories, Real(mem, b, "stack")
            PROVE  PageOf(mem, a, "code") # PageOf(mem, b, "stack")
        <5>1. PageOf(mem, a, "code") = PageOf(mem, b, "stack") => "code" = "stack"
          BY <1>1, <3>1, <4>1, KindsAre, Zenon DEF OneUse
        <5> QED BY <5>1
      <4> QED BY <3>1, <4>1 DEF OwnStack
    <3>4. mem.used \subseteq Pages
      BY DEF TypeOK
    <3> QED BY <3>2, <3>3, <3>4 DEF Step
  <2> HIDE DEF pte
  <2> QED BY <2>1, <2>2, <2>3, <2>4 DEF Finished
<1> QED BY <1>1, <1>2, <1>3, <1>4
-----------------------------------------------------------------------------
(* The steps that leave memory alone *)

LEMMA MemoryStill ==
  ASSUME mem' = mem, prog' = prog, Working({"swap"})' = Working({"swap"})
  PROVE  /\ OneUse => OneUse'
         /\ DirShape => DirShape'
         /\ KernelShape => KernelShape'
         /\ Directories' = Directories /\ Loaded' = Loaded /\ Grown' = Grown
<1>1. Directories' = Directories
  BY DEF Directories
<1>2. \A a, k : Real(mem, a, k)' <=> Real(mem, a, k)
  BY DEF Real
<1>3. Base' = Base
  BY DEF Base
<1> HIDE DEF Real
<1>4. OneUse => OneUse'
  BY <1>1, <1>2, <1>3 DEF OneUse
<1>5. Loaded' = Loaded /\ Grown' = Grown
  BY <1>1, <1>2 DEF Loaded, Grown
<1>6. DirShape => DirShape'
  BY <1>1 DEF DirShape
<1>7. KernelShape => KernelShape'
  BY DEF KernelShape
<1> QED BY <1>1, <1>4, <1>5, <1>6, <1>7

LEMMA LoadStep ==
  ASSUME PagingInv, Masked, NEW c \in Callers, NEW program \in Programs, ExecLoad(c, program)
  PROVE  PagingInv'
<1> DEFINE f == [at |-> "create", sector |-> sector, program |-> program, cr3 |-> 0]
<1>1. TypeOK /\ OneUse /\ DirShape /\ KernelShape /\ OneCall /\ Progress /\ Complete /\ Histories /\ Counted
  BY DEF PagingInv
<1>2. Building = {} /\ \A labels \in SUBSET Labels : In(labels) = {} /\ Working(labels) = {}
  BY Quiet DEF ExecLoad
<1>3. /\ sector \in 1..MaxExec /\ sector' = sector + 1
      /\ swap' = [swap EXCEPT ![sector] = program] /\ frame' = [frame EXCEPT ![c] = f]
      /\ mem' = mem /\ live' = live /\ prog' = prog /\ executed' = executed
  <2>1. sector \in 1..(MaxExec + 1) /\ sector <= MaxExec
    BY <1>1 DEF TypeOK, ExecLoad
  <2>2. sector \in 1..MaxExec
    BY <2>1, SizeFacts
  <2> QED BY <2>2 DEF ExecLoad, Advanced
<1>4. /\ OneCall' /\ Building' \subseteq {c} /\ frame'[c] = f
      /\ \A labels \in SUBSET Labels :
           /\ In(labels)' = IF f.at \in labels THEN {c} ELSE {}
           /\ Working(labels)' = IF f.at \in labels THEN {f.cr3} ELSE {}
  <2>1. frame \in [Callers -> [at : Labels \cup {"user"}, sector : SwapSectors,
                               program : Contents, cr3 : Pages]]
    BY <1>1 DEF TypeOK, Labels
  <2> HIDE DEF f
  <2> QED BY <1>2, <1>3, <2>1, OneCallerNext
<1>5. /\ Working({"swap"})' = {} /\ Working({"map", "swap", "stack"})' = {}
      /\ Working({"swap"}) = {} /\ Working({"map", "swap", "stack"}) = {}
      /\ In({"map"})' = {} /\ In({"swap", "stack"})' = {}
      /\ In({"map"}) = {} /\ In({"swap", "stack"}) = {} /\ In({"create"}) = {}
  BY <1>2, <1>4 DEF Labels
<1>6. /\ OneUse' /\ DirShape' /\ KernelShape'
      /\ Directories' = Directories /\ Loaded' = Loaded /\ Grown' = Grown
  BY <1>1, <1>3, <1>5, MemoryStill
<1>7. TypeOK'
  <2>1. program \in Contents
    BY DEF Contents
  <2>2. sector \in SwapSectors /\ sector' \in 1..(MaxExec + 1)
    BY <1>3, SizeFacts DEF SwapSectors
  <2>3. f \in [at : {"user", "create", "map", "swap", "stack"},
               sector : SwapSectors, program : Contents, cr3 : Pages]
    BY <2>1, <2>2, SizeFacts
  <2> HIDE DEF f
  <2> QED BY <1>1, <1>3, <2>1, <2>2, <2>3 DEF TypeOK
<1>8. Progress'
  <2>1. sector \in SwapSectors
    BY <1>3, SizeFacts DEF SwapSectors
  <2>2. swap'[sector] = program
    BY <1>1, <1>3, <2>1 DEF TypeOK
  <2>3. f.sector \in 1..(sector' - 1) /\ f.program \in Programs /\ swap'[f.sector] = f.program
    BY <1>3, <2>2, SizeFacts
  <2>4. f.at = "create"
    OBVIOUS
  <2> HIDE DEF f
  <2> QED BY <1>4, <2>3, <2>4 DEF Progress
<1>9. Complete'
  <2>1. ASSUME NEW a \in Directories
        PROVE  Finished(a)'
    <3>1. Finished(a)
      BY <1>1, <1>5 DEF Complete
    <3>2. PICK pte : pte = mem.entry[CodeTable(mem, a)][CodeSlot]
      OBVIOUS
    <3>3. ASSUME pte.n \in 1..(sector - 1), swap[pte.n] = prog[a]
          PROVE  pte.n \in 1..(sector' - 1) /\ swap'[pte.n] = prog[a]
      <4>1. sector \in SwapSectors /\ pte.n \in SwapSectors /\ pte.n # sector
        BY <1>3, <3>3, SizeFacts DEF SwapSectors
      <4> QED BY <1>1, <1>3, <3>3, <4>1 DEF TypeOK
    <3> QED BY <1>3, <3>1, <3>2, <3>3 DEF Finished
  <2> QED BY <1>5, <1>6, <2>1 DEF Complete
<1>10. Histories'
  BY <1>1, <1>3, <1>6 DEF Histories
<1>11. Counted'
  <2>1. In({"create"})' = {c}
    BY <1>4 DEF Labels
  <2>2. Missing = 0 /\ Missing' = 0 /\ Starting = 0 /\ Starting' = 1
    BY <1>5, <2>1 DEF Missing, Starting
  <2>3. Cardinality(Directories) \in Nat
    BY DirectoriesFinite
  <2>4. Cardinality(Directories) + 1 <= sector' - 1
    BY <1>1, <1>3, <2>2, <2>3 DEF Counted
  <2>5. Cardinality(Directories') + Starting' <= sector' - 1
    BY <1>6, <2>2, <2>4
  <2>6. Cardinality(mem'.used) + Missing' <=
          Base + 4 * Cardinality(Directories') + Cardinality(Loaded') + Cardinality(Grown')
    BY <1>1, <1>3, <1>6, <2>2 DEF Counted
  <2>7. Base' = Base
    BY DEF Base
  <2> QED BY <2>5, <2>6, <2>7 DEF Counted
<1> QED BY <1>4, <1>6, <1>7, <1>8, <1>9, <1>10, <1>11 DEF PagingInv
LEMMA SystemStill ==
  ASSUME PagingInv, mem' = mem, prog' = prog, frame' = frame, sector' = sector, swap' = swap
  PROVE  /\ OneUse' /\ DirShape' /\ KernelShape' /\ OneCall' /\ Complete' /\ Counted'
         /\ Directories' = Directories /\ Building' = Building
<1>1. /\ \A labels : In(labels)' = In(labels) /\ Working(labels)' = Working(labels)
      /\ Building' = Building
  BY DEF In, Working, Building
<1>2. /\ OneUse' /\ DirShape' /\ KernelShape'
      /\ Directories' = Directories /\ Loaded' = Loaded /\ Grown' = Grown
  BY <1>1, MemoryStill DEF PagingInv
<1>3. OneCall'
  BY <1>1 DEF PagingInv, OneCall
<1>4. \A a : Finished(a)' <=> Finished(a)
  BY DEF Finished
<1>5. Complete'
  BY <1>1, <1>2, <1>4 DEF PagingInv, Complete
<1>6. Missing' = Missing /\ Starting' = Starting
  BY <1>1 DEF Missing, Starting
<1>7. Counted'
  BY <1>2, <1>6 DEF PagingInv, Counted, Base
<1> QED BY <1>1, <1>2, <1>3, <1>5, <1>7

LEMMA StutterStep ==
  ASSUME PagingInv, UNCHANGED vars
  PROVE  PagingInv'
<1>1. /\ mem' = mem /\ sector' = sector /\ swap' = swap /\ live' = live /\ prog' = prog
      /\ frame' = frame /\ executed' = executed
  BY DEF vars
<1>2. /\ OneUse' /\ DirShape' /\ KernelShape' /\ OneCall' /\ Complete' /\ Counted'
      /\ Directories' = Directories /\ Building' = Building
  BY <1>1, SystemStill
<1>3. TypeOK'
  BY <1>1 DEF PagingInv, TypeOK
<1>4. Progress' /\ Histories'
  BY <1>1, <1>2 DEF PagingInv, Progress, Histories
<1> QED BY <1>2, <1>3, <1>4 DEF PagingInv

LEMMA RunsCodeStep ==
  ASSUME PagingInv, Masked, NEW a \in live, RunsCode(a)
  PROVE  PagingInv'
<1> DEFINE x == <<a, mem.content[addr_translate(mem, a, CODE)]>>
<1>1. /\ mem' = mem /\ sector' = sector /\ swap' = swap /\ live' = live /\ prog' = prog
      /\ frame' = frame /\ executed' = executed \cup {x} /\ has_addr(mem, a, CODE)
  BY DEF RunsCode
<1>2. /\ OneUse' /\ DirShape' /\ KernelShape' /\ OneCall' /\ Complete' /\ Counted'
      /\ Directories' = Directories /\ Building' = Building
  BY <1>1, SystemStill
<1>3. Building = {} /\ Working({"map", "swap", "stack"}) = {}
  BY Quiet DEF RunsCode, Labels
<1>4. a \in Directories /\ a \in Pages
  BY DEF PagingInv, Histories, Directories
<1>5. Finished(a)
  BY <1>3, <1>4 DEF PagingInv, Complete
<1>6. addr_translate(mem, a, CODE) \in Pages
  <2>1. CodeTable(mem, a) \in Pages
    BY <1>4, TypeParts, EntryFacts, PlaceFacts DEF CodeTable, PagingInv
  <2>2. mem.entry[CodeTable(mem, a)][CodeSlot].n \in Pages
    BY <2>1, TypeParts, EntryFacts, PlaceFacts DEF PagingInv
  <2> QED BY <2>2 DEF addr_translate, CodeTable, CodeDir, CodeSlot
<1>7. mem.content[addr_translate(mem, a, CODE)] = prog[a]
  BY <1>1, <1>5 DEF Finished, has_addr, addr_translate, CodeTable, CodeDir, CodeSlot
<1>8. x \in Pages \X Contents /\ x[1] = a /\ x[2] = prog[a]
  BY <1>4, <1>6, <1>7 DEF PagingInv, TypeOK
<1> HIDE DEF x
<1>9. TypeOK'
  BY <1>1, <1>8 DEF PagingInv, TypeOK
<1>10. Progress'
  BY <1>2, <1>3 DEF Progress
<1>11. Histories'
  BY <1>1, <1>2, <1>4, <1>8 DEF PagingInv, Histories
<1> QED BY <1>2, <1>9, <1>10, <1>11 DEF PagingInv

LEMMA ExitStep ==
  ASSUME PagingInv, NEW a \in live, SysExit(a)
  PROVE  PagingInv'
<1>1. /\ mem' = mem /\ sector' = sector /\ swap' = swap /\ live' = live \ {a} /\ prog' = prog
      /\ frame' = frame /\ executed' = executed
  BY DEF SysExit
<1>2. /\ OneUse' /\ DirShape' /\ KernelShape' /\ OneCall' /\ Complete' /\ Counted'
      /\ Directories' = Directories /\ Building' = Building
  BY <1>1, SystemStill
<1>3. TypeOK'
  BY <1>1 DEF PagingInv, TypeOK
<1>4. Progress' /\ Histories'
  BY <1>1, <1>2 DEF PagingInv, Progress, Histories
<1> QED BY <1>2, <1>3, <1>4 DEF PagingInv
-----------------------------------------------------------------------------
(* The steps that change memory *)

(* What a step has to do in its directory a0 for the invariant to hold *)
LEMMA StepInvariants ==
  ASSUME PagingInv, NEW a0, NEW new, Step(a0, new), NEW K,
         Working({"swap"}) \subseteq {a0}, Working({"swap"})' \subseteq {a0},
         Working({"map", "swap", "stack"}) \subseteq {a0},
         \A k \in Kinds : Real(mem, a0, k)' =>
           \/ a0 \in Directories /\ Real(mem, a0, k) /\ PageOf(mem', a0, k) = PageOf(mem, a0, k)
           \/ k \in K,
         \A k \in K : PageOf(mem', a0, k) \in new,
         \A j, k \in K : PageOf(mem', a0, j) = PageOf(mem', a0, k) => j = k,
         Shape(mem', a0),
         a0 \in Working({"map", "swap", "stack"})' \/ Finished(a0)'
  PROVE  /\ OneUse' /\ DirShape' /\ KernelShape' /\ Complete'
         /\ Loaded \ {a0} \subseteq Loaded' /\ Grown \ {a0} \subseteq Grown'
<1>1. TypeOK /\ OneUse /\ KernelShape /\ DirShape /\ Complete
  BY DEF PagingInv
<1>2. \A a \in Directories' : a # a0 =>
        /\ a \in Directories
        /\ Shape(mem, a) => Shape(mem', a)
        /\ \A k \in Kinds : /\ Held(mem', a, k) <=> Held(mem, a, k)
                            /\ Held(mem, a, k) => PageOf(mem', a, k) = PageOf(mem, a, k)
        /\ a \notin Working({"swap"}) => (Finished(a) => Finished(a)')
  BY <1>1, StepKeepsOthers
<1>3. \A a : a # a0 =>
        \A k : /\ Real(mem, a, k) <=> Held(mem, a, k)
               /\ Real(mem, a, k)' <=> Held(mem', a, k)
  BY DEF Real
<1> HIDE DEF Real
<1>4. OneUse'
  <2>1. \A a \in Directories', k \in Kinds : Real(mem, a, k)' =>
          \/ /\ a \in Directories /\ Real(mem, a, k)
             /\ PageOf(mem', a, k) = PageOf(mem, a, k)
          \/ a = a0 /\ k \in K
    <3> SUFFICES ASSUME NEW a \in Directories', NEW k \in Kinds, Real(mem, a, k)'
                 PROVE  \/ /\ a \in Directories /\ Real(mem, a, k)
                           /\ PageOf(mem', a, k) = PageOf(mem, a, k)
                        \/ a = a0 /\ k \in K
      OBVIOUS
    <3>1. CASE a = a0
      BY <3>1
    <3>2. CASE a # a0
      BY <1>2, <1>3, <3>2
    <3> QED BY <3>1, <3>2
  <2>2. \A k \in K : /\ PageOf(mem', a0, k) \in Pages \ mem.used
                     /\ PageOf(mem', a0, k) \in mem'.used
    BY DEF Step
  <2>3. mem.used \subseteq mem'.used
    BY DEF Step
  <2> QED BY <1>1, <2>1, <2>2, <2>3, OneUseKept
<1>5. DirShape'
  <2>1. \A a \in Directories' : Shape(mem', a)
    BY <1>1, <1>2 DEF DirShape
  <2> QED BY <2>1 DEF DirShape
<1>6. KernelShape'
  BY <1>1, StepKeepsKernel
<1>7. Complete'
  <2>1. ASSUME NEW a \in Directories', a \notin Working({"map", "swap", "stack"})'
        PROVE  Finished(a)'
    <3>1. CASE a = a0
      BY <2>1, <3>1
    <3>2. CASE a # a0
      <4>1. a \in Directories /\ a \notin Working({"map", "swap", "stack"}) /\ a \notin Working({"swap"})
        BY <1>2, <3>2
      <4>2. Finished(a)
        BY <1>1, <4>1 DEF Complete
      <4> QED BY <1>2, <3>2, <4>1, <4>2
    <3> QED BY <3>1, <3>2
  <2> QED BY <2>1 DEF Complete
<1>8. Directories \subseteq Directories'
  BY DEF Step
<1>9. Loaded \ {a0} \subseteq Loaded'
  BY <1>2, <1>3, <1>8, KindsAre DEF Loaded
<1>10. Grown \ {a0} \subseteq Grown'
  BY <1>2, <1>3, <1>8, KindsAre DEF Grown
<1> QED BY <1>4, <1>5, <1>6, <1>7, <1>9, <1>10

LEMMA LoadedFinite ==
  /\ Cardinality(Loaded) \in Nat /\ Cardinality(Grown) \in Nat
  /\ Cardinality(Loaded') \in Nat /\ Cardinality(Grown') \in Nat
<1>1. /\ Loaded \in SUBSET Directories /\ Grown \in SUBSET Directories
      /\ Loaded' \in SUBSET Directories' /\ Grown' \in SUBSET Directories'
  BY DEF Loaded, Grown
<1> QED BY <1>1, DirectoriesFinite, SomeFinite

(* The count of pages, from the pages a step takes *)
LEMMA TakenOne ==
  ASSUME TypeOK, TypeOK', NEW x \in Pages \ mem.used, mem'.used = mem.used \cup {x}
  PROVE  Cardinality(mem'.used) = Cardinality(mem.used) + 1
<1>1. IsFiniteSet(mem.used) /\ x \notin mem.used
  BY TypeParts, UsedFacts
<1>2. Cardinality(mem.used \cup {x}) = Cardinality(mem.used) + 1
  BY <1>1, FS_AddElement, Zenon
<1> QED BY <1>2

LEMMA TakenTwo ==
  ASSUME TypeOK, TypeOK', NEW x \in Pages \ mem.used, NEW y \in Pages \ mem.used, x # y,
         mem'.used = mem.used \cup {x, y}
  PROVE  Cardinality(mem'.used) = Cardinality(mem.used) + 2
<1>1. IsFiniteSet(mem.used) /\ Cardinality(mem.used) \in Nat /\ x \notin mem.used
  BY TypeParts, UsedFacts
<1>2. IsFiniteSet(mem.used \cup {x}) /\ Cardinality(mem.used \cup {x}) = Cardinality(mem.used) + 1
  BY <1>1, FS_AddElement, Zenon
<1>3. y \notin mem.used \cup {x}
  OBVIOUS
<1>4. Cardinality((mem.used \cup {x}) \cup {y}) = Cardinality(mem.used \cup {x}) + 1
  BY <1>2, <1>3, FS_AddElement, Zenon
<1>5. (mem.used \cup {x}) \cup {y} = mem.used \cup {x, y}
  OBVIOUS
<1>6. Cardinality(mem.used \cup {x, y}) = Cardinality(mem.used \cup {x}) + 1
  BY <1>4, <1>5, Zenon
<1>7. Cardinality(mem.used \cup {x}) + 1 = Cardinality(mem.used) + 2
  BY <1>1, <1>2
<1> QED BY <1>6, <1>7, Zenon

LEMMA LoadedCount ==
  /\ Loaded \subseteq Loaded' => Cardinality(Loaded') >= Cardinality(Loaded)
  /\ Grown \subseteq Grown' => Cardinality(Grown') >= Cardinality(Grown)
  /\ \A a : a \notin Loaded /\ Loaded \cup {a} \subseteq Loaded' =>
       Cardinality(Loaded') >= Cardinality(Loaded) + 1
  /\ \A a : a \notin Grown /\ Grown \cup {a} \subseteq Grown' =>
       Cardinality(Grown') >= Cardinality(Grown) + 1
<1>1. IsFiniteSet(Directories)'
  BY DirectoriesFinite
<1>2. Loaded' \in SUBSET Directories' /\ Grown' \in SUBSET Directories'
  BY DEF Loaded, Grown
<1>3. IsFiniteSet(Loaded') /\ IsFiniteSet(Grown')
  BY <1>1, <1>2, SomeFinite
<1>4. ASSUME NEW S, NEW T, IsFiniteSet(T), S \subseteq T
      PROVE  /\ Cardinality(T) >= Cardinality(S)
             /\ \A a \in T \ S : Cardinality(T) >= Cardinality(S) + 1
  BY <1>4, SomeFinite
<1> QED BY <1>3, <1>4
LEMMA InitialFacts ==
  /\ \A d \in Slots : d >= ITSELF_END => InitialEntry(KernelPd, d) = Zero
  /\ \A d \in Slots : d < ITSELF_END => InitialEntry(KernelPd, d) = To(RESERVED + d)
  /\ InitialEntry(KernelPd, CodeDir) = Zero /\ InitialEntry(KernelPd, StackDir) = Zero
<1>1. KernelPd \notin RESERVED..(RESERVED + ITSELF_END - 1)
  BY SizeFacts DEF KernelPd
<1>2. ASSUME NEW d \in Slots, d >= ITSELF_END
      PROVE  InitialEntry(KernelPd, d) = Zero
  <2>1. ~(d < ITSELF_END)
    BY <1>2, SizeFacts DEF Slots
  <2> QED BY <1>1, <2>1 DEF InitialEntry
<1>3. \A d \in Slots : d < ITSELF_END => InitialEntry(KernelPd, d) = To(RESERVED + d)
  BY <1>1 DEF InitialEntry, To
<1> QED BY <1>2, <1>3, PlaceFacts

(* The caller's frame, where its call is *)
LEMMA CallFacts ==
  ASSUME PagingInv, NEW c \in Callers, frame[c].at \in Labels
  PROVE  /\ c \in Building /\ Building \subseteq {c}
         /\ frame \in [Callers -> [at : Labels \cup {"user"}, sector : SwapSectors,
                                   program : Contents, cr3 : Pages]]
         /\ frame[c].sector \in 1..(sector - 1) /\ frame[c].sector \in SwapSectors
         /\ frame[c].program \in Programs /\ swap[frame[c].sector] = frame[c].program
         /\ frame[c].at # "create" =>
              /\ frame[c].cr3 \in Directories /\ prog[frame[c].cr3] = frame[c].program
              /\ \A x \in executed : x[1] # frame[c].cr3
              /\ Begun(mem, frame[c])
         /\ \A labels \in SUBSET Labels :
              /\ In(labels) = IF frame[c].at \in labels THEN {c} ELSE {}
              /\ Working(labels) = IF frame[c].at \in labels THEN {frame[c].cr3} ELSE {}
<1>1. c \in Building
  BY DEF Building, In, Labels
<1>2. Building \subseteq {c}
  BY <1>1 DEF PagingInv, OneCall
<1>3. frame \in [Callers -> [at : Labels \cup {"user"}, sector : SwapSectors,
                             program : Contents, cr3 : Pages]]
  BY DEF PagingInv, TypeOK, Labels
<1> QED BY <1>1, <1>2, <1>3, OneCaller DEF PagingInv, Progress

LEMMA CreateStep ==
  ASSUME PagingInv, NEW c \in Callers, ExecCreate(c)
  PROVE  PagingInv'
<1>1. TypeOK /\ OneUse /\ DirShape /\ KernelShape /\ OneCall /\ Progress /\ Complete /\ Histories /\ Counted
  BY DEF PagingInv
<1>2. frame[c].at = "create" /\ frame[c].at \in Labels
  BY DEF ExecCreate, Labels
<1>3. /\ In({"create"}) = {c} /\ In({"map"}) = {} /\ In({"swap", "stack"}) = {}
      /\ Working({"swap"}) = {} /\ Working({"map", "swap", "stack"}) = {}
  BY <1>2, CallFacts DEF Labels
<1>4. ~(Pages \subseteq mem.used) /\ 0 \in mem.used
  <2>1. Cardinality(mem.used) < NPages
    BY <1>1, <1>3, Room
  <2> QED BY <1>1, <2>1, TypeParts, UsedFacts, SizeFacts DEF KernelShape
<1>5. PICK t \in Pages \ mem.used :
        /\ t = p_malloc(mem)
        /\ mem' \in Mems /\ mem'.used = mem.used \cup {t} /\ mem'.content = mem.content
        /\ \A i \in Slots : mem'.entry[t][i] = mem.entry[0][i]
        /\ \A y \in Pages, i \in Slots : y # t => mem'.entry[y][i] = mem.entry[y][i]
  BY <1>1, <1>4, TypeParts, CreateEffect
<1>6. PICK f : f = [frame[c] EXCEPT !.at = "map", !.cr3 = t]
  OBVIOUS
<1>7. /\ live' = live \cup {t} /\ prog' = [prog EXCEPT ![t] = frame[c].program]
      /\ sector' = sector /\ swap' = swap /\ executed' = executed
      /\ frame' = [frame EXCEPT ![c].at = "map", ![c].cr3 = t]
  BY <1>5 DEF ExecCreate
<1>8. /\ f \in [at : Labels \cup {"user"}, sector : SwapSectors, program : Contents, cr3 : Pages]
      /\ f.at = "map" /\ f.cr3 = t /\ f.sector = frame[c].sector /\ f.program = frame[c].program
      /\ frame' = [frame EXCEPT ![c] = f]
  <2>1. /\ frame \in [Callers -> [at : Labels \cup {"user"}, sector : SwapSectors,
                                  program : Contents, cr3 : Pages]]
    BY <1>2, CallFacts
  <2>2. "map" \in Labels \cup {"user"} /\ t \in Pages
    BY DEF Labels
  <2> QED BY <1>6, <1>7, <2>1, <2>2
<1>9. /\ OneCall' /\ Building' \subseteq {c} /\ frame'[c] = f
      /\ \A labels \in SUBSET Labels :
           /\ In(labels)' = IF f.at \in labels THEN {c} ELSE {}
           /\ Working(labels)' = IF f.at \in labels THEN {f.cr3} ELSE {}
  BY <1>2, <1>8, CallFacts, OneCallerNext
<1>10. /\ In({"create"})' = {} /\ In({"map"})' = {c}
       /\ Working({"swap"})' = {} /\ Working({"map", "swap", "stack"})' = {t}
  BY <1>8, <1>9 DEF Labels
<1>11. TypeOK'
  <2>1. frame[c].program \in Contents
    BY <1>2, CallFacts DEF Contents
  <2>2. frame' \in [Callers -> [at : {"user", "create", "map", "swap", "stack"},
                                sector : SwapSectors, program : Contents, cr3 : Pages]]
    BY <1>1, <1>8, TypeParts DEF Labels
  <2>3. live' \subseteq Pages /\ prog' \in [Pages -> Contents]
    BY <1>1, <1>7, <2>1, TypeParts
  <2> QED BY <1>1, <1>5, <1>7, <2>2, <2>3, TypeParts
<1>12. /\ t \notin Directories /\ Directories' = Directories \cup {t}
       /\ \A a \in Directories : prog'[a] = prog[a]
       /\ prog'[t] = frame[c].program
  <2>1. t \notin Directories
    BY <1>1, OwnTables
  <2>2. frame[c].program # "none"
    BY <1>2, CallFacts, PagingAssumption
  <2>3. prog \in [Pages -> Contents]
    BY <1>1 DEF TypeOK
  <2> QED BY <1>7, <2>1, <2>2, <2>3 DEF Directories
<1>13. \A i \in Slots : mem'.entry[t][i] = InitialEntry(KernelPd, i)
  BY <1>1, <1>5, SizeFacts DEF KernelShape, KernelPd
<1>14. mem'.entry[t][CodeDir] = Zero /\ mem'.entry[t][StackDir] = Zero /\ ~Zero.p
  BY <1>13, InitialFacts, PlaceFacts, EntryFacts
<1>15. Step(t, {t})
  BY <1>5, <1>7, <1>12 DEF Step
<1>16. /\ OneUse' /\ DirShape' /\ KernelShape' /\ Complete'
       /\ Loaded \ {t} \subseteq Loaded' /\ Grown \ {t} \subseteq Grown'
  <2> DEFINE K == {"directory"}
  <2>1. \A k \in Kinds : Held(mem', t, k) => k \in K
    <3>1. \A k \in Kinds : k # "directory" => ~Held(mem', t, k)
      <4>1. /\ ~Held(mem', t, "code table") /\ ~Held(mem', t, "stack table")
            /\ ~Held(mem', t, "code") /\ ~Held(mem', t, "stack") /\ ~Held(mem', t, "grown")
        BY <1>14 DEF Held
      <4> QED BY <4>1, KindsAre
    <3> QED BY <3>1
  <2>2. \A k \in Kinds : Real(mem, t, k)' => k \in K
    BY <2>1 DEF Real
  <2>3. \A k \in K : PageOf(mem', t, k) \in {t}
    BY DEF PageOf
  <2>4. Shape(mem', t)
    BY <1>13, <1>14 DEF Shape
  <2>5. \A j, k \in K : j = k
    OBVIOUS
  <2> HIDE DEF K
  <2> QED BY <1>3, <1>10, <1>15, <2>2, <2>3, <2>4, <2>5, StepInvariants
<1>17. Progress'
  <2>1. Begun(mem', f)
    BY <1>8, <1>14 DEF Begun
  <2>2. \A x \in executed : x[1] # t
    BY <1>1, <1>12 DEF Histories
  <2>3. t \in Directories' /\ prog'[t] = f.program
    BY <1>8, <1>12
  <2>4. /\ f.sector \in 1..(sector' - 1) /\ f.program \in Programs
        /\ swap'[f.sector] = f.program
    BY <1>2, <1>7, <1>8, CallFacts
  <2> QED BY <1>7, <1>8, <1>9, <2>1, <2>2, <2>3, <2>4 DEF Progress
<1>18. Histories'
  BY <1>1, <1>7, <1>12 DEF Histories
<1>19. Counted'
  <2>1. Missing = 0 /\ Missing' = 3 /\ Starting = 1 /\ Starting' = 0
    BY <1>3, <1>10 DEF Missing, Starting
  <2>2. Cardinality(mem'.used) = Cardinality(mem.used) + 1
    BY <1>1, <1>5, <1>11, TakenOne
  <2>3. Cardinality(Directories') = Cardinality(Directories) + 1
    BY <1>12, DirectoriesFinite, FS_AddElement
  <2>4. Loaded \subseteq Loaded' /\ Grown \subseteq Grown'
    BY <1>12, <1>16 DEF Loaded, Grown
  <2>5. Cardinality(Loaded') >= Cardinality(Loaded) /\ Cardinality(Grown') >= Cardinality(Grown)
    BY <2>4, LoadedCount
  <2>6. Cardinality(mem.used) \in Nat /\ sector \in Nat
    BY <1>1, TypeParts, UsedFacts
  <2>7. /\ Cardinality(mem.used)' <= Cardinality(mem.used) + 1
        /\ Cardinality(Loaded') >= Cardinality(Loaded) + 0
        /\ Cardinality(Grown') >= Cardinality(Grown) + 0
        /\ 1 + Missing' <= Missing + 4 * 1 + 0 + 0
        /\ 1 + Starting' + sector <= Starting + sector'
        /\ 0 \in Nat /\ 1 \in Nat
    BY <1>7, <2>1, <2>2, <2>5, <2>6, LoadedFinite
  <2> QED BY <1>1, <1>11, <2>3, <2>7, CountKept, Zenon
<1> QED BY <1>9, <1>11, <1>16, <1>17, <1>18, <1>19 DEF PagingInv
(* The frame of a call after a step to its next label *)
LEMMA GoFacts ==
  ASSUME PagingInv, NEW c \in Callers, frame[c].at \in Labels, NEW label \in Labels, Go(c, label)
  PROVE  /\ OneCall' /\ Building' \subseteq {c}
         /\ frame'[c].at = label /\ frame'[c].cr3 = frame[c].cr3
         /\ frame'[c].sector = frame[c].sector /\ frame'[c].program = frame[c].program
         /\ frame' \in [Callers -> [at : {"user", "create", "map", "swap", "stack"},
                                    sector : SwapSectors, program : Contents, cr3 : Pages]]
         /\ \A labels \in SUBSET Labels :
              /\ In(labels)' = IF label \in labels THEN {c} ELSE {}
              /\ Working(labels)' = IF label \in labels THEN {frame[c].cr3} ELSE {}
<1>1. frame \in [Callers -> [at : Labels \cup {"user"}, sector : SwapSectors,
                             program : Contents, cr3 : Pages]]
  BY CallFacts
<1>2. PICK f : f = [frame[c] EXCEPT !.at = label]
  OBVIOUS
<1>3. /\ f \in [at : Labels \cup {"user"}, sector : SwapSectors, program : Contents, cr3 : Pages]
      /\ f.at = label /\ f.cr3 = frame[c].cr3
      /\ f.sector = frame[c].sector /\ f.program = frame[c].program
      /\ frame' = [frame EXCEPT ![c] = f]
  BY <1>1, <1>2 DEF Go
<1>4. /\ OneCall' /\ Building' \subseteq {c} /\ frame'[c] = f
      /\ \A labels \in SUBSET Labels :
           /\ In(labels)' = IF f.at \in labels THEN {c} ELSE {}
           /\ Working(labels)' = IF f.at \in labels THEN {f.cr3} ELSE {}
  BY <1>1, <1>3, CallFacts, OneCallerNext
<1>5. frame' \in [Callers -> [at : {"user", "create", "map", "swap", "stack"},
                              sector : SwapSectors, program : Contents, cr3 : Pages]]
  BY <1>1, <1>3 DEF Labels
<1> QED BY <1>3, <1>4, <1>5

LEMMA MapStep ==
  ASSUME PagingInv, NEW c \in Callers, ExecMap(c)
  PROVE  PagingInv'
<1>1. TypeOK /\ OneUse /\ DirShape /\ KernelShape /\ OneCall /\ Progress /\ Complete /\ Histories /\ Counted
  BY DEF PagingInv
<1>2. /\ frame[c].at = "map" /\ frame[c].at \in Labels /\ "swap" \in Labels /\ Go(c, "swap")
      /\ sector' = sector /\ swap' = swap /\ live' = live /\ prog' = prog /\ executed' = executed
  BY DEF ExecMap, Labels
<1>3. PICK a \in Pages : a = frame[c].cr3
  BY <1>2, CallFacts
<1>4. /\ a \in Directories /\ prog[a] = frame[c].program /\ \A x \in executed : x[1] # a
      /\ ~mem.entry[a][StackDir].p /\ ~mem.entry[a][CodeDir].p
  BY <1>2, <1>3, CallFacts DEF Begun
<1>5. /\ In({"create"}) = {} /\ In({"map"}) = {c}
      /\ Working({"swap"}) = {} /\ Working({"map", "swap", "stack"}) = {a}
  BY <1>2, <1>3, CallFacts DEF Labels
<1>6. /\ In({"create"})' = {} /\ In({"map"})' = {} /\ In({"swap", "stack"})' = {c}
      /\ Working({"swap"})' = {a} /\ Working({"map", "swap", "stack"})' = {a}
  BY <1>2, <1>3, GoFacts DEF Labels
<1>7. a \in mem.used /\ Shape(mem, a)
  BY <1>1, <1>4, OwnTables DEF DirShape
<1>8. ~(Pages \subseteq mem.used)
  <2>1. Missing = 3
    BY <1>5 DEF Missing
  <2>2. Cardinality(mem.used) \in Nat
    BY <1>1, TypeParts, UsedFacts
  <2>3. Cardinality(mem.used) + 3 <= NPages
    BY <1>1, <2>1, Room
  <2>4. Cardinality(mem.used) < NPages
    BY <2>2, <2>3, SizeFacts
  <2> QED BY <1>1, <2>4, TypeParts, UsedFacts
<1>9. PICK t \in Pages \ mem.used :
        /\ mem' \in Mems /\ mem'.used = mem.used \cup {t} /\ mem'.content = mem.content
        /\ mem'.entry[a][CodeDir] = To(t)
        /\ mem'.entry[t][CodeSlot] = To(0)
        /\ SameButTwo(mem, mem', a, CodeDir, t, CodeSlot)
  BY <1>1, <1>3, <1>4, <1>7, <1>8, TypeParts, MapEffect
<1>10. TypeOK'
  BY <1>1, <1>2, <1>9, TypeParts, GoFacts
<1>11. Directories' = Directories
  BY <1>2 DEF Directories
<1>12. Step(a, {t})
  BY <1>2, <1>4, <1>9, <1>11 DEF Step, SameButTwo
<1>13. /\ CodeTable(mem', a) = t /\ mem'.entry[a][CodeDir].p /\ mem'.entry[t][CodeSlot].p
       /\ mem'.entry[a][StackDir] = Zero /\ ~mem'.entry[a][StackDir].p
  <2>1. CodeTable(mem', a) = t /\ mem'.entry[a][CodeDir].p
    BY <1>9, EntryFacts DEF CodeTable
  <2>2. mem'.entry[t][CodeSlot].p
    BY <1>9, EntryFacts, SizeFacts
  <2>3. mem'.entry[a][StackDir] = mem.entry[a][StackDir]
    BY <1>7, <1>9, PlaceFacts DEF SameButTwo
  <2>4. mem'.entry[a][StackDir] = Zero /\ ~Zero.p
    BY <1>4, <1>7, <2>3, EntryFacts DEF Shape
  <2> QED BY <2>1, <2>2, <2>4
<1>14. Shape(mem', a)
  <2>1. \A d \in Slots \ {CodeDir, StackDir} : mem'.entry[a][d] = InitialEntry(KernelPd, d)
    BY <1>7, <1>9 DEF Shape, SameButTwo
  <2>2. \A i \in Slots \ {CodeSlot} : mem'.entry[t][i] = Zero
    BY <1>1, <1>7, <1>9 DEF KernelShape, SameButTwo
  <2> QED BY <1>13, <2>1, <2>2 DEF Shape
<1>15. /\ OneUse' /\ DirShape' /\ KernelShape' /\ Complete'
       /\ Loaded \ {a} \subseteq Loaded' /\ Grown \ {a} \subseteq Grown'
  <2> DEFINE K == {"code table"}
  <2>1. /\ ~Held(mem', a, "stack table") /\ ~Held(mem', a, "stack") /\ ~Held(mem', a, "grown")
    BY <1>13 DEF Held
  <2>2. ~Real(mem, a, "code")'
    BY <1>6 DEF Real
  <2>3. \A k \in Kinds : Real(mem, a, k)' => k \in {"directory", "code table"}
    <3>1. \A k \in Kinds : Real(mem, a, k)' => Held(mem', a, k)
      BY DEF Real
    <3> QED BY <2>1, <2>2, <3>1, KindsAre
  <2>4. Real(mem, a, "directory") /\ PageOf(mem, a, "directory") = PageOf(mem', a, "directory")
    BY DEF Real, Held, PageOf
  <2>5. \A k \in K : PageOf(mem', a, k) \in {t}
    BY <1>13 DEF PageOf
  <2>6. \A j, k \in K : j = k
    OBVIOUS
  <2>7. \A k \in Kinds : Real(mem, a, k)' =>
          \/ a \in Directories /\ Real(mem, a, k) /\ PageOf(mem', a, k) = PageOf(mem, a, k)
          \/ k \in K
    BY <1>4, <2>3, <2>4
  <2> HIDE DEF K
  <2> QED BY <1>5, <1>6, <1>12, <1>14, <2>5, <2>6, <2>7, StepInvariants
<1>16. Progress'
  <2>1. Begun(mem', frame'[c])
    BY <1>2, <1>3, <1>13, GoFacts DEF Begun
  <2>2. \A e \in Building' : e = c
    BY <1>2, GoFacts
  <2> QED BY <1>2, <1>3, <1>4, <1>11, <2>1, <2>2, CallFacts, GoFacts DEF Progress
<1>17. Histories'
  BY <1>1, <1>2, <1>11 DEF Histories
<1>18. Counted'
  <2>1. Missing = 3 /\ Missing' = 2 /\ Starting = 0 /\ Starting' = 0
    BY <1>5, <1>6 DEF Missing, Starting
  <2>2. Cardinality(mem'.used) = Cardinality(mem.used) + 1
    BY <1>1, <1>9, <1>10, TakenOne
  <2>3. a \notin Loaded /\ a \notin Grown
    BY <1>4, KindFacts DEF Loaded, Grown, Real
  <2>4. Cardinality(Loaded') >= Cardinality(Loaded) /\ Cardinality(Grown') >= Cardinality(Grown)
    BY <1>15, <2>3, LoadedCount
  <2>5. Cardinality(mem.used) \in Nat /\ sector \in Nat /\ Cardinality(Directories) \in Nat
    BY <1>1, TypeParts, UsedFacts, DirectoriesFinite
  <2>6. /\ Cardinality(mem.used)' <= Cardinality(mem.used) + 1
        /\ Cardinality(Directories') = Cardinality(Directories) + 0
        /\ Cardinality(Loaded') >= Cardinality(Loaded) + 0
        /\ Cardinality(Grown') >= Cardinality(Grown) + 0
        /\ 1 + Missing' <= Missing + 4 * 0 + 0 + 0
        /\ 0 + Starting' + sector <= Starting + sector'
        /\ 0 \in Nat /\ 1 \in Nat
    BY <1>2, <1>11, <2>1, <2>2, <2>4, <2>5, LoadedFinite
  <2> QED BY <1>1, <1>10, <2>6, CountKept, Zenon
<1> QED BY <1>2, <1>10, <1>15, <1>16, <1>17, <1>18, GoFacts DEF PagingInv

LEMMA SetSwapStep ==
  ASSUME PagingInv, NEW c \in Callers, ExecSetSwap(c)
  PROVE  PagingInv'
<1>1. TypeOK /\ OneUse /\ DirShape /\ KernelShape /\ OneCall /\ Progress /\ Complete /\ Histories /\ Counted
  BY DEF PagingInv
<1>2. /\ frame[c].at = "swap" /\ frame[c].at \in Labels /\ "stack" \in Labels /\ Go(c, "stack")
      /\ sector' = sector /\ swap' = swap /\ live' = live /\ prog' = prog /\ executed' = executed
  BY DEF ExecSetSwap, Labels
<1>3. PICK a \in Pages : a = frame[c].cr3
  BY <1>2, CallFacts
<1>4. /\ a \in Directories /\ prog[a] = frame[c].program /\ \A x \in executed : x[1] # a
      /\ ~mem.entry[a][StackDir].p /\ mem.entry[a][CodeDir].p
  BY <1>2, <1>3, CallFacts DEF Begun
<1>5. /\ In({"create"}) = {} /\ In({"map"}) = {} /\ In({"swap", "stack"}) = {c}
      /\ Working({"swap"}) = {a} /\ Working({"map", "swap", "stack"}) = {a}
  BY <1>2, <1>3, CallFacts DEF Labels
<1>6. /\ In({"create"})' = {} /\ In({"map"})' = {} /\ In({"swap", "stack"})' = {c}
      /\ Working({"swap"})' = {} /\ Working({"map", "swap", "stack"})' = {a}
  BY <1>2, <1>3, GoFacts DEF Labels
<1>7. PICK t \in Pages : t = CodeTable(mem, a)
  BY <1>1, <1>4, OwnTables
<1>8. t # a /\ Shape(mem, a)
  BY <1>1, <1>4, <1>7, OwnTables DEF DirShape
<1>9. PICK e : e = [p |-> FALSE, n |-> frame[c].sector]
  OBVIOUS
<1>10. /\ mem' \in Mems /\ mem'.used = mem.used /\ mem'.content = mem.content
       /\ mem'.entry[t][CodeSlot] = e
       /\ SameBut(mem, mem', t, CodeSlot)
  <2>1. frame[c].sector \in SwapSectors
    BY <1>2, CallFacts
  <2> QED BY <1>1, <1>3, <1>7, <1>9, <2>1, TypeParts, SetSwapEffect
<1>11. TypeOK'
  BY <1>1, <1>2, <1>10, TypeParts, GoFacts
<1>12. Directories' = Directories
  BY <1>2 DEF Directories
<1>13. Step(a, {})
  BY <1>2, <1>4, <1>7, <1>10, <1>12 DEF Step, SameBut, OwnTable
<1>14. /\ \A d \in Slots : mem'.entry[a][d] = mem.entry[a][d]
       /\ CodeTable(mem', a) = t /\ mem'.entry[a][CodeDir].p /\ ~mem'.entry[t][CodeSlot].p
       /\ ~mem'.entry[a][StackDir].p
  <2>1. \A d \in Slots : mem'.entry[a][d] = mem.entry[a][d]
    BY <1>8, <1>10 DEF SameBut
  <2>2. ~mem'.entry[t][CodeSlot].p
    BY <1>9, <1>10
  <2> QED BY <1>4, <1>7, <2>1, <2>2, PlaceFacts DEF CodeTable
<1>15. Shape(mem', a)
  <2>1. \A i \in Slots \ {CodeSlot} : mem'.entry[t][i] = Zero
    BY <1>4, <1>7, <1>8, <1>10 DEF Shape, SameBut
  <2>2. /\ \A d \in Slots \ {CodeDir, StackDir} : mem'.entry[a][d] = InitialEntry(KernelPd, d)
        /\ mem'.entry[a][StackDir] = Zero
    BY <1>4, <1>8, <1>14, PlaceFacts DEF Shape
  <2> QED BY <1>14, <2>1, <2>2 DEF Shape
<1>16. /\ OneUse' /\ DirShape' /\ KernelShape' /\ Complete'
       /\ Loaded \ {a} \subseteq Loaded' /\ Grown \ {a} \subseteq Grown'
  <2>1. /\ ~Held(mem', a, "stack table") /\ ~Held(mem', a, "stack") /\ ~Held(mem', a, "grown")
        /\ ~Held(mem', a, "code")
    BY <1>14 DEF Held
  <2>2. \A k \in Kinds : Real(mem, a, k)' => k \in {"directory", "code table"}
    <3>1. \A k \in Kinds : Real(mem, a, k)' => Held(mem', a, k)
      BY DEF Real
    <3> QED BY <2>1, <3>1, KindsAre
  <2>3. /\ Real(mem, a, "directory") /\ PageOf(mem, a, "directory") = PageOf(mem', a, "directory")
        /\ Real(mem, a, "code table") /\ PageOf(mem, a, "code table") = PageOf(mem', a, "code table")
    BY <1>4, <1>7, <1>14 DEF Real, Held, PageOf
  <2> DEFINE K == {}
  <2>4. \A k \in Kinds : Real(mem, a, k)' =>
          \/ a \in Directories /\ Real(mem, a, k) /\ PageOf(mem', a, k) = PageOf(mem, a, k)
          \/ k \in K
    BY <1>4, <2>2, <2>3
  <2>5. /\ Working({"swap"}) \subseteq {a} /\ Working({"swap"})' \subseteq {a}
        /\ Working({"map", "swap", "stack"}) \subseteq {a}
        /\ a \in Working({"map", "swap", "stack"})'
    BY <1>5, <1>6
  <2>6. /\ \A k \in K : PageOf(mem', a, k) \in {}
        /\ \A j, k \in K : PageOf(mem', a, j) = PageOf(mem', a, k) => j = k
    OBVIOUS
  <2> HIDE DEF K
  <2> QED BY <1>13, <1>15, <2>4, <2>5, <2>6, StepInvariants
<1>17. Progress'
  <2>1. Begun(mem', frame'[c])
    <3>1. frame'[c].at = "stack" /\ frame'[c].cr3 = a /\ e = [p |-> FALSE, n |-> frame'[c].sector]
      BY <1>2, <1>3, <1>9, GoFacts
    <3> QED BY <1>10, <1>14, <3>1 DEF Begun
  <2>2. \A b \in Building' : b = c
    BY <1>2, GoFacts
  <2> QED BY <1>2, <1>3, <1>4, <1>12, <2>1, <2>2, CallFacts, GoFacts DEF Progress
<1>18. Histories'
  BY <1>1, <1>2, <1>12 DEF Histories
<1>19. Counted'
  <2>1. Missing = 2 /\ Missing' = 2 /\ Starting = 0 /\ Starting' = 0
    BY <1>5, <1>6 DEF Missing, Starting
  <2>2. a \notin Loaded /\ a \notin Grown
    BY <1>4, <1>5, KindFacts DEF Loaded, Grown, Real
  <2>3. Cardinality(Loaded') >= Cardinality(Loaded) /\ Cardinality(Grown') >= Cardinality(Grown)
    BY <1>16, <2>2, LoadedCount
  <2>4. Cardinality(mem.used) \in Nat /\ sector \in Nat /\ Cardinality(Directories) \in Nat
    BY <1>1, TypeParts, UsedFacts, DirectoriesFinite
  <2>5. /\ Cardinality(mem.used)' <= Cardinality(mem.used) + 0
        /\ Cardinality(Directories') = Cardinality(Directories) + 0
        /\ Cardinality(Loaded') >= Cardinality(Loaded) + 0
        /\ Cardinality(Grown') >= Cardinality(Grown) + 0
        /\ 0 + Missing' <= Missing + 4 * 0 + 0 + 0
        /\ 0 + Starting' + sector <= Starting + sector'
        /\ 0 \in Nat
    BY <1>2, <1>10, <1>12, <2>1, <2>3, <2>4, LoadedFinite
  <2> QED BY <1>1, <1>11, <2>5, CountKept, Zenon
<1> QED BY <1>2, <1>11, <1>16, <1>17, <1>18, <1>19, GoFacts DEF PagingInv

LEMMA StackStep ==
  ASSUME PagingInv, NEW c \in Callers, ExecStack(c)
  PROVE  PagingInv'
<1>1. TypeOK /\ OneUse /\ DirShape /\ KernelShape /\ OneCall /\ Progress /\ Complete /\ Histories /\ Counted
  BY DEF PagingInv
<1>2. /\ frame[c].at = "stack" /\ frame[c].at \in Labels /\ frame' = [frame EXCEPT ![c] = UserFrame]
      /\ sector' = sector /\ swap' = swap /\ live' = live /\ prog' = prog /\ executed' = executed
  BY DEF ExecStack, Labels
<1>3. PICK a \in Pages : a = frame[c].cr3
  BY <1>2, CallFacts
<1>4. PICK s : s = frame[c].sector
  OBVIOUS
<1>5. PICK e : e = mem.entry[CodeTable(mem, a)][CodeSlot]
  OBVIOUS
<1>6. /\ a \in Directories /\ prog[a] = swap[s] /\ s \in 1..(sector - 1)
      /\ ~mem.entry[a][StackDir].p /\ mem.entry[a][CodeDir].p
      /\ e = [p |-> FALSE, n |-> s]
  BY <1>2, <1>3, <1>4, <1>5, CallFacts DEF Begun
<1>7. /\ In({"create"}) = {} /\ In({"map"}) = {} /\ In({"swap", "stack"}) = {c}
      /\ Working({"swap"}) = {} /\ Working({"map", "swap", "stack"}) = {a}
  BY <1>2, <1>3, CallFacts DEF Labels
<1>8. /\ OneCall' /\ Building' = {}
      /\ In({"create"})' = {} /\ In({"map"})' = {} /\ In({"swap", "stack"})' = {}
      /\ Working({"swap"})' = {} /\ Working({"map", "swap", "stack"})' = {}
  <2>1. UserFrame.at \notin Labels
    BY DEF UserFrame, Labels
  <2>2. /\ OneCall' /\ Building' \subseteq {c} /\ frame'[c] = UserFrame
        /\ \A labels \in SUBSET Labels :
             /\ In(labels)' = IF UserFrame.at \in labels THEN {c} ELSE {}
             /\ Working(labels)' = IF UserFrame.at \in labels THEN {UserFrame.cr3} ELSE {}
    BY <1>2, CallFacts, OneCallerNext
  <2>3. \A labels \in SUBSET Labels : In(labels)' = {} /\ Working(labels)' = {}
    BY <2>1, <2>2
  <2> QED BY <2>2, <2>3 DEF Building, Labels
<1>9. a \in mem.used /\ Shape(mem, a)
  BY <1>1, <1>6, OwnTables DEF DirShape
<1>10. Cardinality(mem.used) + 1 < NPages
  <2>1. Missing = 2
    BY <1>7 DEF Missing
  <2>2. Cardinality(mem.used) \in Nat
    BY <1>1, TypeParts, UsedFacts
  <2>3. Cardinality(mem.used) + 2 <= NPages
    BY <1>1, <2>1, Room
  <2> QED BY <2>2, <2>3, SizeFacts
<1>11. PICK x, t \in Pages \ mem.used :
         /\ x # t
         /\ mem' \in Mems /\ mem'.used = mem.used \cup {x, t} /\ mem'.content = mem.content
         /\ mem'.entry[a][StackDir] = To(t)
         /\ mem'.entry[t][StackSlot] = To(x)
         /\ SameButTwo(mem, mem', a, StackDir, t, StackSlot)
  BY <1>1, <1>3, <1>6, <1>9, <1>10, TypeParts, StackEffect
<1>12. TypeOK'
  <2>1. UserFrame \in [at : {"user", "create", "map", "swap", "stack"},
                       sector : SwapSectors, program : Contents, cr3 : Pages]
    BY SizeFacts DEF UserFrame, SwapSectors, Contents
  <2> QED BY <1>1, <1>2, <1>11, <2>1, TypeParts
<1>13. Directories' = Directories
  BY <1>2 DEF Directories
<1>14. Step(a, {x, t})
  BY <1>2, <1>6, <1>11, <1>13 DEF Step, SameButTwo
<1>15. /\ StackTable(mem', a) = t /\ mem'.entry[a][StackDir].p
       /\ mem'.entry[t][StackSlot].p /\ mem'.entry[t][StackSlot].n = x
       /\ mem'.entry[t][GrownSlot] = Zero
  <2>1. StackTable(mem', a) = t /\ mem'.entry[a][StackDir].p
    BY <1>11, EntryFacts DEF StackTable
  <2>2. mem'.entry[t][StackSlot].p /\ mem'.entry[t][StackSlot].n = x
    BY <1>11, EntryFacts
  <2>3. mem'.entry[t][GrownSlot] = Zero
    BY <1>1, <1>9, <1>11, PlaceFacts DEF KernelShape, SameButTwo
  <2> QED BY <2>1, <2>2, <2>3
<1>16. /\ mem'.entry[a][CodeDir] = mem.entry[a][CodeDir] /\ mem'.entry[a][CodeDir].p
       /\ CodeTable(mem', a) = CodeTable(mem, a)
       /\ \A i \in Slots : mem'.entry[CodeTable(mem, a)][i] = mem.entry[CodeTable(mem, a)][i]
  <2>1. CodeTable(mem, a) \in Pages /\ CodeTable(mem, a) \in mem.used /\ CodeTable(mem, a) # a
    BY <1>1, <1>6, OwnTables
  <2>2. mem'.entry[a][CodeDir] = mem.entry[a][CodeDir]
    BY <1>9, <1>11, PlaceFacts DEF SameButTwo
  <2>3. \A i \in Slots : mem'.entry[CodeTable(mem, a)][i] = mem.entry[CodeTable(mem, a)][i]
    BY <1>11, <2>1 DEF SameButTwo
  <2> QED BY <1>6, <2>2, <2>3 DEF CodeTable
<1>17. Shape(mem', a)
  <2>1. \A d \in Slots \ {CodeDir, StackDir} : mem'.entry[a][d] = InitialEntry(KernelPd, d)
    BY <1>9, <1>11 DEF Shape, SameButTwo
  <2>2. \A i \in Slots \ {StackSlot, GrownSlot} : mem'.entry[t][i] = Zero
    BY <1>1, <1>9, <1>11 DEF KernelShape, SameButTwo
  <2>3. \A i \in Slots \ {CodeSlot} : mem'.entry[CodeTable(mem', a)][i] = Zero
    BY <1>6, <1>9, <1>16 DEF Shape
  <2> QED BY <1>15, <1>16, <2>1, <2>2, <2>3 DEF Shape
<1>18. mem'.entry[CodeTable(mem', a)][CodeSlot] = e /\ ~e.p /\ e.n = s
  <2>1. ~e.p /\ e.n = s
    BY <1>6
  <2> QED BY <1>5, <1>16, <2>1, PlaceFacts
<1>19. Finished(a)'
  BY <1>2, <1>6, <1>15, <1>16, <1>18 DEF Finished
<1>20. /\ OneUse' /\ DirShape' /\ KernelShape' /\ Complete'
       /\ Loaded \ {a} \subseteq Loaded' /\ Grown \ {a} \subseteq Grown'
  <2> DEFINE K == {"stack table", "stack"}
  <2>1. ~Held(mem', a, "grown") /\ ~Held(mem', a, "code")
    BY <1>15, <1>18, EntryFacts DEF Held
  <2>2. \A k \in Kinds : Real(mem, a, k)' => k \in {"directory", "code table", "stack table", "stack"}
    <3>1. \A k \in Kinds : Real(mem, a, k)' => Held(mem', a, k)
      BY DEF Real
    <3> QED BY <2>1, <3>1, KindsAre
  <2>3. /\ Real(mem, a, "directory") /\ PageOf(mem, a, "directory") = PageOf(mem', a, "directory")
        /\ Real(mem, a, "code table") /\ PageOf(mem, a, "code table") = PageOf(mem', a, "code table")
    BY <1>6, <1>16 DEF Real, Held, PageOf
  <2>4. PageOf(mem', a, "stack table") = t /\ PageOf(mem', a, "stack") = x
    BY <1>15 DEF PageOf
  <2>5. \A k \in K : PageOf(mem', a, k) \in {x, t}
    BY <2>4
  <2>6. \A j, k \in K : PageOf(mem', a, j) = PageOf(mem', a, k) => j = k
    BY <1>11, <2>4
  <2>7. \A k \in Kinds : Real(mem, a, k)' =>
          \/ a \in Directories /\ Real(mem, a, k) /\ PageOf(mem', a, k) = PageOf(mem, a, k)
          \/ k \in K
    BY <1>6, <2>2, <2>3
  <2> HIDE DEF K
  <2> QED BY <1>7, <1>8, <1>14, <1>17, <1>19, <2>5, <2>6, <2>7, StepInvariants
<1>21. Progress'
  BY <1>8 DEF Progress
<1>22. Histories'
  BY <1>1, <1>2, <1>13 DEF Histories
<1>23. Counted'
  <2>1. Missing = 2 /\ Missing' = 0 /\ Starting = 0 /\ Starting' = 0
    BY <1>7, <1>8 DEF Missing, Starting
  <2>2. Cardinality(mem'.used) = Cardinality(mem.used) + 2
    BY <1>1, <1>11, <1>12, TakenTwo
  <2>3. a \notin Loaded /\ a \notin Grown
    <3>1. ~Held(mem, a, "code") /\ ~Held(mem, a, "grown")
      BY <1>5, <1>6 DEF Held
    <3> QED BY <3>1 DEF Loaded, Grown, Real
  <2>4. Cardinality(Loaded') >= Cardinality(Loaded) /\ Cardinality(Grown') >= Cardinality(Grown)
    BY <1>20, <2>3, LoadedCount
  <2>5. Cardinality(mem.used) \in Nat /\ sector \in Nat /\ Cardinality(Directories) \in Nat
    BY <1>1, TypeParts, UsedFacts, DirectoriesFinite
  <2>6. /\ Cardinality(mem.used)' <= Cardinality(mem.used) + 2
        /\ Cardinality(Directories') = Cardinality(Directories) + 0
        /\ Cardinality(Loaded') >= Cardinality(Loaded) + 0
        /\ Cardinality(Grown') >= Cardinality(Grown) + 0
        /\ 2 + Missing' <= Missing + 4 * 0 + 0 + 0
        /\ 0 + Starting' + sector <= Starting + sector'
        /\ 0 \in Nat /\ 2 \in Nat
    BY <1>2, <1>13, <2>1, <2>2, <2>4, <2>5, LoadedFinite
  <2> QED BY <1>1, <1>12, <2>6, CountKept, Zenon
<1> QED BY <1>8, <1>12, <1>20, <1>21, <1>22, <1>23 DEF PagingInv

(* No call is under way when a task runs. *)
LEMMA TaskRuns ==
  ASSUME PagingInv, Masked, MayRun, NEW a \in live
  PROVE  /\ a \in Directories /\ a \in Pages /\ a \in mem.used /\ Finished(a) /\ Shape(mem, a)
         /\ CodeTable(mem, a) \in Pages /\ StackTable(mem, a) \in Pages
         /\ CodeTable(mem, a) # a /\ StackTable(mem, a) # a
         /\ CodeTable(mem, a) # StackTable(mem, a)
         /\ In({"create"}) = {} /\ In({"map"}) = {} /\ In({"swap", "stack"}) = {}
         /\ Working({"swap"}) = {} /\ Working({"map", "swap", "stack"}) = {} /\ Building = {}
<1>1. /\ In({"create"}) = {} /\ In({"map"}) = {} /\ In({"swap", "stack"}) = {}
      /\ Working({"swap"}) = {} /\ Working({"map", "swap", "stack"}) = {} /\ Building = {}
  BY Quiet DEF Labels
<1>2. a \in Directories
  BY DEF PagingInv, Histories
<1>3. Finished(a) /\ Shape(mem, a)
  BY <1>1, <1>2 DEF PagingInv, Complete, DirShape
<1>4. mem.entry[a][CodeDir].p /\ mem.entry[a][StackDir].p
  BY <1>3 DEF Finished
<1> QED BY <1>1, <1>2, <1>3, <1>4, OwnTables DEF PagingInv

(* The frames stay as they are. *)
LEMMA FrameStill ==
  ASSUME frame' = frame
  PROVE  /\ \A labels : In(labels)' = In(labels) /\ Working(labels)' = Working(labels)
         /\ Building' = Building /\ Missing' = Missing /\ Starting' = Starting
         /\ OneCall => OneCall'
BY DEF In, Working, Building, Missing, Starting, OneCall

LEMMA CodeFaultStep ==
  ASSUME PagingInv, Masked, NEW a \in live, CodeFault(a)
  PROVE  PagingInv'
<1>1. TypeOK /\ OneUse /\ DirShape /\ KernelShape /\ OneCall /\ Progress /\ Complete /\ Histories /\ Counted
  BY DEF PagingInv
<1>2. /\ MayRun /\ ~has_addr(mem, a, CODE) /\ frame' = frame
      /\ sector' = sector /\ swap' = swap /\ live' = live /\ prog' = prog /\ executed' = executed
  BY DEF CodeFault
<1>3. /\ a \in Directories /\ a \in Pages /\ a \in mem.used /\ Finished(a) /\ Shape(mem, a)
      /\ CodeTable(mem, a) \in Pages /\ StackTable(mem, a) \in Pages
      /\ CodeTable(mem, a) # a /\ StackTable(mem, a) # a
      /\ CodeTable(mem, a) # StackTable(mem, a)
      /\ In({"create"}) = {} /\ In({"map"}) = {} /\ In({"swap", "stack"}) = {}
      /\ Working({"swap"}) = {} /\ Working({"map", "swap", "stack"}) = {} /\ Building = {}
  BY <1>2, TaskRuns
<1>4. /\ Working({"swap"})' = {} /\ Working({"map", "swap", "stack"})' = {} /\ Building' = {}
      /\ Missing' = Missing /\ Starting' = Starting /\ OneCall'
  BY <1>1, <1>2, <1>3, FrameStill
<1>5. PICK t \in Pages : t = CodeTable(mem, a)
  BY <1>3
<1>6. PICK s : s = mem.entry[t][CodeSlot].n
  OBVIOUS
<1>7. /\ mem.entry[a][CodeDir].p /\ mem.entry[a][StackDir].p
      /\ mem.entry[StackTable(mem, a)][StackSlot].p
      /\ ~mem.entry[t][CodeSlot].p /\ s \in 1..(sector - 1) /\ swap[s] = prog[a]
  <2>1. mem.entry[a][CodeDir].p /\ mem.entry[a][StackDir].p
        /\ mem.entry[StackTable(mem, a)][StackSlot].p
    BY <1>3 DEF Finished
  <2>2. ~mem.entry[t][CodeSlot].p
    BY <1>2, <1>5, <2>1 DEF has_addr, CodeTable, CodeDir, CodeSlot
  <2> QED BY <1>3, <1>5, <1>6, <2>1, <2>2 DEF Finished
<1>8. s \in SwapSectors
  <2>1. sector \in 1..(MaxExec + 1)
    BY <1>1 DEF TypeOK
  <2> QED BY <1>7, <2>1, SizeFacts DEF SwapSectors
<1>9. a \notin Loaded
  <2>1. ~Held(mem, a, "code")
    BY <1>5, <1>7 DEF Held
  <2> QED BY <2>1 DEF Loaded, Real
<1>10. ~(Pages \subseteq mem.used)
  <2>1. Cardinality(mem.used) < NPages
    BY <1>1, <1>3, <1>9, Room
  <2> QED BY <1>1, <2>1, TypeParts, UsedFacts
<1>11. PICK x \in Pages \ mem.used :
         /\ mem' \in Mems /\ mem'.used = mem.used \cup {x}
         /\ mem'.entry[t][CodeSlot] = To(x)
         /\ SameBut(mem, mem', t, CodeSlot)
         /\ mem'.content[x] = swap[s]
         /\ \A y \in Pages : y # x => mem'.content[y] = mem.content[y]
  <2>1. mem \in Mems /\ swap \in [SwapSectors -> Contents]
    BY <1>1, TypeParts
  <2> QED BY <1>3, <1>5, <1>6, <1>7, <1>8, <1>10, <2>1, CodeFaultEffect
<1>12. TypeOK'
  BY <1>1, <1>2, <1>11, TypeParts
<1>13. Directories' = Directories
  BY <1>2 DEF Directories
<1>14. Step(a, {x})
  BY <1>2, <1>3, <1>5, <1>7, <1>11, <1>13 DEF Step, SameBut, OwnTable
<1>15. /\ \A d \in Slots : mem'.entry[a][d] = mem.entry[a][d]
       /\ \A i \in Slots : mem'.entry[StackTable(mem, a)][i] = mem.entry[StackTable(mem, a)][i]
       /\ CodeTable(mem', a) = t /\ StackTable(mem', a) = StackTable(mem, a)
       /\ mem'.entry[a][CodeDir].p /\ mem'.entry[a][StackDir].p
       /\ mem'.entry[t][CodeSlot].p /\ mem'.entry[t][CodeSlot].n = x
  <2>1. \A d \in Slots : mem'.entry[a][d] = mem.entry[a][d]
    BY <1>3, <1>5, <1>11 DEF SameBut
  <2>2. \A i \in Slots : mem'.entry[StackTable(mem, a)][i] = mem.entry[StackTable(mem, a)][i]
    BY <1>3, <1>5, <1>11 DEF SameBut
  <2>3. mem'.entry[t][CodeSlot].p /\ mem'.entry[t][CodeSlot].n = x
    BY <1>11, EntryFacts
  <2> QED BY <1>5, <1>7, <2>1, <2>2, <2>3, PlaceFacts DEF CodeTable, StackTable
<1>16. Shape(mem', a)
  <2>1. \A i \in Slots \ {CodeSlot} : mem'.entry[t][i] = Zero
    BY <1>3, <1>5, <1>7, <1>11 DEF Shape, SameBut
  <2>2. \A d \in Slots \ {CodeDir, StackDir} : mem'.entry[a][d] = InitialEntry(KernelPd, d)
    BY <1>3, <1>15 DEF Shape
  <2>3. \A i \in Slots \ {StackSlot, GrownSlot} : mem'.entry[StackTable(mem, a)][i] = Zero
    BY <1>3, <1>7, <1>15 DEF Shape
  <2> QED BY <1>15, <2>1, <2>2, <2>3 DEF Shape
<1>17. Finished(a)'
  BY <1>2, <1>7, <1>11, <1>15, PlaceFacts DEF Finished
<1>18. /\ OneUse' /\ DirShape' /\ KernelShape' /\ Complete'
       /\ Loaded \ {a} \subseteq Loaded' /\ Grown \ {a} \subseteq Grown'
  <2> DEFINE K == {"code"}
  <2>1. \A k \in Kinds \ {"code"} :
          (Held(mem', a, k) <=> Held(mem, a, k)) /\ PageOf(mem', a, k) = PageOf(mem, a, k)
    <3>1. \A k \in {"directory", "code table", "stack table"} :
            (Held(mem', a, k) <=> Held(mem, a, k)) /\ PageOf(mem', a, k) = PageOf(mem, a, k)
      BY <1>5, <1>7, <1>15 DEF Held, PageOf
    <3>2. \A k \in {"stack", "grown"} :
            (Held(mem', a, k) <=> Held(mem, a, k)) /\ PageOf(mem', a, k) = PageOf(mem, a, k)
      BY <1>7, <1>15, PlaceFacts DEF Held, PageOf
    <3> QED BY <3>1, <3>2, KindsAre
  <2>2. \A k \in Kinds : Real(mem, a, k)' =>
          \/ a \in Directories /\ Real(mem, a, k) /\ PageOf(mem', a, k) = PageOf(mem, a, k)
          \/ k \in K
    BY <1>3, <2>1 DEF Real
  <2>3. \A k \in K : PageOf(mem', a, k) \in {x}
    BY <1>15 DEF PageOf
  <2>4. \A j, k \in K : j = k
    OBVIOUS
  <2> HIDE DEF K
  <2> QED BY <1>3, <1>4, <1>14, <1>16, <1>17, <2>2, <2>3, <2>4, StepInvariants
<1>19. Progress' /\ Histories'
  BY <1>1, <1>2, <1>4, <1>13 DEF Progress, Histories
<1>20. Counted'
  <2>1. Cardinality(mem'.used) = Cardinality(mem.used) + 1
    BY <1>1, <1>11, <1>12, TakenOne
  <2>2. a \in Loaded'
    <3>1. Real(mem, a, "code")'
      BY <1>4, <1>15 DEF Real, Held
    <3> QED BY <1>3, <1>13, <3>1 DEF Loaded
  <2>3. Grown \subseteq Grown'
    <3>1. Real(mem, a, "grown") => Real(mem, a, "grown")'
      BY <1>15, PlaceFacts DEF Real, Held
    <3> QED BY <1>3, <1>13, <1>18, <3>1 DEF Grown
  <2>4. Cardinality(Loaded') >= Cardinality(Loaded) + 1 /\ Cardinality(Grown') >= Cardinality(Grown)
    BY <1>9, <1>18, <2>2, <2>3, LoadedCount
  <2>5. Cardinality(mem.used) \in Nat /\ sector \in Nat /\ Cardinality(Directories) \in Nat
    BY <1>1, TypeParts, UsedFacts, DirectoriesFinite
  <2>6. Missing = 0 /\ Starting = 0
    BY <1>3 DEF Missing, Starting
  <2>7. /\ Cardinality(mem.used)' <= Cardinality(mem.used) + 1
        /\ Cardinality(Directories') = Cardinality(Directories) + 0
        /\ Cardinality(Loaded') >= Cardinality(Loaded) + 1
        /\ Cardinality(Grown') >= Cardinality(Grown) + 0
        /\ 1 + Missing' <= Missing + 4 * 0 + 1 + 0
        /\ 0 + Starting' + sector <= Starting + sector'
        /\ 0 \in Nat /\ 1 \in Nat
    BY <1>2, <1>4, <1>13, <2>1, <2>4, <2>5, <2>6, LoadedFinite
  <2> QED BY <1>1, <1>12, <2>7, CountKept, Zenon
<1> QED BY <1>4, <1>12, <1>18, <1>19, <1>20 DEF PagingInv

LEMMA StackFaultStep ==
  ASSUME PagingInv, Masked, NEW a \in live, StackFault(a)
  PROVE  PagingInv'
<1>1. TypeOK /\ OneUse /\ DirShape /\ KernelShape /\ OneCall /\ Progress /\ Complete /\ Histories /\ Counted
  BY DEF PagingInv
<1>2. /\ MayRun /\ ~has_addr(mem, a, STACK - 1) /\ frame' = frame
      /\ sector' = sector /\ swap' = swap /\ live' = live /\ prog' = prog /\ executed' = executed
  BY DEF StackFault
<1>3. /\ a \in Directories /\ a \in Pages /\ a \in mem.used /\ Finished(a) /\ Shape(mem, a)
      /\ CodeTable(mem, a) \in Pages /\ StackTable(mem, a) \in Pages
      /\ CodeTable(mem, a) # a /\ StackTable(mem, a) # a
      /\ CodeTable(mem, a) # StackTable(mem, a)
      /\ In({"create"}) = {} /\ In({"map"}) = {} /\ In({"swap", "stack"}) = {}
      /\ Working({"swap"}) = {} /\ Working({"map", "swap", "stack"}) = {} /\ Building = {}
  BY <1>2, TaskRuns
<1>4. /\ Working({"swap"})' = {} /\ Working({"map", "swap", "stack"})' = {} /\ Building' = {}
      /\ Missing' = Missing /\ Starting' = Starting /\ OneCall'
  BY <1>1, <1>2, <1>3, FrameStill
<1>5. PICK t \in Pages : t = StackTable(mem, a)
  BY <1>3
<1>6. PICK z : z = mem.entry[t][StackSlot].n
  OBVIOUS
<1>7. /\ mem.entry[a][CodeDir].p /\ mem.entry[a][StackDir].p
      /\ mem.entry[t][StackSlot].p /\ ~mem.entry[t][GrownSlot].p
  <2>1. mem.entry[a][CodeDir].p /\ mem.entry[a][StackDir].p /\ mem.entry[t][StackSlot].p
    BY <1>3, <1>5 DEF Finished
  <2>2. (STACK - 1) \div ENTRIES = StackDir
    BY PlaceFacts
  <2>3. ~mem.entry[t][GrownSlot].p
    BY <1>2, <1>5, <2>1, <2>2 DEF has_addr, StackTable, GrownSlot
  <2> QED BY <2>1, <2>3
<1>8. a \notin Grown
  <2>1. ~Held(mem, a, "grown")
    BY <1>5, <1>7 DEF Held
  <2> QED BY <2>1 DEF Grown, Real
<1>9. ~(Pages \subseteq mem.used)
  <2>1. Cardinality(mem.used) < NPages
    BY <1>1, <1>3, <1>8, Room
  <2> QED BY <1>1, <2>1, TypeParts, UsedFacts
<1>10. PICK x \in Pages \ mem.used :
         /\ mem' \in Mems /\ mem'.used = mem.used \cup {x}
         /\ mem'.entry[t][GrownSlot] = To(x)
         /\ SameBut(mem, mem', t, GrownSlot)
         /\ \A y \in Pages : y \notin {x, z} => mem'.content[y] = mem.content[y]
  <2>1. mem \in Mems
    BY <1>1, TypeParts
  <2> QED BY <1>3, <1>5, <1>6, <1>7, <1>9, <2>1, StackFaultEffect
<1>11. TypeOK'
  BY <1>1, <1>2, <1>10, TypeParts
<1>12. Directories' = Directories
  BY <1>2 DEF Directories
<1>13. Real(mem, a, "stack") /\ PageOf(mem, a, "stack") = z
  BY <1>5, <1>6, <1>7, KindFacts DEF Real
<1>14. Step(a, {x})
  <2>1. OwnStack(a, z)
    BY <1>3, <1>13 DEF OwnStack
  <2>2. \A y \in Pages : y \notin {x} /\ ~OwnStack(a, y) => mem'.content[y] = mem.content[y]
    BY <1>10, <2>1
  <2>3. \A y \in Pages, i \in Slots :
          y \notin {x} /\ y # a /\ ~OwnTable(a, y) => mem'.entry[y][i] = mem.entry[y][i]
    BY <1>3, <1>5, <1>7, <1>10 DEF SameBut, OwnTable
  <2> QED BY <1>2, <1>3, <1>10, <1>12, <2>2, <2>3 DEF Step
<1>15. /\ \A d \in Slots : mem'.entry[a][d] = mem.entry[a][d]
       /\ \A i \in Slots : mem'.entry[CodeTable(mem, a)][i] = mem.entry[CodeTable(mem, a)][i]
       /\ CodeTable(mem', a) = CodeTable(mem, a) /\ StackTable(mem', a) = t
       /\ mem'.entry[a][CodeDir].p /\ mem'.entry[a][StackDir].p
       /\ mem'.entry[t][GrownSlot].p /\ mem'.entry[t][GrownSlot].n = x
       /\ mem'.entry[t][StackSlot] = mem.entry[t][StackSlot]
  <2>1. \A d \in Slots : mem'.entry[a][d] = mem.entry[a][d]
    BY <1>3, <1>5, <1>10 DEF SameBut
  <2>2. \A i \in Slots : mem'.entry[CodeTable(mem, a)][i] = mem.entry[CodeTable(mem, a)][i]
    BY <1>3, <1>5, <1>10 DEF SameBut
  <2>3. mem'.entry[t][GrownSlot].p /\ mem'.entry[t][GrownSlot].n = x
    BY <1>10, EntryFacts
  <2>4. mem'.entry[t][StackSlot] = mem.entry[t][StackSlot]
    BY <1>10, PlaceFacts DEF SameBut
  <2> QED BY <1>5, <1>7, <2>1, <2>2, <2>3, <2>4, PlaceFacts DEF CodeTable, StackTable
<1>16. Shape(mem', a)
  <2>1. \A i \in Slots \ {StackSlot, GrownSlot} : mem'.entry[t][i] = Zero
    BY <1>3, <1>5, <1>7, <1>10 DEF Shape, SameBut
  <2>2. \A d \in Slots \ {CodeDir, StackDir} : mem'.entry[a][d] = InitialEntry(KernelPd, d)
    BY <1>3, <1>15 DEF Shape
  <2>3. \A i \in Slots \ {CodeSlot} : mem'.entry[CodeTable(mem, a)][i] = Zero
    BY <1>3, <1>7, <1>15 DEF Shape
  <2> QED BY <1>15, <2>1, <2>2, <2>3 DEF Shape
<1>17. Finished(a)'
  <2>1. PICK e : e = mem.entry[CodeTable(mem, a)][CodeSlot]
    OBVIOUS
  <2>2. mem'.entry[CodeTable(mem', a)][CodeSlot] = e
    BY <1>15, <2>1, PlaceFacts
  <2>3. ASSUME e.p PROVE mem'.content[e.n] = mem.content[e.n]
    <3>1. Real(mem, a, "code") /\ PageOf(mem, a, "code") = e.n
      BY <1>3, <1>7, <2>1, <2>3, KindFacts DEF Real
    <3> HIDE DEF Real
    <3>2. e.n \in mem.used
      <4>1. \A k \in Kinds : Real(mem, a, k) => PageOf(mem, a, k) \in mem.used
        BY <1>1, <1>3 DEF OneUse
      <4> QED BY <3>1, <4>1, KindsAre
    <3>3. e.n # z
      <4>1. PageOf(mem, a, "code") = PageOf(mem, a, "stack") => "code" = "stack"
        BY <1>1, <1>3, <1>13, <3>1, KindsAre, Zenon DEF OneUse
      <4> QED BY <1>13, <3>1, <4>1
    <3>4. mem.used \subseteq Pages
      BY <1>1 DEF TypeOK
    <3> QED BY <1>10, <3>2, <3>3, <3>4
  <2> QED BY <1>2, <1>3, <1>7, <1>15, <2>1, <2>2, <2>3 DEF Finished
<1>18. /\ OneUse' /\ DirShape' /\ KernelShape' /\ Complete'
       /\ Loaded \ {a} \subseteq Loaded' /\ Grown \ {a} \subseteq Grown'
  <2> DEFINE K == {"grown"}
  <2>1. \A k \in Kinds \ {"grown"} :
          (Held(mem', a, k) <=> Held(mem, a, k)) /\ PageOf(mem', a, k) = PageOf(mem, a, k)
    <3>1. \A k \in {"directory", "code table", "stack table"} :
            (Held(mem', a, k) <=> Held(mem, a, k)) /\ PageOf(mem', a, k) = PageOf(mem, a, k)
      BY <1>5, <1>7, <1>15 DEF Held, PageOf
    <3>2. \A k \in {"stack", "code"} :
            (Held(mem', a, k) <=> Held(mem, a, k)) /\ PageOf(mem', a, k) = PageOf(mem, a, k)
      BY <1>5, <1>7, <1>15, PlaceFacts DEF Held, PageOf
    <3> QED BY <3>1, <3>2, KindsAre
  <2>2. \A k \in Kinds : Real(mem, a, k)' =>
          \/ a \in Directories /\ Real(mem, a, k) /\ PageOf(mem', a, k) = PageOf(mem, a, k)
          \/ k \in K
    BY <1>3, <2>1 DEF Real
  <2>3. \A k \in K : PageOf(mem', a, k) \in {x}
    BY <1>15 DEF PageOf
  <2>4. \A j, k \in K : j = k
    OBVIOUS
  <2> HIDE DEF K
  <2> QED BY <1>3, <1>4, <1>14, <1>16, <1>17, <2>2, <2>3, <2>4, StepInvariants
<1>19. Progress' /\ Histories'
  BY <1>1, <1>2, <1>4, <1>12 DEF Progress, Histories
<1>20. Counted'
  <2>1. Cardinality(mem'.used) = Cardinality(mem.used) + 1
    BY <1>1, <1>10, <1>11, TakenOne
  <2>2. a \in Grown'
    <3>1. Real(mem, a, "grown")'
      BY <1>15 DEF Real, Held
    <3> QED BY <1>3, <1>12, <3>1 DEF Grown
  <2>3. Loaded \subseteq Loaded'
    <3>1. Real(mem, a, "code") => Real(mem, a, "code")'
      BY <1>4, <1>15, PlaceFacts DEF Real, Held
    <3> QED BY <1>3, <1>12, <1>18, <3>1 DEF Loaded
  <2>4. Cardinality(Grown') >= Cardinality(Grown) + 1 /\ Cardinality(Loaded') >= Cardinality(Loaded)
    BY <1>8, <1>18, <2>2, <2>3, LoadedCount
  <2>5. Cardinality(mem.used) \in Nat /\ sector \in Nat /\ Cardinality(Directories) \in Nat
    BY <1>1, TypeParts, UsedFacts, DirectoriesFinite
  <2>6. Missing = 0 /\ Starting = 0
    BY <1>3 DEF Missing, Starting
  <2>7. /\ Cardinality(mem.used)' <= Cardinality(mem.used) + 1
        /\ Cardinality(Directories') = Cardinality(Directories) + 0
        /\ Cardinality(Loaded') >= Cardinality(Loaded) + 0
        /\ Cardinality(Grown') >= Cardinality(Grown) + 1
        /\ 1 + Missing' <= Missing + 4 * 0 + 0 + 1
        /\ 0 + Starting' + sector <= Starting + sector'
        /\ 0 \in Nat /\ 1 \in Nat
    BY <1>2, <1>4, <1>12, <2>1, <2>4, <2>5, <2>6, LoadedFinite
  <2> QED BY <1>1, <1>11, <2>7, CountKept, Zenon
<1> QED BY <1>4, <1>11, <1>18, <1>19, <1>20 DEF PagingInv

LEMMA StepKeeps ==
  ASSUME PagingInv, Masked, [Next]_vars
  PROVE  PagingInv'
<1>1. CASE UNCHANGED vars
  BY <1>1, StutterStep
<1>2. ASSUME NEW c \in Callers,
             (\E program \in Programs : ExecLoad(c, program))
               \/ ExecCreate(c) \/ ExecMap(c) \/ ExecSetSwap(c) \/ ExecStack(c)
      PROVE  PagingInv'
  BY <1>2, LoadStep, CreateStep, MapStep, SetSwapStep, StackStep
<1>3. ASSUME NEW cr3 \in live,
             CodeFault(cr3) \/ RunsCode(cr3) \/ StackFault(cr3) \/ SysExit(cr3)
      PROVE  PagingInv'
  BY <1>3, CodeFaultStep, RunsCodeStep, StackFaultStep, ExitStep
<1> QED BY <1>1, <1>2, <1>3 DEF Next
-----------------------------------------------------------------------------
LEMMA InitHolds ==
  ASSUME Init
  PROVE  PagingInv
<1>1. /\ mem = [used |-> 0..(Base - 1),
                entry |-> [page \in Pages |-> [i \in Slots |-> InitialEntry(page, i)]],
                content |-> [page \in Pages |-> "none"]]
      /\ sector = 1 /\ swap = [s \in SwapSectors |-> IF s = 0 THEN "boot" ELSE "none"]
      /\ live = {} /\ prog = [page \in Pages |-> "none"]
      /\ frame = [c \in Callers |-> UserFrame] /\ executed = {}
  <2>1. RESERVED + ITSELF_END - 1 = Base - 1
    BY SizeFacts DEF Base
  <2> QED BY <2>1, Zenon DEF Init, memory_init, InitialEntry
<1>2. /\ mem.used = 0..(Base - 1)
      /\ \A page \in Pages, i \in Slots : mem.entry[page][i] = InitialEntry(page, i)
  BY <1>1
<1>3. Directories = {} /\ Loaded = {} /\ Grown = {}
  BY <1>1 DEF Directories, Loaded, Grown
<1>4. Building = {} /\ In({"create"}) = {} /\ In({"map"}) = {} /\ In({"swap", "stack"}) = {}
  BY <1>1 DEF Building, In, UserFrame
<1>5. TypeOK
  <2>1. ASSUME NEW page \in Pages, NEW i \in Slots
        PROVE  InitialEntry(page, i) \in Entries
    <3>1. i < ITSELF_END => RESERVED + i \in Pages
      BY SizeFacts DEF Pages, Slots, Base
    <3>2. \A y \in Pages : [p |-> TRUE, n |-> y] \in Entries
      BY EntryFacts DEF To
    <3> QED BY <3>1, <3>2, EntryFacts DEF InitialEntry
  <2>2. [page \in Pages |-> [i \in Slots |-> InitialEntry(page, i)]] \in [Pages -> [Slots -> Entries]]
    BY <2>1
  <2>3. "none" \in Contents /\ "boot" \in Contents
    BY DEF Contents
  <2>4. [page \in Pages |-> "none"] \in [Pages -> Contents]
    BY <2>3
  <2>5. 0..(Base - 1) \in SUBSET Pages
    BY SizeFacts
  <2>6. mem \in Mems
    BY <1>1, <2>2, <2>4, <2>5 DEF Mems
  <2>7. UserFrame \in [at : {"user", "create", "map", "swap", "stack"},
                       sector : SwapSectors, program : Contents, cr3 : Pages]
    BY SizeFacts, <2>3 DEF UserFrame, SwapSectors
  <2>8. sector \in 1..(MaxExec + 1)
    BY <1>1, SizeFacts
  <2>9. swap \in [SwapSectors -> Contents]
    BY <1>1, <2>3
  <2>10. frame \in [Callers -> [at : {"user", "create", "map", "swap", "stack"},
                                sector : SwapSectors, program : Contents, cr3 : Pages]]
    BY <1>1, <2>7
  <2> QED BY <1>1, <2>4, <2>6, <2>8, <2>9, <2>10, TypeParts
<1>6. KernelShape
  <2>1. ASSUME NEW page \in Pages \ mem.used, NEW i \in Slots
        PROVE  mem.entry[page][i] = Zero
    <3>1. page \in Nat /\ ~(page <= Base - 1)
      BY <1>2, SizeFacts
    <3>2. page # KernelPd /\ page \notin RESERVED..(RESERVED + ITSELF_END - 1)
      BY <3>1, SizeFacts DEF KernelPd, Base
    <3> QED BY <1>2, <3>2 DEF InitialEntry
  <2> QED BY <1>2, <2>1, SizeFacts DEF KernelShape
<1>7. Counted
  <2>1. Cardinality(mem.used) = Base
    <3>1. 0 \in Int /\ Base - 1 \in Int /\ ~(0 > Base - 1) /\ Base - 1 - 0 + 1 = Base
      BY SizeFacts
    <3> QED BY <1>2, <3>1, FS_Interval
  <2>2. Missing = 0 /\ Starting = 0
    BY <1>4 DEF Missing, Starting
  <2>3. Cardinality({}) = 0
    BY FS_EmptySet
  <2> QED BY <1>1, <1>3, <2>1, <2>2, <2>3, SizeFacts DEF Counted
<1>8. OneUse /\ DirShape /\ Complete /\ Histories
  BY <1>1, <1>3 DEF OneUse, DirShape, Complete, Histories
<1>9. OneCall /\ Progress
  BY <1>4 DEF OneCall, Progress
<1> QED BY <1>5, <1>6, <1>7, <1>8, <1>9 DEF PagingInv

LEMMA Invariance ==
  ASSUME Masked
  PROVE  Spec => []PagingInv
<1>1. Init => PagingInv
  BY InitHolds
<1>2. PagingInv /\ [Next]_vars => PagingInv'
  BY StepKeeps
<1> QED BY <1>1, <1>2, PTL DEF Spec

LEMMA KernelMapHolds ==
  ASSUME PagingInv
  PROVE  KernelMapKept
<1> SUFFICES ASSUME NEW cr3 \in Directories \cup {KernelPd}, NEW page \in Pages
             PROVE  has_addr(mem, cr3, page) /\ addr_translate(mem, cr3, page) = page
  BY DEF KernelMapKept
<1>1. page \in Nat /\ 0 * ENTRIES <= page /\ page < ITSELF_END * ENTRIES
  <2>1. page \in Nat /\ page < NPages
    BY SizeFacts DEF Pages
  <2>2. ITSELF_END * ENTRIES \in Nat /\ NPages <= ITSELF_END * ENTRIES /\ 0 * ENTRIES = 0
    BY SizeFacts, PagingAssumption
  <2> QED BY <2>1, <2>2, SizeFacts
<1>2. PICK d \in Nat, i \in 0..(ENTRIES - 1) :
        /\ d = page \div ENTRIES /\ i = page % ENTRIES /\ page = ENTRIES * d + i
  BY <1>1, SizeFacts, DivMod
<1>3. d < ITSELF_END
  <2>1. 0 \in Nat /\ ITSELF_END \in Nat /\ ENTRIES \in Nat \ {0}
    BY SizeFacts
  <2>2. page \div ENTRIES < ITSELF_END
    BY <1>1, <2>1, DivRange
  <2> QED BY <1>2, <2>2
<1>4. d \in Slots /\ i \in Slots /\ d # CodeDir /\ d # StackDir
  BY <1>2, <1>3, SizeFacts, PlaceFacts DEF Slots
<1>5. mem.entry[cr3][d] = To(RESERVED + d)
  <2>1. InitialEntry(KernelPd, d) = To(RESERVED + d)
    BY <1>3, <1>4, InitialFacts
  <2>2. CASE cr3 \in Directories
    BY <1>4, <2>1, <2>2 DEF PagingInv, DirShape, Shape
  <2>3. CASE cr3 = KernelPd
    <3>1. KernelPd \in 0..(Base - 1)
      BY SizeFacts DEF KernelPd
    <3> QED BY <1>4, <2>1, <2>3, <3>1 DEF PagingInv, KernelShape
  <2> QED BY <2>2, <2>3
<1>6. mem.entry[RESERVED + d][i] = To(page)
  <2>1. /\ RESERVED + d \in 0..(Base - 1) /\ RESERVED + d # KernelPd
        /\ RESERVED + d \in RESERVED..(RESERVED + ITSELF_END - 1)
        /\ (RESERVED + d) - RESERVED = d
    BY <1>3, SizeFacts DEF Base, KernelPd
  <2>2. d * ENTRIES + i = page
    <3>1. d * ENTRIES = ENTRIES * d
      BY SizeFacts, SMTT(30)
    <3> QED BY <1>2, <3>1
  <2>3. ((RESERVED + d) - RESERVED) * ENTRIES + i = page
    BY <2>1, <2>2
  <2>4. InitialEntry(RESERVED + d, i) = To(page)
    BY <2>1, <2>3, Zenon DEF InitialEntry, To
  <2> QED BY <1>4, <2>1, <2>4 DEF PagingInv, KernelShape
<1>7. /\ mem.entry[cr3][d].p /\ mem.entry[cr3][d].n = RESERVED + d
      /\ mem.entry[RESERVED + d][i].p /\ mem.entry[RESERVED + d][i].n = page
  BY <1>5, <1>6 DEF To
<1> QED BY <1>2, <1>7 DEF has_addr, addr_translate
-----------------------------------------------------------------------------
(* What a task's own page tables and pages are used for *)

TableKinds == {"code table", "stack table"}
DataKinds == {"code", "stack", "grown"}

DirOf(kind) == IF kind = "code table" THEN CodeDir ELSE StackDir

PlaceOf(kind) ==
  CASE kind = "code" -> CODE [] kind = "stack" -> STACK [] kind = "grown" -> STACK - 1

LEMMA TableHasKind ==
  ASSUME PagingInv, NEW u \in TableUses
  PROVE  \E k \in TableKinds :
           /\ Held(mem, u[1], k) /\ mem.entry[u[1]][u[2]].n = PageOf(mem, u[1], k)
           /\ u[2] = DirOf(k)
<1>1. /\ u \in Directories \X (ITSELF_END..(ENTRIES - 1)) /\ mem.entry[u[1]][u[2]].p
  BY DEF TableUses
<1>2. u[1] \in Directories /\ u[2] \in Slots /\ u[2] >= ITSELF_END
  BY <1>1, SizeFacts DEF Slots
<1>3. u[2] = CodeDir \/ u[2] = StackDir
  <2>1. Shape(mem, u[1])
    BY <1>2 DEF PagingInv, DirShape
  <2>2. ASSUME u[2] # CodeDir, u[2] # StackDir PROVE FALSE
    <3>1. mem.entry[u[1]][u[2]] = InitialEntry(KernelPd, u[2])
      BY <1>2, <2>1, <2>2 DEF Shape
    <3>2. mem.entry[u[1]][u[2]] = Zero
      BY <1>2, <3>1, InitialFacts
    <3> QED BY <1>1, <3>2, EntryFacts
  <2> QED BY <2>2
<1>4. CASE u[2] = CodeDir
  <2>1. Held(mem, u[1], "code table") /\ PageOf(mem, u[1], "code table") = mem.entry[u[1]][CodeDir].n
    BY <1>1, <1>4 DEF Held, PageOf, CodeTable
  <2> QED BY <1>4, <2>1 DEF TableKinds, DirOf
<1>5. CASE u[2] = StackDir
  <2>1. Held(mem, u[1], "stack table") /\ PageOf(mem, u[1], "stack table") = mem.entry[u[1]][StackDir].n
    BY <1>1, <1>5 DEF Held, PageOf, StackTable
  <2>2. DirOf("stack table") = StackDir
    BY DEF DirOf
  <2> QED BY <1>5, <2>1, <2>2 DEF TableKinds
<1> QED BY <1>3, <1>4, <1>5

LEMMA DataHasKind ==
  ASSUME PagingInv, NEW u \in PageUses
  PROVE  \E k \in DataKinds :
           /\ Held(mem, u[1], k) /\ addr_translate(mem, u[1], u[2]) = PageOf(mem, u[1], k)
           /\ u[2] = PlaceOf(k)
<1>1. u \in Directories \X Private /\ has_addr(mem, u[1], u[2])
  BY DEF PageUses
<1>2. /\ u[1] \in Directories /\ u[2] \in Nat
      /\ ITSELF_END * ENTRIES <= u[2] /\ u[2] < ENTRIES * ENTRIES
  <2>1. ITSELF_END * ENTRIES \in Nat /\ ENTRIES * ENTRIES \in Nat
    BY SizeFacts
  <2> QED BY <1>1, <2>1 DEF Private
<1>3. PICK d \in Nat, i \in 0..(ENTRIES - 1) :
        /\ d = u[2] \div ENTRIES /\ i = u[2] % ENTRIES /\ u[2] = ENTRIES * d + i
  BY <1>2, SizeFacts, DivMod
<1>4. d \in Slots /\ i \in Slots /\ d >= ITSELF_END
  <2>1. ITSELF_END <= u[2] \div ENTRIES /\ u[2] \div ENTRIES < ENTRIES
    BY <1>2, SizeFacts, DivRange
  <2> QED BY <1>3, <2>1, SizeFacts DEF Slots
<1>5. /\ mem.entry[u[1]][d].p /\ mem.entry[mem.entry[u[1]][d].n][i].p
      /\ addr_translate(mem, u[1], u[2]) = mem.entry[mem.entry[u[1]][d].n][i].n
  BY <1>1, <1>3 DEF has_addr, addr_translate
<1>6. Shape(mem, u[1])
  BY <1>2 DEF PagingInv, DirShape
<1>7. /\ CODE = ENTRIES * CodeDir + CodeSlot /\ STACK = ENTRIES * StackDir + StackSlot
      /\ STACK - 1 = ENTRIES * StackDir + GrownSlot
  <2>1. CODE \in Nat /\ STACK \in Nat /\ STACK - 1 \in Nat
    <3>1. ITSELF_END * ENTRIES \in Nat /\ ENTRIES * ENTRIES \in Nat
      BY SizeFacts
    <3> QED BY <3>1, PagingAssumption
  <2>2. STACK - 1 = ENTRIES * ((STACK - 1) \div ENTRIES) + GrownSlot
    BY <2>1, SizeFacts, DivMod DEF GrownSlot
  <2>3. STACK - 1 = ENTRIES * StackDir + GrownSlot
    BY <2>2, PlaceFacts, Zenon
  <2> QED BY <2>1, <2>3, SizeFacts, DivMod DEF CodeDir, CodeSlot, StackDir, StackSlot
<1>8. d = CodeDir \/ d = StackDir
  <2>1. ASSUME d # CodeDir, d # StackDir PROVE FALSE
    <3>1. mem.entry[u[1]][d] = InitialEntry(KernelPd, d)
      BY <1>4, <1>6, <2>1 DEF Shape
    <3>2. mem.entry[u[1]][d] = Zero
      BY <1>4, <3>1, InitialFacts
    <3> QED BY <1>5, <3>2, EntryFacts
  <2> QED BY <2>1
<1>9. CASE d = CodeDir
  <2>1. i = CodeSlot
    <3>1. \A j \in Slots \ {CodeSlot} : mem.entry[mem.entry[u[1]][CodeDir].n][j] = Zero
      BY <1>5, <1>6, <1>9 DEF Shape, CodeTable
    <3>2. ~Zero.p
      BY DEF Zero
    <3> QED BY <1>4, <1>5, <1>9, <3>1, <3>2, Zenon
  <2>2. u[2] = CODE
    BY <1>3, <1>7, <1>9, <2>1
  <2>3. /\ Held(mem, u[1], "code")
        /\ PageOf(mem, u[1], "code") = mem.entry[mem.entry[u[1]][CodeDir].n][CodeSlot].n
    BY <1>5, <1>9, <2>1 DEF Held, PageOf, CodeTable
  <2>4. PlaceOf("code") = CODE
    BY DEF PlaceOf
  <2> QED BY <1>5, <1>9, <2>1, <2>2, <2>3, <2>4 DEF DataKinds
<1>10. CASE d = StackDir
  <2>1. i = StackSlot \/ i = GrownSlot
    <3>1. \A j \in Slots \ {StackSlot, GrownSlot} :
            mem.entry[mem.entry[u[1]][StackDir].n][j] = Zero
      BY <1>5, <1>6, <1>10 DEF Shape, StackTable
    <3>2. ~Zero.p
      BY DEF Zero
    <3> QED BY <1>4, <1>5, <1>10, <3>1, <3>2, Zenon
  <2>2. CASE i = StackSlot
    <3>1. u[2] = STACK
      BY <1>3, <1>7, <1>10, <2>2
    <3>2. /\ Held(mem, u[1], "stack")
          /\ PageOf(mem, u[1], "stack") = mem.entry[mem.entry[u[1]][StackDir].n][StackSlot].n
      BY <1>5, <1>10, <2>2 DEF Held, PageOf, StackTable
    <3>3. PlaceOf("stack") = STACK
      BY DEF PlaceOf
    <3> QED BY <1>5, <1>10, <2>2, <3>1, <3>2, <3>3 DEF DataKinds
  <2>3. CASE i = GrownSlot
    <3>1. u[2] = STACK - 1
      BY <1>3, <1>7, <1>10, <2>3
    <3>2. /\ Held(mem, u[1], "grown")
          /\ PageOf(mem, u[1], "grown") = mem.entry[mem.entry[u[1]][StackDir].n][GrownSlot].n
      BY <1>5, <1>10, <2>3 DEF Held, PageOf, StackTable
    <3>3. PlaceOf("grown") = STACK - 1
      BY DEF PlaceOf
    <3> QED BY <1>5, <1>10, <2>3, <3>1, <3>2, <3>3 DEF DataKinds
  <2> QED BY <2>1, <2>2, <2>3
<1> QED BY <1>8, <1>9, <1>10

LEMMA OneUseHolds ==
  ASSUME PagingInv
  PROVE  PagesNotShared
<1> SUFFICES ASSUME \A c \in Callers : frame[c].at # "swap"
             PROVE  PagesNotShared
  BY DEF PagesNotShared
<1> DEFINE table(u) == mem.entry[u[1]][u[2]].n
           page(u) == addr_translate(mem, u[1], u[2])
<1>1. \A a, k : Real(mem, a, k) <=> Held(mem, a, k)
  <2>1. Working({"swap"}) = {}
    BY DEF Working, In
  <2> QED BY <2>1 DEF Real
<1>2. TableKinds \subseteq Kinds /\ DataKinds \subseteq Kinds /\ TableKinds \cap DataKinds = {}
      /\ "directory" \in Kinds /\ "directory" \notin TableKinds /\ "directory" \notin DataKinds
  BY DEF TableKinds, DataKinds, Kinds
<1>3. \A u \in TableUses : /\ u[1] \in Directories /\ u = <<u[1], u[2]>>
  BY DEF TableUses
<1>4. \A u \in PageUses : /\ u[1] \in Directories /\ u = <<u[1], u[2]>>
  BY DEF PageUses
<1>5. \A a, b \in Directories, j, k \in Kinds :
        Held(mem, a, j) /\ Held(mem, b, k) /\ PageOf(mem, a, j) = PageOf(mem, b, k)
          => a = b /\ j = k
  BY <1>1, Zenon DEF PagingInv, OneUse
<1>6. \A a \in Directories, j \in Kinds :
        Held(mem, a, j) => PageOf(mem, a, j) \in mem.used /\ PageOf(mem, a, j) >= Base
  BY <1>1, Zenon DEF PagingInv, OneUse
<1>7. \A u \in TableUses : \E k \in TableKinds :
        Held(mem, u[1], k) /\ table(u) = PageOf(mem, u[1], k) /\ u[2] = DirOf(k)
  BY TableHasKind
<1>8. \A u \in PageUses : \E k \in DataKinds :
        Held(mem, u[1], k) /\ page(u) = PageOf(mem, u[1], k) /\ u[2] = PlaceOf(k)
  BY DataHasKind
<1>9. \A a \in Directories : Held(mem, a, "directory") /\ PageOf(mem, a, "directory") = a
  BY DEF Held, PageOf
<1> HIDE DEF table, page
<1>10. ASSUME NEW u \in TableUses, NEW w \in TableUses, table(u) = table(w)
       PROVE  u = w
  <2>1. PICK j \in TableKinds :
          Held(mem, u[1], j) /\ table(u) = PageOf(mem, u[1], j) /\ u[2] = DirOf(j)
    BY <1>7
  <2>2. PICK k \in TableKinds :
          Held(mem, w[1], k) /\ table(w) = PageOf(mem, w[1], k) /\ w[2] = DirOf(k)
    BY <1>7
  <2>3. j \in Kinds /\ k \in Kinds /\ u[1] \in Directories /\ w[1] \in Directories
    BY <1>2, <1>3
  <2>4. PageOf(mem, u[1], j) = PageOf(mem, w[1], k)
    BY <1>10, <2>1, <2>2
  <2>5. u[1] = w[1] /\ j = k
    BY <1>5, <2>1, <2>2, <2>3, <2>4
  <2>6. u[2] = w[2]
    BY <2>1, <2>2, <2>5
  <2> QED BY <1>3, <2>5, <2>6
<1>11. ASSUME NEW u \in PageUses, NEW w \in PageUses, page(u) = page(w)
       PROVE  u = w
  <2>1. PICK j \in DataKinds :
          Held(mem, u[1], j) /\ page(u) = PageOf(mem, u[1], j) /\ u[2] = PlaceOf(j)
    BY <1>8
  <2>2. PICK k \in DataKinds :
          Held(mem, w[1], k) /\ page(w) = PageOf(mem, w[1], k) /\ w[2] = PlaceOf(k)
    BY <1>8
  <2>3. j \in Kinds /\ k \in Kinds /\ u[1] \in Directories /\ w[1] \in Directories
    BY <1>2, <1>4
  <2>4. PageOf(mem, u[1], j) = PageOf(mem, w[1], k)
    BY <1>11, <2>1, <2>2
  <2>5. u[1] = w[1] /\ j = k
    BY <1>5, <2>1, <2>2, <2>3, <2>4
  <2>6. u[2] = w[2]
    BY <2>1, <2>2, <2>5
  <2> QED BY <1>4, <2>5, <2>6
<1>12. ASSUME NEW u \in TableUses, NEW w \in PageUses
       PROVE  table(u) # page(w)
  <2>1. PICK j \in TableKinds : Held(mem, u[1], j) /\ table(u) = PageOf(mem, u[1], j)
    BY <1>7
  <2>2. PICK k \in DataKinds : Held(mem, w[1], k) /\ page(w) = PageOf(mem, w[1], k)
    BY <1>8
  <2>3. j \in Kinds /\ k \in Kinds /\ j # k /\ u[1] \in Directories /\ w[1] \in Directories
    BY <1>2, <1>3, <1>4
  <2> QED BY <1>5, <2>1, <2>2, <2>3
<1>13. ASSUME NEW u \in TableUses
       PROVE  table(u) \notin Directories /\ table(u) \in mem.used /\ table(u) >= Base
  <2>1. PICK j \in TableKinds : Held(mem, u[1], j) /\ table(u) = PageOf(mem, u[1], j)
    BY <1>7
  <2>2. j \in Kinds /\ j # "directory" /\ u[1] \in Directories
    BY <1>2, <1>3
  <2>3. table(u) \in mem.used /\ table(u) >= Base
    BY <1>6, <2>1, <2>2
  <2>4. \A b \in Directories : PageOf(mem, u[1], j) # b
    BY <1>2, <1>5, <1>9, <2>1, <2>2
  <2> QED BY <2>1, <2>3, <2>4
<1>14. ASSUME NEW u \in PageUses
       PROVE  page(u) \notin Directories /\ page(u) \in mem.used /\ page(u) >= Base
  <2>1. PICK j \in DataKinds : Held(mem, u[1], j) /\ page(u) = PageOf(mem, u[1], j)
    BY <1>8
  <2>2. j \in Kinds /\ j # "directory" /\ u[1] \in Directories
    BY <1>2, <1>4
  <2>3. page(u) \in mem.used /\ page(u) >= Base
    BY <1>6, <2>1, <2>2
  <2>4. \A b \in Directories : PageOf(mem, u[1], j) # b
    BY <1>2, <1>5, <1>9, <2>1, <2>2
  <2> QED BY <2>1, <2>3, <2>4
<1>15. \A a \in Directories : a \in mem.used /\ a >= Base
  BY OwnTables DEF PagingInv
<1>16. \A x \in mem.used : x >= Base => x \in mem.used \ 0..(RESERVED + ITSELF_END - 1)
  <2>1. mem.used \subseteq Nat
    BY SizeFacts DEF PagingInv, TypeOK
  <2> QED BY <2>1, SizeFacts DEF Base
<1> DEFINE tables == {table(u) : u \in TableUses}
           data == {page(u) : u \in PageUses}
<1>17. tables \cap data = {} /\ Directories \cap (tables \cup data) = {}
  BY <1>12, <1>13, <1>14
<1>18. Directories \cup tables \cup data \subseteq mem.used \ 0..(RESERVED + ITSELF_END - 1)
  BY <1>13, <1>14, <1>15, <1>16
<1> HIDE DEF tables, data
<1>19. /\ \A u, w \in TableUses : table(u) = table(w) => u = w
       /\ \A u, w \in PageUses : page(u) = page(w) => u = w
       /\ tables \cap data = {}
       /\ Directories \cap (tables \cup data) = {}
       /\ Directories \cup tables \cup data \subseteq mem.used \ 0..(RESERVED + ITSELF_END - 1)
  BY <1>10, <1>11, <1>17, <1>18
<1> QED BY <1>19, Zenon DEF PagesNotShared, tables, data, table, page
-----------------------------------------------------------------------------
(***************************************************************************)
(* Every variable of memory.c, v_memory.c and execve.c stays within its    *)
(* range: p_malloc returns a page whenever one is needed, and page table   *)
(* entries name pages or swap sectors, if callers of sys_execve disable    *)
(* interrupts.                                                             *)
(***************************************************************************)
THEOREM TypeCorrect ==
  ASSUME Masked
  PROVE  Spec => []TypeOK
<1>1. PagingInv => TypeOK
  BY DEF PagingInv
<1> QED BY <1>1, Invariance, PTL

(***************************************************************************)
(* If callers of sys_execve disable interrupts, every task runs the        *)
(* program it was started with, whenever swap_in loads it.                 *)
(***************************************************************************)
THEOREM TasksRunTheirProgram ==
  ASSUME Masked
  PROVE  Spec => []RunsItsProgram
<1>1. PagingInv => RunsItsProgram
  BY DEF PagingInv, Histories, RunsItsProgram
<1> QED BY <1>1, Invariance, PTL

(***************************************************************************)
(* If callers of sys_execve disable interrupts, a page that p_malloc       *)
(* returned has one use.                                                   *)
(***************************************************************************)
THEOREM PagesHaveOneUse ==
  ASSUME Masked
  PROVE  Spec => []PagesNotShared
<1>1. PagingInv => PagesNotShared
  BY OneUseHolds
<1> QED BY <1>1, Invariance, PTL

(***************************************************************************)
(* If callers of sys_execve disable interrupts, every task sees physical   *)
(* memory at its own address.                                              *)
(***************************************************************************)
THEOREM KernelMapStays ==
  ASSUME Masked
  PROVE  Spec => []KernelMapKept
<1>1. PagingInv => KernelMapKept
  BY KernelMapHolds
<1> QED BY <1>1, Invariance, PTL
=============================================================================
