------------------------------- MODULE Paging -------------------------------
(***************************************************************************)
(* Physical pages, page tables, swapping in and sys_execve                 *)
(* (kernel/lib/bit_allocation.c, kernel/mm/memory.c, v_memory.c, execve.c, *)
(* and the page directory task_init makes).                                *)
(*                                                                         *)
(* A page holds ENTRIES page table entries (1024), so a virtual page is    *)
(* a number d * ENTRIES + t.  An entry of zero is not present and names    *)
(* swap sector 0.  A swap sector stands for the 8 sectors of a page.       *)
(* Nothing calls p_free: pages of tasks that exit stay allocated.          *)
(*                                                                         *)
(* sys_execve runs in its caller's task with interrupts enabled; a page    *)
(* fault goes through an interrupt gate and is handled as one step.  With  *)
(* Masked = TRUE callers disable interrupts around sys_execve.             *)
(***************************************************************************)
EXTENDS Integers, Sequences, FiniteSets, FiniteSetsExt

CONSTANTS ENTRIES,       \* entries of a page table
          NPages,        \* pages of physical memory
          RESERVED,      \* pages memory_alloc_init takes, kernel_pd first
          ITSELF_END,    \* page directory entries mapped to themselves
          CODE,          \* virtual page of TEMP_CODE_START
          STACK,         \* virtual page of INIT_ESP_VMA
          Callers,       \* tasks that call sys_execve
          Programs,      \* contents of the files they start
          MaxExec,       \* bound: calls of sys_execve
          Masked         \* do callers disable interrupts?

Pages == 0..(NPages - 1)
Slots == 0..(ENTRIES - 1)
SwapSectors == 0..MaxExec

(* kernel_pd, the page directory of main. *)
KernelPd == 0

(***************************************************************************)
(* Memory lies within the range mapped to itself, apart from which come    *)
(* the addresses of a task's code and stack.  There are pages for every    *)
(* bounded call: a page directory, two page tables, the code, the stack    *)
(* and one page the stack grows into.                                      *)
(***************************************************************************)
ASSUME PagingAssumption ==
  /\ ENTRIES \in Nat \ {0}
  /\ ITSELF_END \in 0..ENTRIES
  /\ NPages \in Nat
  /\ NPages <= ITSELF_END * ENTRIES
  /\ RESERVED \in 1..NPages
  /\ MaxExec \in Nat
  /\ RESERVED + ITSELF_END + 6 * MaxExec <= NPages
  /\ CODE \in (ITSELF_END * ENTRIES)..(ENTRIES * ENTRIES - 2)
  /\ STACK \in (ITSELF_END * ENTRIES + 1)..(ENTRIES * ENTRIES - 2)
  /\ CODE \div ENTRIES # STACK \div ENTRIES
  /\ (STACK - 1) \div ENTRIES = STACK \div ENTRIES
  /\ Programs \cap {"none", "boot", "mixed"} = {}
  /\ Masked \in BOOLEAN

VARIABLES
  mem,       \* [used, entry, content]: the bitmap, every page as a page
             \* table, and what was loaded into it
  sector,    \* swap_alloc's static variable
  swap,      \* what every swap sector holds
  live,      \* page directories of the tasks that have been created
  prog,      \* history: the program a page directory was made for
  frame,     \* where every caller is in sys_execve
  executed   \* history: a task's directory with the code it has run

vars == <<mem, sector, swap, live, prog, frame, executed>>

Contents == Programs \cup {"none", "boot", "mixed"}
Entries == [p : BOOLEAN, n : Pages \cup SwapSectors]
Zero == [p |-> FALSE, n |-> 0]

TypeOK ==
  /\ mem \in [used : SUBSET Pages, entry : [Pages -> [Slots -> Entries]],
              content : [Pages -> Contents]]
  /\ sector \in 1..(MaxExec + 1)
  /\ swap \in [SwapSectors -> Contents]
  /\ live \subseteq Pages
  /\ prog \in [Pages -> Contents]
  /\ frame \in [Callers -> [at : {"user", "create", "map", "swap", "stack"},
                            sector : SwapSectors, program : Contents, cr3 : Pages]]
  /\ executed \subseteq (Pages \X Contents)
-----------------------------------------------------------------------------
(* The lowest free page; the page bit_alloc and p_malloc return. *)
p_malloc(m) == Min(Pages \ m.used)

NotMarked(m, page) == m

(* bit_alloc marks the page it returns. *)
Allocated(m, page) == [m EXCEPT !.used = @ \cup {page}]

(***************************************************************************)
(* A page table is allocated, uncleared (memory is zero at power-on), when *)
(* the directory has none for virtual; then its entry is overwritten.      *)
(***************************************************************************)
set_mmap(m, cr3, virtual, physical) ==
  LET d == virtual \div ENTRIES
      new == p_malloc(m)
      withTable ==
        IF m.entry[cr3][d].p
          THEN m
          ELSE [Allocated(m, new) EXCEPT !.entry[cr3][d] = [p |-> TRUE, n |-> new]]
  IN [withTable EXCEPT !.entry[withTable.entry[cr3][d].n][virtual % ENTRIES] =
                         [p |-> TRUE, n |-> physical]]

load_memory(m, cr3, virtual) ==
  LET physical == p_malloc(m)
  IN set_mmap(Allocated(m, physical), cr3, virtual, physical)

has_addr(m, cr3, virtual) ==
  LET pde == m.entry[cr3][virtual \div ENTRIES]
  IN pde.p /\ m.entry[pde.n][virtual % ENTRIES].p

addr_translate(m, cr3, virtual) ==
  m.entry[m.entry[cr3][virtual \div ENTRIES].n][virtual % ENTRIES].n

CopiesNothing(m, from_pd, to_pd) == m

copy_pts(m, from_pd, to_pd) == [m EXCEPT !.entry[to_pd] = m.entry[from_pd]]

(* false, that is 0, where there is no page table. *)
swap_sector_of(m, cr3, virtual) ==
  LET pde == m.entry[cr3][virtual \div ENTRIES]
  IN IF pde.p THEN m.entry[pde.n][virtual % ENTRIES].n ELSE 0

(* Storing the sector clears the present bit. *)
swap_sector_set(m, cr3, virtual, s) ==
  [m EXCEPT !.entry[m.entry[cr3][virtual \div ENTRIES].n][virtual % ENTRIES] =
              [p |-> FALSE, n |-> s]]

(* swap_in of the first byte of a page. *)
SwapInAligned(m, cr3, virtual) ==
  LET loaded == load_memory(m, cr3, virtual)
  IN [loaded EXCEPT !.content[addr_translate(loaded, cr3, virtual)] =
                      swap[swap_sector_of(m, cr3, virtual)]]

(***************************************************************************)
(* on_page_fault gives swap_in the faulting address itself, and a page is  *)
(* read from disk to that address: after a fault in the middle of a page   *)
(* it ends in the next page, which faults in turn if it is not there.      *)
(***************************************************************************)
on_page_fault(m, cr3, virtual, aligned) ==
  LET loaded == load_memory(m, cr3, virtual)
      both == IF has_addr(loaded, cr3, virtual + 1)
                THEN loaded
                ELSE SwapInAligned(loaded, cr3, virtual + 1)
  IN IF aligned
       THEN SwapInAligned(m, cr3, virtual)
       ELSE [both EXCEPT !.content[addr_translate(both, cr3, virtual)] = "mixed",
                         !.content[addr_translate(both, cr3, virtual + 1)] = "mixed"]
-----------------------------------------------------------------------------
(***************************************************************************)
(* memory_init: memory_alloc_init reserves the kernel's pages, and         *)
(* add_mmap_to_itself fills kernel_pd, taking the next pages as tables.    *)
(***************************************************************************)
memory_init ==
  mem = [used |-> 0..(RESERVED + ITSELF_END - 1),
         entry |-> [page \in Pages |-> [i \in Slots |->
           CASE page = KernelPd /\ i < ITSELF_END -> [p |-> TRUE, n |-> RESERVED + i]
             [] /\ page \in RESERVED..(RESERVED + ITSELF_END - 1)
                /\ (page - RESERVED) * ENTRIES + i \in Pages
                  -> [p |-> TRUE, n |-> (page - RESERVED) * ENTRIES + i]
             [] OTHER -> Zero]],
         content |-> [page \in Pages |-> "none"]]

UserFrame == [at |-> "user", sector |-> 0, program |-> "none", cr3 |-> 0]

Init ==
  /\ memory_init
  /\ sector = 1
  /\ swap = [s \in SwapSectors |-> IF s = 0 THEN "boot" ELSE "none"]
  /\ live = {}
  /\ prog = [page \in Pages |-> "none"]
  /\ frame = [c \in Callers |-> UserFrame]
  /\ executed = {}
-----------------------------------------------------------------------------
(* No other task runs while a masked call is under way. *)
MayRun == Masked => \A c \in Callers : frame[c].at = "user"

Go(c, label) == frame' = [frame EXCEPT ![c].at = label]

NoAdvance(s) == s
AdvancesTwice(s) == s + 2

(* sector += 8 *)
Advanced(s) == s + 1

(* The file is read, swap_alloc called and the file written there. *)
ExecLoad(c, program) ==
  /\ MayRun
  /\ frame[c].at = "user"
  /\ sector <= MaxExec
  /\ sector' = Advanced(sector)
  /\ swap' = [swap EXCEPT ![sector] = program]
  /\ frame' = [frame EXCEPT ![c] = [at |-> "create", sector |-> sector,
                                    program |-> program, cr3 |-> 0]]
  /\ UNCHANGED <<mem, live, prog, executed>>

(* create_task: a copy of kernel_pd; the task is ready and may run. *)
ExecCreate(c) ==
  LET cr3 == p_malloc(mem)
  IN /\ frame[c].at = "create"
     /\ mem' = copy_pts(Allocated(mem, cr3), KernelPd, cr3)
     /\ live' = live \cup {cr3}
     /\ prog' = [prog EXCEPT ![cr3] = frame[c].program]
     /\ frame' = [frame EXCEPT ![c].at = "map", ![c].cr3 = cr3]
     /\ UNCHANGED <<sector, swap, executed>>

(* A page table for the code, made by mapping page 0 there. *)
ExecMap(c) ==
  /\ frame[c].at = "map"
  /\ mem' = set_mmap(mem, frame[c].cr3, CODE, 0)
  /\ Go(c, "swap")
  /\ UNCHANGED <<sector, swap, live, prog, executed>>

ExecSetSwap(c) ==
  /\ frame[c].at = "swap"
  /\ mem' = swap_sector_set(mem, frame[c].cr3, CODE, frame[c].sector)
  /\ Go(c, "stack")
  /\ UNCHANGED <<sector, swap, live, prog, executed>>

ExecStack(c) ==
  /\ frame[c].at = "stack"
  /\ mem' = load_memory(mem, frame[c].cr3, STACK)
  /\ frame' = [frame EXCEPT ![c] = UserFrame]
  /\ UNCHANGED <<sector, swap, live, prog, executed>>
-----------------------------------------------------------------------------
(* A task fetches its first instruction, at the start of a page... *)
CodeFault(cr3) ==
  /\ MayRun
  /\ ~has_addr(mem, cr3, CODE)
  /\ mem' = on_page_fault(mem, cr3, CODE, TRUE)
  /\ UNCHANGED <<sector, swap, live, prog, frame, executed>>

RunsCode(cr3) ==
  /\ MayRun
  /\ has_addr(mem, cr3, CODE)
  /\ executed' = executed \cup
                   {<<cr3, mem.content[addr_translate(mem, cr3, CODE)]>>}
  /\ UNCHANGED <<mem, sector, swap, live, prog, frame>>

(* ... and pushes beyond the page its stack began in, at the page's end. *)
StackFault(cr3) ==
  /\ MayRun
  /\ \E x \in executed : x[1] = cr3
  /\ ~has_addr(mem, cr3, STACK - 1)
  /\ mem' = on_page_fault(mem, cr3, STACK - 1, FALSE)
  /\ UNCHANGED <<sector, swap, live, prog, frame, executed>>

(* sys_exit gives no page back. *)
SysExit(cr3) ==
  /\ MayRun
  /\ \E x \in executed : x[1] = cr3
  /\ live' = live \ {cr3}
  /\ UNCHANGED <<mem, sector, swap, prog, frame, executed>>

Next ==
  \/ \E c \in Callers :
       \/ \E program \in Programs : ExecLoad(c, program)
       \/ ExecCreate(c) \/ ExecMap(c) \/ ExecSetSwap(c) \/ ExecStack(c)
  \/ \E cr3 \in live :
       CodeFault(cr3) \/ RunsCode(cr3) \/ StackFault(cr3) \/ SysExit(cr3)

Spec == Init /\ [][Next]_vars
-----------------------------------------------------------------------------
(***************************************************************************)
(* v_memory.c:14: swap_in is called only when the page's swap sector has   *)
(* been set, so that every task runs the program it was started with and   *)
(* nothing else, although several tasks are started and their pages are    *)
(* loaded long after.                                                      *)
(***************************************************************************)
RunsItsProgram == \A x \in executed : x[2] = prog[x[1]]

(* The virtual pages outside the range every task shares. *)
Private == (ITSELF_END * ENTRIES)..(ENTRIES * ENTRIES - 1)

Directories == {page \in Pages : prog[page] # "none"}

(* Where a task's own page tables and pages are. *)
TableUses == {u \in Directories \X (ITSELF_END..(ENTRIES - 1)) :
                mem.entry[u[1]][u[2]].p}

PageUses == {u \in Directories \X Private : has_addr(mem, u[1], u[2])}

(***************************************************************************)
(* memory.c:102-107: a page p_malloc returned has one use: it is the page  *)
(* directory of one task, the page table of one task or mapped at one      *)
(* address of one task, and the bitmap knows it.  So no task's fault       *)
(* changes what another task sees.  (While sys_execve has a page table     *)
(* made it maps page 0 for a moment.)                                      *)
(***************************************************************************)
PagesNotShared ==
  (\A c \in Callers : frame[c].at # "swap") =>
    LET table(u) == mem.entry[u[1]][u[2]].n
        page(u) == addr_translate(mem, u[1], u[2])
        tables == {table(u) : u \in TableUses}
        data == {page(u) : u \in PageUses}
    IN /\ \A u, w \in TableUses : table(u) = table(w) => u = w
       /\ \A u, w \in PageUses : page(u) = page(w) => u = w
       /\ tables \cap data = {}
       /\ Directories \cap (tables \cup data) = {}
       /\ Directories \cup tables \cup data \subseteq
            mem.used \ 0..(RESERVED + ITSELF_END - 1)

(***************************************************************************)
(* task.c:46-49 and memory.c:41: every task sees all physical memory at    *)
(* its own address, whatever has been mapped since kernel_pd was copied,   *)
(* so that set_mmap can write page tables in whatever task it runs.        *)
(***************************************************************************)
KernelMapKept ==
  \A cr3 \in Directories \cup {KernelPd}, page \in Pages :
    has_addr(mem, cr3, page) /\ addr_translate(mem, cr3, page) = page
=============================================================================
