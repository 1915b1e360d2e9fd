------------------------------- MODULE Paging -------------------------------
(***************************************************************************)
(* The paging of project5_start_code: memory.c, the TLB miss handler of    *)
(* interrupt.c and entry.S, and what scheduler() does for it.  A process   *)
(* has one page of code, read from the image on first use and thrown away  *)
(* without writing back, and one page of stack, which is pinned.           *)
(*                                                                         *)
(* The handler runs with interrupts off: it is one action.  The TLB holds  *)
(* the valid entries; tlbwr puts one at a random index, so it may push any *)
(* other out.                                                              *)
(***************************************************************************)
EXTENDS Links

CONSTANTS
  NumProcesses,     \* their pids, which are the ASIDs, follow that of clock_thread, 0
  PAGEABLE_PAGES,
  Revisits,         \* may the address at which a page came in miss again?
  MaxValue,         \* bound: the values that programs store
  NULL

\* Two frames of each process are pinned and one is left for code.
ASSUME PagingAssumption ==
  /\ NumProcesses \in Nat \ {0}
  /\ PAGEABLE_PAGES \in Nat /\ PAGEABLE_PAGES > 2 * NumProcesses
  /\ Revisits \in BOOLEAN /\ MaxValue \in Nat
  /\ NULL \notin Int

Proc == 1 .. NumProcesses
Frame == 1 .. PAGEABLE_PAGES
page_queue == PAGEABLE_PAGES + 1
Page == {"code", "stack"}
Value == 0 .. MaxValue
Image(p) == -p                  \* what the disk holds at pcb[p].loc

\* The addresses that miss first: entry_point, and one for all stacks, which
\* begin at 0x37fff0 in every process.
Address(p, page) == IF page = "code" THEN p ELSE NumProcesses + 1

VARIABLES
  is_used, pinned, pid, vaddr,  \* of each page_map_entry_t
  links,          \* p_node of each entry, and page_queue
  page_table,     \* of each process, the frame of each page, NULL if not valid
  tlb,            \* entries [asid, page, frame]
  mem,            \* the contents of each frame
  procn,          \* the processes that are set up
  current,        \* current_running
  asid,           \* of CP0_ENTRYHI
  last            \* what the last memory access of a process was and gave

page_map == <<is_used, pinned, pid, vaddr, links>>
vars == <<page_map, page_table, tlb, mem, procn, current, asid, last>>

FreeFrames == {f \in Frame : ~is_used[f]}

-----------------------------------------------------------------------------
(* page_alloc(pin): the first free frame, or the first in page_queue.  Where *)
(* there is neither, the code would follow a NULL: see FramesOwned.          *)

CanAlloc == FreeFrames # {} \/ ~is_empty(links, page_queue)
Victims == IF FreeFrames = {} THEN {peek(links, page_queue)} ELSE {}
Allocated ==
  IF Victims # {} THEN peek(links, page_queue)
  ELSE CHOOSE f \in FreeFrames : \A g \in FreeFrames : f <= g

KeptInQueue(L) == L                                    \* Mutant: only looked at
TakenOut(L) == IF Victims = {} THEN L ELSE dequeue(L, page_queue)

QueuedAlways(L, pin) == enqueue(L, page_queue, Allocated)   \* Mutant
Queued(L, pin) == IF pin THEN L ELSE enqueue(L, page_queue, Allocated)

\* is_used, pinned and the queue.
MarkFrame(pin) ==
  /\ is_used' = [is_used EXCEPT ![Allocated] = TRUE]
  /\ pinned' = [pinned EXCEPT ![Allocated] = pin]
  /\ links' = Queued(TakenOut(links), pin)

\* The code page of the process that loses its frame is no longer valid.
Swapped(pt) ==
  [p \in Proc |-> IF \E f \in Victims : pid[f] = p
                  THEN [pt[p] EXCEPT !["code"] = NULL] ELSE pt[p]]
FlushNothing(entries) == entries                       \* Mutant
FlushVictim(entries) ==
  {e \in entries : ~(e.page = "code" /\ \E f \in Victims : pid[f] = e.asid)}

-----------------------------------------------------------------------------
(* Boot and scheduling. *)

\* setup_page_table() of the next process: the table takes a pinned frame, whose
\* pid and vaddr stay 0.
SetupPageTable ==
  /\ procn < NumProcesses /\ CanAlloc
  /\ procn' = procn + 1
  /\ MarkFrame(TRUE)
  /\ UNCHANGED <<pid, vaddr, page_table, tlb, mem, current, asid, last>>

NewAsidStale(p) == asid    \* Mutant: set_pt() forgotten
NewAsid(p) == p

\* scheduler(), after any call or interrupt.
Schedule(p) ==
  /\ procn = NumProcesses
  /\ current' = p /\ asid' = NewAsid(p)
  /\ UNCHANGED <<page_map, page_table, tlb, mem, procn, last>>

-----------------------------------------------------------------------------
(* handle_tlb: the running process touches a page that the TLB does not have. *)

Hits(page) == {e \in tlb : e.asid = asid /\ e.page = page}

\* tlbwr of what the page table holds now.
Tlbwr(entries, page, f) ==
  \E out \in SUBSET entries :
    /\ Cardinality(out) <= 1
    /\ tlb' = (entries \ out) \cup {[asid |-> current, page |-> page, frame |-> f]}

\* The page is not valid: a frame is allocated, filled and mapped.
PageFault(page) ==
  /\ page_table[current][page] = NULL /\ CanAlloc
  /\ MarkFrame(page = "stack")
  /\ pid' = [pid EXCEPT ![Allocated] = current]
  /\ vaddr' = [vaddr EXCEPT ![Allocated] = Address(current, page)]
  /\ mem' = [mem EXCEPT ![Allocated] = IF page = "code" THEN Image(current) ELSE 0]
  /\ page_table' = [Swapped(page_table) EXCEPT ![current][page] = Allocated]
  /\ Tlbwr(FlushVictim(tlb), page, Allocated)

\* refresh_page_q(): the first frame that came in for the same address is moved to
\* the tail, but without being taken out where it was, and whether or not it was
\* in the queue.
Relinked(L, f) == enqueue([L EXCEPT !.prev[f] = L.next[f]], page_queue, f)
Refreshed(page) ==
  LET same == {f \in Frame : vaddr[f] = Address(current, page)}
  IN CHOOSE f \in same : \A g \in same : f <= g

Refill(page) ==
  /\ page_table[current][page] # NULL
  /\ links' \in {links} \cup   \* another address of the page, or that one
       IF Revisits THEN {Relinked(links, Refreshed(page))} ELSE {}
  /\ Tlbwr(tlb, page, page_table[current][page])
  /\ UNCHANGED <<is_used, pinned, pid, vaddr, page_table, mem>>

HandleTlb(page) ==
  /\ current # 0 /\ Hits(page) = {}
  /\ PageFault(page) \/ Refill(page)
  /\ asid' = current
  /\ UNCHANGED <<procn, current, last>>

-----------------------------------------------------------------------------
(* The processes' accesses, through the TLB. *)

Access(page, op, v) ==
  /\ last' = [by |-> current, op |-> op, value |-> v]
  /\ UNCHANGED <<page_map, page_table, tlb, procn, current, asid>>

Fetch ==
  \E e \in Hits("code") : Access("code", "fetch", mem[e.frame]) /\ UNCHANGED mem
Load ==
  \E e \in Hits("stack") : Access("stack", "load", mem[e.frame]) /\ UNCHANGED mem
Store(v) ==
  \E e \in Hits("stack") :
    Access("stack", "store", v) /\ mem' = [mem EXCEPT ![e.frame] = v]

-----------------------------------------------------------------------------
\* init_memory().
Init ==
  /\ is_used = [f \in Frame |-> FALSE] /\ pinned = [f \in Frame |-> FALSE]
  /\ pid = [f \in Frame |-> 0] /\ vaddr = [f \in Frame |-> 0]
  /\ LET node == [n \in Frame \cup {page_queue} |->
                    IF n = page_queue THEN page_queue ELSE NULL]
     IN links = [prev |-> node, next |-> node]
  /\ page_table = [p \in Proc |-> [page \in Page |-> NULL]]
  /\ tlb = {} /\ mem = [f \in Frame |-> 0]
  /\ procn = 0 /\ current = 0 /\ asid = 0
  /\ last = [by |-> 0, op |-> "none", value |-> 0]

Next ==
  \/ SetupPageTable
  \/ \E p \in Proc \cup {0} : Schedule(p)
  \/ \E page \in Page : HandleTlb(page)
  \/ Fetch \/ Load \/ \E v \in Value : Store(v)

Spec == Init /\ [][Next]_vars

-----------------------------------------------------------------------------
(* Properties. *)

Mapped(p, page) == page_table[p][page] # NULL

\* A frame is never the page of two; page_queue is a ring of the frames that may be
\* taken, each once, and what may not be taken is not in it; and page_alloc() never
\* finds it empty when it needs a victim (memory.c:66-94).
FramesOwned ==
  /\ \A p, q \in Proc : \A a, b \in Page :
       Mapped(p, a) /\ page_table[p][a] = page_table[q][b] => p = q /\ a = b
  /\ IsRing(links, page_queue)
  /\ {f \in Frame : Linked(links, page_queue, f)} = {page_table[p]["code"] : p \in Proc} \ {NULL}
  /\ CanAlloc

\* The TLB never translates to a frame that the page tables gave to another, also
\* when the frame was taken from a process that did not run (memory.c:79-81).
TlbAgrees == \A e \in tlb : page_table[e.asid][e.page] = e.frame

\* A frame that is pinned is never given away (memory.c:123).
PinnedStay ==
  [][ \A f \in Frame : pinned[f] =>
        pinned'[f] /\ pid'[f] = pid[f] /\ vaddr'[f] = vaddr[f] ]_vars

\* A process reads its own program and what it last stored in its own stack.
Private == INSTANCE PrivateMemory WITH
  stack <- [p \in Proc |-> IF Mapped(p, "stack") THEN mem[page_table[p]["stack"]] ELSE 0]
ImplementsPrivateMemory == Private!Spec
=============================================================================
