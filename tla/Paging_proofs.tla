--------------------------- MODULE Paging_proofs ---------------------------
(***************************************************************************)
(* Theorems about the paging of project5_start_code, for every number of   *)
(* processes and of frames, while no page misses again at the address at   *)
(* which it came in: with that, the PagingPinned run shows a pinned frame  *)
(* given away.                                                             *)
(*                                                                         *)
(* Owned says what every frame is used for.  That page_queue holds the     *)
(* code pages (QueueOf) makes a victim a code page; that no other frames   *)
(* are used but a table and a stack of each process makes sure that there  *)
(* is a victim.                                                            *)
(***************************************************************************)
EXTENDS Paging, QueueLemmas

Node == Frame \cup {page_queue}

\* page_queue is a list, in some order, of the frames S.
Only(S) == [h \in {page_queue} |-> S]
QueueOf(L, S) == Behind(L, Node, {page_queue}, Frame, Only(S))

CodeFrames == {f \in Frame : \E p \in Proc : page_table[p]["code"] = f}

-----------------------------------------------------------------------------
(* page_queue. *)

LEMMA FramesFinite ==
  /\ IsFiniteSet(Frame) /\ Cardinality(Frame) = PAGEABLE_PAGES /\ IsFiniteSet(Node)
  /\ page_queue \notin Frame /\ NULL \notin Frame
<1>1. 1 \in Int /\ PAGEABLE_PAGES \in Int /\ PAGEABLE_PAGES >= 1
  BY PagingAssumption
<1>2. IsFiniteSet(Frame)
  BY <1>1, FS_Interval DEF Frame
<1>3. Cardinality(Frame) = PAGEABLE_PAGES
  <2>1. Cardinality(1 .. PAGEABLE_PAGES) =
          IF 1 > PAGEABLE_PAGES THEN 0 ELSE PAGEABLE_PAGES - 1 + 1
    BY <1>1, FS_Interval
  <2> QED
    BY <2>1, <1>1 DEF Frame
<1>4. IsFiniteSet(Frame \cup {page_queue})
  BY <1>2, FS_AddElement
<1>5. page_queue \notin Frame /\ NULL \notin Frame
  BY <1>1, PagingAssumption DEF Frame, page_queue
<1> QED
  BY <1>2, <1>3, <1>4, <1>5 DEF Node

LEMMA QueueEmptyIs ==
  ASSUME NEW L, NEW S \in SUBSET Frame, QueueOf(L, S)
  PROVE  /\ is_empty(L, page_queue) <=> S = {}
         /\ S # {} => peek(L, page_queue) \in S
<1>1. page_queue \in {page_queue} /\ Only(S)[page_queue] = S
  BY DEF Only
<1> QED
  BY <1>1, BehindPeek DEF QueueOf

\* enqueue() of a frame that is not in it.
LEMMA QueueEnqueue ==
  ASSUME NEW L, NEW S \in SUBSET Frame, QueueOf(L, S), NEW f \in Frame, f \notin S
  PROVE  QueueOf(enqueue(L, page_queue, f), S \cup {f})
<1>1. page_queue \in {page_queue} /\ \A h \in {page_queue} : f \notin Only(S)[h]
  BY DEF Only
<1>2. [Only(S) EXCEPT ![page_queue] = @ \cup {f}] = Only(S \cup {f})
  BY DEF Only
<1>3. Behind(enqueue(L, page_queue, f), Node, {page_queue}, Frame,
             [Only(S) EXCEPT ![page_queue] = @ \cup {f}])
  BY <1>1, BehindEnqueue DEF QueueOf
<1> QED
  BY <1>2, <1>3 DEF QueueOf

\* dequeue() of one that is not empty.
LEMMA QueueDequeue ==
  ASSUME NEW L, NEW S \in SUBSET Frame, QueueOf(L, S), S # {}
  PROVE  QueueOf(dequeue(L, page_queue), S \ {peek(L, page_queue)})
<1>1. PICK f : f = peek(L, page_queue)
  OBVIOUS
<1>2. page_queue \in {page_queue} /\ f \in Only(S)[page_queue]
  BY <1>1, QueueEmptyIs DEF Only
<1>3. [Only(S) EXCEPT ![page_queue] = @ \ {f}] = Only(S \ {f})
  BY DEF Only
<1>4. Behind(Unlink(L, f), Node, {page_queue}, Frame, [Only(S) EXCEPT ![page_queue] = @ \ {f}])
  BY <1>2, BehindUnlink DEF QueueOf
<1> QED
  BY <1>1, <1>3, <1>4 DEF QueueOf, dequeue

LEMMA QueueRing ==
  ASSUME NEW L, NEW S \in SUBSET Frame, QueueOf(L, S)
  PROVE  IsRing(L, page_queue) /\ {f \in Frame : Linked(L, page_queue, f)} = S
<1>1. page_queue \in {page_queue} /\ Only(S)[page_queue] = S
  BY DEF Only
<1>2. IsRing(L, page_queue) /\ \A f \in Frame : Linked(L, page_queue, f) <=> f \in S
  BY <1>1, FramesFinite, BehindRing DEF QueueOf
<1> QED
  BY <1>2

-----------------------------------------------------------------------------
(* The inductive invariant. *)

TypeOK ==
  /\ is_used \in [Frame -> BOOLEAN] /\ pinned \in [Frame -> BOOLEAN]
  /\ pid \in [Frame -> Int] /\ vaddr \in [Frame -> Int]
  /\ page_table \in [Proc -> [Page -> Frame \cup {NULL}]]
  /\ tlb \subseteq [asid : Proc, page : Page, frame : Frame]
  /\ mem \in [Frame -> Int]
  /\ procn \in 0 .. NumProcesses /\ current \in Proc \cup {0}

\* The TLB translates for the process that runs, and none runs before all are set up.
Running ==
  /\ asid = current
  /\ procn < NumProcesses =>
       current = 0 /\ \A p \in Proc, page \in Page : page_table[p][page] = NULL

\* A page's frame is that page's only, and says so.
Owned ==
  /\ \A p, q \in Proc : \A a, b \in Page :
       Mapped(p, a) /\ page_table[p][a] = page_table[q][b] => p = q /\ a = b
  /\ \A p \in Proc, page \in Page : Mapped(p, page) =>
       /\ is_used[page_table[p][page]] /\ pid[page_table[p][page]] = p
       /\ pinned[page_table[p][page]] <=> page = "stack"
  /\ \A f \in Frame : pinned[f] => is_used[f]
  /\ \A f \in Frame : is_used[f] => pinned[f] \/ f \in CodeFrames

\* The frames that are pinned hold the stacks, and the table of each process.
FewPinned ==
  \E tables \in SUBSET Frame :
    /\ Cardinality(tables) <= procn
    /\ \A f \in Frame : pinned[f] =>
         f \in tables \/ \E p \in Proc : page_table[p]["stack"] = f

\* Code is never written.
CodeIntact ==
  \A p \in Proc : Mapped(p, "code") => mem[page_table[p]["code"]] = Image(p)

IInv ==
  /\ TypeOK /\ Running /\ Owned /\ FewPinned
  /\ QueueOf(links, CodeFrames) /\ TlbAgrees /\ CodeIntact

LEMMA MappedIs ==
  ASSUME TypeOK, NEW p \in Proc, NEW page \in Page
  PROVE  Mapped(p, page) <=> page_table[p][page] \in Frame
BY FramesFinite DEF TypeOK, Mapped

\* There are more frames than are ever pinned: one is free, or holds code.
LEMMA FramesSuffice ==
  ASSUME IInv
  PROVE  CanAlloc
<1>1. SUFFICES ASSUME FreeFrames = {}, CodeFrames = {}
               PROVE  FALSE
  BY QueueEmptyIs DEF IInv, CanAlloc, CodeFrames
<1>2. PICK tables \in SUBSET Frame :
        /\ Cardinality(tables) <= procn
        /\ \A f \in Frame : pinned[f] =>
             f \in tables \/ \E p \in Proc : page_table[p]["stack"] = f
  BY DEF IInv, FewPinned
<1>3. PICK stacks : stacks = {page_table[p]["stack"] : p \in Proc}
  OBVIOUS
<1>4. \A f \in Frame : f \in tables \cup stacks
  BY <1>1, <1>2, <1>3 DEF IInv, TypeOK, Owned, FreeFrames
<1>5. NumProcesses \in Nat /\ 1 \in Int /\ NumProcesses \in Int /\ ~(1 > NumProcesses)
  BY PagingAssumption
<1>6. IsFiniteSet(Proc)
  BY <1>5, FS_Interval DEF Proc
<1>7. Cardinality(Proc) = NumProcesses
  <2>1. Cardinality(1 .. NumProcesses) = IF 1 > NumProcesses THEN 0 ELSE NumProcesses - 1 + 1
    BY <1>5, FS_Interval
  <2> QED
    BY <2>1, <1>5 DEF Proc
<1>8. IsFiniteSet(stacks) /\ Cardinality(stacks) <= NumProcesses
  <2>1. PICK f : f = [p \in Proc |-> page_table[p]["stack"]]
    OBVIOUS
  <2>2. f \in Surjection(Proc, stacks)
    BY <2>1, <1>3 DEF Surjection
  <2> QED
    BY <2>2, <1>6, <1>7, FS_Surjection
<1>9. IsFiniteSet(tables)
  BY FramesFinite, FS_Subset
<1>10. /\ IsFiniteSet(tables \cup stacks)
       /\ Cardinality(tables \cup stacks) =
            Cardinality(tables) + Cardinality(stacks) - Cardinality(tables \cap stacks)
  BY <1>8, <1>9, FS_Union
<1>11. IsFiniteSet(tables \cap stacks)
  BY <1>9, FS_Intersection
<1>12. /\ Cardinality(tables \cap stacks) \in Nat /\ Cardinality(tables) \in Nat
       /\ Cardinality(stacks) \in Nat
  BY <1>8, <1>9, <1>11, FS_CardinalityType
<1>13. Cardinality(Frame) <= Cardinality(tables \cup stacks)
  <2>1. Frame \subseteq tables \cup stacks
    BY <1>4
  <2> QED
    BY <2>1, <1>10, FS_Subset
<1> QED
  BY <1>2, <1>5, <1>8, <1>10, <1>12, <1>13, FramesFinite, PagingAssumption DEF IInv, TypeOK

\* page_alloc(): the frame was free, or held code that now is nowhere.
LEMMA Allocates ==
  ASSUME IInv, CanAlloc, NEW pin \in BOOLEAN, MarkFrame(pin)
  PROVE  /\ Allocated \in Frame /\ ~pinned[Allocated]
         /\ FreeFrames # {} => Victims = {} /\ ~is_used[Allocated]
                               /\ Allocated \notin CodeFrames
         /\ FreeFrames = {} => Victims = {Allocated} /\ Allocated \in CodeFrames
         /\ QueueOf(links', (CodeFrames \ {Allocated}) \cup IF pin THEN {} ELSE {Allocated})
<1> CodeFrames \in SUBSET Frame
  BY DEF CodeFrames
<1>1. CASE FreeFrames # {}
  <2>1. Victims = {} /\ Allocated \in FreeFrames
    <3>1. PICK f \in FreeFrames : \A g \in FreeFrames : f <= g
      <4>1. FreeFrames \subseteq Nat
        BY PagingAssumption DEF FreeFrames, Frame
      <4>2. \E f \in FreeFrames : \A g \in FreeFrames : f <= g
        BY <4>1, <1>1, LeastNat
      <4> QED
        BY <4>2
    <3> QED
      BY <3>1, <1>1 DEF Victims, Allocated
  <2>2. Allocated \in Frame /\ ~is_used[Allocated] /\ ~pinned[Allocated]
    BY <2>1 DEF FreeFrames, IInv, Owned
  <2>3. Allocated \notin CodeFrames
    BY <2>2, FramesFinite DEF CodeFrames, IInv, Owned, Page, Mapped
  <2>4. links' = Queued(links, pin)
    BY <2>1 DEF MarkFrame, TakenOut
  <2>5. QueueOf(links', (CodeFrames \ {Allocated}) \cup IF pin THEN {} ELSE {Allocated})
    <3>1. CodeFrames \ {Allocated} = CodeFrames
      BY <2>3
    <3>2. QueueOf(links, CodeFrames)
      BY DEF IInv
    <3>3. CASE pin
      BY <3>1, <3>2, <3>3, <2>4 DEF Queued
    <3>4. CASE ~pin
      <4>1. links' = enqueue(links, page_queue, Allocated)
        BY <3>4, <2>4 DEF Queued
      <4> QED
        BY <4>1, <3>1, <3>2, <3>4, <2>2, <2>3, QueueEnqueue
    <3> QED
      BY <3>3, <3>4
  <2> QED
    BY <1>1, <2>1, <2>2, <2>3, <2>5
<1>2. CASE FreeFrames = {}
  <2>1. Victims = {peek(links, page_queue)} /\ Allocated = peek(links, page_queue)
    BY <1>2 DEF Victims, Allocated
  <2>2. QueueOf(links, CodeFrames)
    BY DEF IInv
  <2>3. Allocated \in CodeFrames /\ CodeFrames # {}
    BY <1>2, <2>1, <2>2, QueueEmptyIs DEF CanAlloc
  <2>4. Allocated \in Frame /\ ~pinned[Allocated]
    BY <2>3, FramesFinite DEF CodeFrames, IInv, Owned, Page, Mapped
  <2>5. QueueOf(dequeue(links, page_queue), CodeFrames \ {Allocated})
    BY <2>1, <2>2, <2>3, QueueDequeue
  <2>6. links' = Queued(dequeue(links, page_queue), pin)
    BY <2>1 DEF MarkFrame, TakenOut
  <2>7. QueueOf(links', (CodeFrames \ {Allocated}) \cup IF pin THEN {} ELSE {Allocated})
    <3>3. CASE pin
      BY <3>3, <2>5, <2>6 DEF Queued
    <3>4. CASE ~pin
      <4>1. links' = enqueue(dequeue(links, page_queue), page_queue, Allocated)
        BY <3>4, <2>6 DEF Queued
      <4> QED
        BY <4>1, <3>4, <2>4, <2>5, QueueEnqueue
    <3> QED
      BY <3>3, <3>4
  <2> QED
    BY <1>2, <2>1, <2>3, <2>4, <2>7
<1> QED
  BY <1>1, <1>2

-----------------------------------------------------------------------------
(* It is kept. *)

LEMMA InitIInv ==
  ASSUME Init
  PROVE  IInv
<1>1. \A p \in Proc, page \in Page : ~Mapped(p, page)
  BY DEF Init, Mapped
<1>2. CodeFrames = {}
  BY <1>1, FramesFinite DEF CodeFrames, Mapped, Page
<1>3. TypeOK
  BY PagingAssumption DEF Init, TypeOK, Proc
<1>4. Running /\ Owned /\ TlbAgrees /\ CodeIntact
  BY <1>1 DEF Init, Running, Owned, TlbAgrees, CodeIntact, Mapped, Page
<1>5. FewPinned
  <2>1. {} \in SUBSET Frame /\ Cardinality({}) <= procn
    BY FS_EmptySet DEF Init
  <2> QED
    BY <2>1 DEF Init, FewPinned
<1>6. QueueOf(links, CodeFrames)
  <2>1. PICK qs : qs = [h \in {page_queue} |-> <<>>]
    OBVIOUS
  <2>2. page_queue \notin Frame
    BY FramesFinite
  <2>3. Chain(links, <<>>, page_queue)
    BY DEF Init, Chain, Nd
  <2>4. Lists(links, Node, {page_queue}, Frame, qs)
    BY <2>1, <2>2, <2>3 DEF Init, Lists, OncePlaced, Node
  <2>5. AreIn(Only(CodeFrames), {page_queue}, Frame, qs)
    BY <2>1, <1>2 DEF AreIn, Only
  <2> QED
    BY <2>4, <2>5, <1>2 DEF QueueOf, Behind, Only
<1> QED
  BY <1>3, <1>4, <1>5, <1>6 DEF IInv

LEMMA Setup ==
  ASSUME IInv, SetupPageTable
  PROVE  IInv' /\ ~pinned[Allocated]
<1> USE DEF SetupPageTable
<1>1. procn < NumProcesses /\ CanAlloc /\ MarkFrame(TRUE) /\ procn' = procn + 1
  OBVIOUS
<1>2. \A p \in Proc, page \in Page : page_table[p][page] = NULL
  BY DEF IInv, Running
<1>3. CodeFrames = {}
  BY <1>2, FramesFinite DEF CodeFrames, Page
<1>4. Allocated \in Frame /\ ~pinned[Allocated] /\ QueueOf(links', {})
  BY <1>1, <1>3, Allocates
<1>5. CodeFrames' = {}
  BY <1>3 DEF CodeFrames
<1>6. TypeOK'
  BY <1>1, <1>4, PagingAssumption DEF IInv, TypeOK, MarkFrame
<1>7. Running'
  BY PagingAssumption DEF IInv, Running, TypeOK
<1>8. Owned'
  BY <1>1, <1>2, <1>3, <1>4, <1>5 DEF IInv, TypeOK, Owned, Mapped, MarkFrame
<1>9. FewPinned'
  <2>1. PICK tables \in SUBSET Frame :
          /\ Cardinality(tables) <= procn
          /\ \A f \in Frame : pinned[f] =>
               f \in tables \/ \E p \in Proc : page_table[p]["stack"] = f
    BY DEF IInv, FewPinned
  <2>2. IsFiniteSet(tables) /\ Cardinality(tables) \in Nat
    BY FramesFinite, FS_Subset, FS_CardinalityType
  <2>3. Cardinality(tables \cup {Allocated}) <= procn'
    <3>1. Cardinality(tables \cup {Allocated}) =
            IF Allocated \in tables THEN Cardinality(tables) ELSE Cardinality(tables) + 1
      BY <2>2, FS_AddElement
    <3> QED
      BY <3>1, <2>1, <2>2 DEF IInv, TypeOK
  <2>4. \A f \in Frame : pinned'[f] =>
          f \in tables \cup {Allocated} \/ \E p \in Proc : page_table'[p]["stack"] = f
    BY <2>1, <1>1, <1>4 DEF IInv, TypeOK, MarkFrame
  <2>5. tables \cup {Allocated} \in SUBSET Frame
    BY <1>4
  <2> QED
    BY <2>3, <2>4, <2>5 DEF FewPinned
<1>10. TlbAgrees' /\ CodeIntact'
  BY DEF IInv, TlbAgrees, CodeIntact, Mapped
<1> QED
  BY <1>4, <1>5, <1>6, <1>7, <1>8, <1>9, <1>10 DEF IInv

LEMMA Schedules ==
  ASSUME IInv, NEW p \in Proc \cup {0}, Schedule(p)
  PROVE  IInv'
<1> USE DEF Schedule, page_map
<1>1. TypeOK'
  BY DEF IInv, TypeOK
<1>2. Running'
  BY PagingAssumption DEF IInv, Running, TypeOK, NewAsid
<1>3. Owned' /\ FewPinned' /\ TlbAgrees' /\ CodeIntact'
  BY DEF IInv, Owned, CodeFrames, FewPinned, TlbAgrees, CodeIntact, Mapped
<1>4. QueueOf(links, CodeFrames)'
  BY DEF IInv, CodeFrames
<1> QED
  BY <1>1, <1>2, <1>3, <1>4 DEF IInv

\* What a page fault leaves of the page tables: the frame is the page's, and if it
\* was another's then it no longer is.
FrameTaken(page) ==
  \A p \in Proc, a \in Page :
    page_table'[p][a] = IF p = current /\ a = page THEN Allocated
                        ELSE IF page_table[p][a] = Allocated THEN NULL
                        ELSE page_table[p][a]

LEMMA Faults ==
  ASSUME IInv, NEW page \in Page, current \in Proc, PageFault(page)
  PROVE  /\ page_table' \in [Proc -> [Page -> Frame \cup {NULL}]] /\ FrameTaken(page)
         /\ Allocated \in Frame /\ ~pinned[Allocated]
         /\ \A f \in Frame : f # Allocated =>
              /\ is_used'[f] = is_used[f] /\ pinned'[f] = pinned[f] /\ pid'[f] = pid[f]
              /\ mem'[f] = mem[f]
         /\ is_used'[Allocated] /\ pid'[Allocated] = current
         /\ (pinned'[Allocated] <=> page = "stack")
         /\ mem'[Allocated] = IF page = "code" THEN Image(current) ELSE 0
         /\ QueueOf(links', CodeFrames')
         /\ \A e \in FlushVictim(tlb) : e \in tlb /\ e.frame # Allocated
<1> USE DEF PageFault
<1>1. PICK pin \in BOOLEAN : pin = (page = "stack")
  OBVIOUS
<1>2. MarkFrame(pin) /\ CanAlloc
  BY <1>1
<1>3. /\ Allocated \in Frame /\ ~pinned[Allocated]
      /\ FreeFrames # {} => Victims = {} /\ ~is_used[Allocated]
                            /\ Allocated \notin CodeFrames
      /\ FreeFrames = {} => Victims = {Allocated} /\ Allocated \in CodeFrames
      /\ QueueOf(links', (CodeFrames \ {Allocated}) \cup IF pin THEN {} ELSE {Allocated})
  BY <1>2, Allocates
<1>4. /\ \A f \in Frame : f # Allocated =>
           /\ is_used'[f] = is_used[f] /\ pinned'[f] = pinned[f] /\ pid'[f] = pid[f]
           /\ mem'[f] = mem[f]
      /\ is_used'[Allocated] /\ pid'[Allocated] = current
      /\ (pinned'[Allocated] <=> page = "stack")
      /\ mem'[Allocated] = IF page = "code" THEN Image(current) ELSE 0
  BY <1>1, <1>2, <1>3 DEF MarkFrame, IInv, TypeOK
<1>5. \A p \in Proc : page_table[p]["stack"] # Allocated
  BY <1>3, FramesFinite DEF IInv, Owned, Mapped, Page
<1>6. \A p \in Proc : (\E f \in Victims : pid[f] = p) <=> page_table[p]["code"] = Allocated
  <2> SUFFICES ASSUME NEW p \in Proc
               PROVE  (\E f \in Victims : pid[f] = p) <=> page_table[p]["code"] = Allocated
    OBVIOUS
  <2>1. page_table[p]["code"] = Allocated => pid[Allocated] = p /\ Allocated \in CodeFrames
    BY <1>3, FramesFinite DEF IInv, Owned, Mapped, Page, CodeFrames
  <2>2. Allocated \in CodeFrames /\ pid[Allocated] = p => page_table[p]["code"] = Allocated
    BY <1>3, FramesFinite DEF IInv, Owned, Mapped, Page, CodeFrames
  <2> QED
    BY <2>1, <2>2, <1>3
<1>7. /\ Swapped(page_table) \in [Proc -> [Page -> Frame \cup {NULL}]]
      /\ \A p \in Proc, a \in Page :
           Swapped(page_table)[p][a] = IF page_table[p][a] = Allocated THEN NULL
                                       ELSE page_table[p][a]
  BY <1>5, <1>6 DEF Swapped, IInv, TypeOK, Page
<1>8. page_table' \in [Proc -> [Page -> Frame \cup {NULL}]] /\ FrameTaken(page)
  BY <1>3, <1>7 DEF FrameTaken
<1>9. CodeFrames' = (CodeFrames \ {Allocated}) \cup IF pin THEN {} ELSE {Allocated}
  <2>1. page_table[current][page] = NULL
    OBVIOUS
  <2>2. \A f \in Frame : f \in CodeFrames' <=>
          \/ f \in CodeFrames /\ f # Allocated
          \/ page = "code" /\ f = Allocated
    BY <2>1, <1>3, <1>8, FramesFinite DEF FrameTaken, CodeFrames, Page
  <2> QED
    BY <2>2, <1>1, <1>3 DEF CodeFrames, Page
<1>10. \A e \in FlushVictim(tlb) : e \in tlb /\ e.frame # Allocated
  <2> SUFFICES ASSUME NEW e \in FlushVictim(tlb), e.frame = Allocated
               PROVE  FALSE
    BY DEF FlushVictim
  <2>1. e \in tlb /\ ~(e.page = "code" /\ \E f \in Victims : pid[f] = e.asid)
    BY DEF FlushVictim
  <2>2. e.asid \in Proc /\ e.page \in Page /\ page_table[e.asid][e.page] = Allocated
    BY <2>1 DEF IInv, TypeOK, TlbAgrees
  <2> QED
    BY <2>1, <2>2, <1>5, <1>6 DEF Page
<1> QED
  BY <1>3, <1>4, <1>8, <1>9, <1>10

\* What the processes see of their stacks.
Stack == [p \in Proc |-> IF Mapped(p, "stack") THEN mem[page_table[p]["stack"]] ELSE 0]

LEMMA FaultKeeps ==
  ASSUME IInv, NEW page \in Page, HandleTlb(page), PageFault(page)
  PROVE  IInv' /\ ~pinned[Allocated] /\ Stack' = Stack
<1>1. current \in Proc /\ asid' = current /\ UNCHANGED <<procn, current>>
  BY DEF HandleTlb, IInv, TypeOK
<1>2. /\ page_table' \in [Proc -> [Page -> Frame \cup {NULL}]] /\ FrameTaken(page)
      /\ Allocated \in Frame /\ ~pinned[Allocated]
      /\ \A f \in Frame : f # Allocated =>
           /\ is_used'[f] = is_used[f] /\ pinned'[f] = pinned[f] /\ pid'[f] = pid[f]
           /\ mem'[f] = mem[f]
      /\ is_used'[Allocated] /\ pid'[Allocated] = current
      /\ (pinned'[Allocated] <=> page = "stack")
      /\ mem'[Allocated] = IF page = "code" THEN Image(current) ELSE 0
      /\ QueueOf(links', CodeFrames')
      /\ \A e \in FlushVictim(tlb) : e \in tlb /\ e.frame # Allocated
  BY <1>1, Faults
<1>3. page_table[current][page] = NULL
  BY DEF PageFault
<1>4. \A e \in tlb' : e \in FlushVictim(tlb) \/ e = [asid |-> current, page |-> page, frame |-> Allocated]
  BY DEF PageFault, Tlbwr
<1>5. TypeOK'
  <2>1. /\ is_used' \in [Frame -> BOOLEAN] /\ pinned' \in [Frame -> BOOLEAN]
        /\ pid' \in [Frame -> Int] /\ vaddr' \in [Frame -> Int] /\ mem' \in [Frame -> Int]
    <3>1. Address(current, page) \in Int /\ Image(current) \in Int /\ current \in Int
      BY <1>1, PagingAssumption DEF Address, Image, Proc
    <3>2. is_used' \in [Frame -> BOOLEAN] /\ pinned' \in [Frame -> BOOLEAN]
      BY DEF IInv, TypeOK, PageFault, MarkFrame
    <3>3. pid' \in [Frame -> Int] /\ vaddr' \in [Frame -> Int]
      BY <3>1 DEF IInv, TypeOK, PageFault
    <3>4. mem' \in [Frame -> Int]
      <4>1. PICK v \in Int : v = IF page = "code" THEN Image(current) ELSE 0
        BY <3>1
      <4>2. mem' = [mem EXCEPT ![Allocated] = v]
        BY <4>1 DEF PageFault
      <4> QED
        BY <4>2 DEF IInv, TypeOK
    <3> QED
      BY <3>2, <3>3, <3>4
  <2>2. tlb' \subseteq [asid : Proc, page : Page, frame : Frame]
    BY <1>1, <1>2, <1>4 DEF IInv, TypeOK
  <2> QED
    BY <2>1, <2>2, <1>1, <1>2 DEF IInv, TypeOK
<1>6. Running'
  <2>1. procn = NumProcesses
    BY <1>1, PagingAssumption DEF IInv, Running, TypeOK, Proc
  <2> QED
    BY <2>1, <1>1, PagingAssumption DEF Running
<1>7. \A p \in Proc, a \in Page : Mapped(p, a)' <=> page_table'[p][a] \in Frame
  BY <1>2, FramesFinite DEF Mapped
<1>8. \A p \in Proc, a \in Page : Mapped(p, a) <=> page_table[p][a] \in Frame
  BY MappedIs DEF IInv
<1>9. Owned'
  <2>1. \A p, q \in Proc : \A a, b \in Page :
          Mapped(p, a)' /\ page_table'[p][a] = page_table'[q][b] => p = q /\ a = b
    BY <1>2, <1>7, <1>8, FramesFinite DEF FrameTaken, IInv, Owned
  <2>2. \A p \in Proc, a \in Page : Mapped(p, a)' =>
          /\ is_used'[page_table'[p][a]] /\ pid'[page_table'[p][a]] = p
          /\ pinned'[page_table'[p][a]] <=> a = "stack"
    <3> SUFFICES ASSUME NEW p \in Proc, NEW a \in Page, Mapped(p, a)'
                 PROVE  /\ is_used'[page_table'[p][a]] /\ pid'[page_table'[p][a]] = p
                        /\ pinned'[page_table'[p][a]] <=> a = "stack"
      OBVIOUS
    <3>1. CASE p = current /\ a = page
      BY <3>1, <1>2 DEF FrameTaken
    <3>2. CASE ~(p = current /\ a = page)
      <4>1. page_table'[p][a] = page_table[p][a] /\ page_table[p][a] # Allocated
        BY <3>2, <1>2, <1>7, FramesFinite DEF FrameTaken
      <4>2. page_table[p][a] \in Frame /\ Mapped(p, a)
        BY <4>1, <1>7, <1>8
      <4> QED
        BY <4>1, <4>2, <1>2 DEF IInv, Owned
    <3> QED
      BY <3>1, <3>2
  <2>3. \A f \in Frame : pinned'[f] => is_used'[f]
    BY <1>2 DEF IInv, Owned
  <2>4. \A f \in Frame : is_used'[f] => pinned'[f] \/ f \in CodeFrames'
    <3> SUFFICES ASSUME NEW f \in Frame, is_used'[f], ~pinned'[f]
                 PROVE  f \in CodeFrames'
      OBVIOUS
    <3>1. CASE f = Allocated
      BY <3>1, <1>1, <1>2 DEF FrameTaken, CodeFrames, Page
    <3>2. CASE f # Allocated
      <4>1. PICK p \in Proc : page_table[p]["code"] = f
        BY <3>2, <1>2 DEF IInv, Owned, CodeFrames
      <4>2. page_table'[p]["code"] = f
        BY <4>1, <3>2, <1>2, <1>3, FramesFinite DEF FrameTaken, Page
      <4> QED
        BY <4>2 DEF CodeFrames
    <3> QED
      BY <3>1, <3>2
  <2> QED
    BY <2>1, <2>2, <2>3, <2>4 DEF Owned
<1>10. FewPinned'
  <2>1. PICK tables \in SUBSET Frame :
          /\ Cardinality(tables) <= procn
          /\ \A f \in Frame : pinned[f] =>
               f \in tables \/ \E p \in Proc : page_table[p]["stack"] = f
    BY DEF IInv, FewPinned
  <2>2. ASSUME NEW f \in Frame, pinned'[f]
        PROVE  f \in tables \/ \E p \in Proc : page_table'[p]["stack"] = f
    <3>1. CASE f = Allocated
      BY <3>1, <2>2, <1>1, <1>2 DEF FrameTaken, Page
    <3>2. CASE f # Allocated
      BY <3>2, <2>1, <2>2, <1>2, <1>3, FramesFinite DEF FrameTaken, Page
    <3> QED
      BY <3>1, <3>2
  <2> QED
    BY <2>1, <2>2, <1>1 DEF FewPinned
<1>11. TlbAgrees'
  <2> SUFFICES ASSUME NEW e \in tlb'
               PROVE  page_table'[e.asid][e.page] = e.frame
    BY DEF TlbAgrees
  <2>1. CASE e \in FlushVictim(tlb)
    <3>1. /\ e \in tlb /\ e.frame # Allocated /\ e.frame \in Frame
          /\ e.asid \in Proc /\ e.page \in Page /\ page_table[e.asid][e.page] = e.frame
      BY <2>1, <1>2 DEF IInv, TypeOK, TlbAgrees
    <3> QED
      BY <3>1, <1>2, <1>3, FramesFinite DEF FrameTaken
  <2>2. CASE e = [asid |-> current, page |-> page, frame |-> Allocated]
    BY <2>2, <1>1, <1>2 DEF FrameTaken
  <2> QED
    BY <2>1, <2>2, <1>4
<1>12. CodeIntact'
  BY <1>2, <1>7, <1>8, FramesFinite DEF FrameTaken, IInv, CodeIntact, Page, Image
<1>13. Stack' = Stack
  <2>1. \A p \in Proc : page_table[p]["stack"] # Allocated
    BY <1>2, <1>8 DEF IInv, Owned, Page
  <2>2. ASSUME NEW p \in Proc
        PROVE  (IF Mapped(p, "stack") THEN mem[page_table[p]["stack"]] ELSE 0)' =
                 IF Mapped(p, "stack") THEN mem[page_table[p]["stack"]] ELSE 0
    BY <2>1, <1>2, <1>3, <1>7, <1>8, FramesFinite DEF FrameTaken, Page
  <2> QED
    BY <2>2 DEF Stack
<1> QED
  BY <1>2, <1>5, <1>6, <1>9, <1>10, <1>11, <1>12, <1>13 DEF IInv

LEMMA RefillKeeps ==
  ASSUME Revisits = FALSE, IInv, NEW page \in Page, HandleTlb(page), Refill(page)
  PROVE  IInv' /\ UNCHANGED <<page_map, mem, page_table>>
<1>1. current \in Proc /\ asid' = current /\ UNCHANGED <<procn, current>>
  BY DEF HandleTlb, IInv, TypeOK
<1>2. UNCHANGED <<page_map, mem, page_table>>
  BY DEF Refill, page_map
<1>3. page_table[current][page] \in Frame
  BY <1>1 DEF Refill, IInv, TypeOK
<1>4. \A e \in tlb' :
        \/ e \in tlb
        \/ e = [asid |-> current, page |-> page, frame |-> page_table[current][page]]
  BY DEF Refill, Tlbwr
<1> USE DEF page_map
<1>5. TypeOK'
  <2>1. tlb' \subseteq [asid : Proc, page : Page, frame : Frame]
    BY <1>1, <1>3, <1>4 DEF IInv, TypeOK
  <2> QED
    BY <2>1, <1>1, <1>2 DEF IInv, TypeOK
<1>6. Running'
  BY <1>1, <1>2 DEF IInv, Running
<1>7. Owned' /\ FewPinned' /\ CodeIntact'
  BY <1>1, <1>2 DEF IInv, Owned, CodeFrames, FewPinned, CodeIntact, Mapped
<1>8. QueueOf(links, CodeFrames)'
  BY <1>2 DEF IInv, CodeFrames
<1>9. TlbAgrees'
  BY <1>2, <1>4 DEF IInv, TlbAgrees
<1> QED
  BY <1>2, <1>5, <1>6, <1>7, <1>8, <1>9 DEF IInv

\* An access reaches the frame of the page of the process that runs.
LEMMA HitsAre ==
  ASSUME IInv, NEW page \in Page, NEW e \in Hits(page)
  PROVE  /\ current \in Proc /\ e.frame = page_table[current][page]
         /\ e.frame \in Frame /\ Mapped(current, page)
<1>1. e \in tlb /\ e.asid = current /\ e.page = page
  BY DEF Hits, IInv, Running
<1>2. e.asid \in Proc /\ e.frame \in Frame /\ page_table[e.asid][e.page] = e.frame
  BY <1>1 DEF IInv, TypeOK, TlbAgrees
<1> QED
  BY <1>1, <1>2, MappedIs DEF IInv

\* What an access does to the stacks and gives.
Accesses ==
  \/ \E p \in Proc :
       /\ last' \in {[by |-> p, op |-> "fetch", value |-> Image(p)],
                     [by |-> p, op |-> "load", value |-> Stack[p]]}
       /\ Stack' = Stack
  \/ \E p \in Proc, v \in Value :
       /\ last' = [by |-> p, op |-> "store", value |-> v]
       /\ Stack' = [Stack EXCEPT ![p] = v]

LEMMA AccessKeeps ==
  ASSUME IInv, Fetch \/ Load \/ \E v \in Value : Store(v)
  PROVE  IInv' /\ Accesses /\ UNCHANGED page_map
<1>1. ASSUME UNCHANGED <<page_map, page_table, tlb, procn, current, asid>>, TypeOK', CodeIntact'
      PROVE  IInv'
  <2>1. UNCHANGED <<is_used, pinned, pid, vaddr, links>>
    BY <1>1 DEF page_map
  <2>2. Running' /\ Owned' /\ FewPinned' /\ TlbAgrees'
    BY <1>1, <2>1 DEF IInv, Running, Owned, CodeFrames, FewPinned, TlbAgrees, Mapped
  <2>3. QueueOf(links, CodeFrames)'
    BY <1>1, <2>1 DEF IInv, CodeFrames
  <2> QED
    BY <1>1, <2>2, <2>3 DEF IInv
<1>2. CASE Fetch \/ Load
  <2>1. /\ UNCHANGED <<page_map, page_table, tlb, procn, current, asid, mem>>
        /\ \/ \E e \in Hits("code") :
                last' = [by |-> current, op |-> "fetch", value |-> mem[e.frame]]
           \/ \E e \in Hits("stack") :
                last' = [by |-> current, op |-> "load", value |-> mem[e.frame]]
    BY <1>2 DEF Fetch, Load, Access
  <2>2. TypeOK' /\ CodeIntact' /\ Stack' = Stack
    BY <2>1 DEF IInv, TypeOK, CodeIntact, Stack, Mapped, page_map
  <2>3. IInv'
    BY <1>1, <2>1, <2>2
  <2>4. ASSUME NEW e \in Hits("code")
        PROVE  current \in Proc /\ mem[e.frame] = Image(current)
    BY HitsAre DEF IInv, CodeIntact, Page
  <2>5. ASSUME NEW e \in Hits("stack")
        PROVE  current \in Proc /\ mem[e.frame] = Stack[current]
    BY HitsAre DEF Stack, Page
  <2>6. Accesses
    <3>1. CASE \E e \in Hits("code") :
                 last' = [by |-> current, op |-> "fetch", value |-> mem[e.frame]]
      BY <3>1, <2>2, <2>4 DEF Accesses
    <3>2. CASE \E e \in Hits("stack") :
                 last' = [by |-> current, op |-> "load", value |-> mem[e.frame]]
      BY <3>2, <2>2, <2>5 DEF Accesses
    <3> QED
      BY <2>1, <3>1, <3>2
  <2> QED
    BY <2>1, <2>3, <2>6
<1>3. ASSUME NEW v \in Value, Store(v)
      PROVE  IInv' /\ Accesses /\ UNCHANGED page_map
  <2>1. PICK e \in Hits("stack") :
          /\ last' = [by |-> current, op |-> "store", value |-> v]
          /\ UNCHANGED <<page_map, page_table, tlb, procn, current, asid>>
          /\ mem' = [mem EXCEPT ![e.frame] = v]
    BY <1>3 DEF Store, Access
  <2>2. /\ current \in Proc /\ e.frame = page_table[current]["stack"]
        /\ e.frame \in Frame /\ Mapped(current, "stack")
    BY HitsAre DEF Page
  <2>3. TypeOK'
    <3>1. v \in Int
      BY PagingAssumption DEF Value
    <3> QED
      BY <3>1, <2>1, <2>2 DEF IInv, TypeOK, page_map
  <2>4. \A p \in Proc, a \in Page :
          Mapped(p, a) /\ page_table[p][a] = e.frame => p = current /\ a = "stack"
    BY <2>2 DEF IInv, Owned, Page
  <2>5. CodeIntact'
    <3> SUFFICES ASSUME NEW p \in Proc, Mapped(p, "code")'
                 PROVE  mem'[page_table'[p]["code"]] = Image(p)
      BY DEF CodeIntact
    <3>1. Mapped(p, "code") /\ page_table[p]["code"] \in Frame
      BY <2>1, MappedIs DEF Mapped, IInv, Page
    <3>2. page_table[p]["code"] # e.frame
      BY <3>1, <2>4 DEF Page
    <3> QED
      BY <3>1, <3>2, <2>1 DEF IInv, TypeOK, CodeIntact
  <2>6. IInv'
    BY <1>1, <2>1, <2>3, <2>5
  <2>7. Stack' = [Stack EXCEPT ![current] = v]
    <3>1. ASSUME NEW p \in Proc
          PROVE  (IF Mapped(p, "stack") THEN mem[page_table[p]["stack"]] ELSE 0)' =
                   IF p = current THEN v
                   ELSE IF Mapped(p, "stack") THEN mem[page_table[p]["stack"]] ELSE 0
      <4>1. Mapped(p, "stack")' = Mapped(p, "stack")
        BY <2>1 DEF Mapped
      <4>2. Mapped(p, "stack") => page_table[p]["stack"] \in Frame
        BY MappedIs DEF IInv, Page
      <4>3. Mapped(p, "stack") /\ page_table[p]["stack"] = e.frame => p = current
        BY <2>4 DEF Page
      <4> QED
        BY <4>1, <4>2, <4>3, <2>1, <2>2 DEF IInv, TypeOK
    <3> QED
      BY <3>1 DEF Stack
  <2>8. Accesses
    BY <2>1, <2>2, <2>7 DEF Accesses
  <2> QED
    BY <2>1, <2>6, <2>8
<1> QED
  BY <1>2, <1>3

-----------------------------------------------------------------------------
(* The theorems. *)

LEMMA Steps ==
  ASSUME Revisits = FALSE, IInv, [Next]_vars
  PROVE  IInv' /\ (Accesses \/ UNCHANGED <<Stack, last>>)
<1>1. CASE SetupPageTable
  <2>1. Stack' = Stack /\ last' = last
    BY <1>1 DEF SetupPageTable, Stack, Mapped
  <2> QED
    BY <1>1, <2>1, Setup
<1>2. ASSUME NEW p \in Proc \cup {0}, Schedule(p)
      PROVE  IInv' /\ Stack' = Stack /\ last' = last
  BY <1>2, Schedules DEF Schedule, page_map, Stack, Mapped
<1>3. ASSUME NEW page \in Page, HandleTlb(page)
      PROVE  IInv' /\ Stack' = Stack /\ last' = last
  <2>1. last' = last
    BY <1>3 DEF HandleTlb
  <2>2. CASE PageFault(page)
    <3>1. IInv' /\ ~pinned[Allocated] /\ Stack' = Stack
      BY <1>3, <2>2, FaultKeeps
    <3> QED
      BY <2>1, <3>1
  <2>3. CASE Refill(page)
    <3>1. IInv' /\ UNCHANGED <<page_map, mem, page_table>>
      BY <1>3, <2>3, RefillKeeps
    <3> QED
      BY <2>1, <3>1 DEF page_map, Stack, Mapped
  <2> QED
    BY <1>3, <2>2, <2>3 DEF HandleTlb
<1>4. CASE Fetch \/ Load \/ \E v \in Value : Store(v)
  BY <1>4, AccessKeeps DEF page_map
<1>5. CASE UNCHANGED vars
  <2>1. UNCHANGED <<is_used, pinned, pid, vaddr, links, page_table, tlb, mem, procn, current,
                    asid, last>>
    BY <1>5 DEF vars, page_map
  <2>2. TypeOK' /\ Running' /\ Owned' /\ FewPinned' /\ TlbAgrees' /\ CodeIntact'
    BY <2>1 DEF IInv, TypeOK, Running, Owned, CodeFrames, FewPinned, TlbAgrees, CodeIntact, Mapped
  <2>3. QueueOf(links, CodeFrames)'
    BY <2>1 DEF IInv, CodeFrames
  <2>4. Stack' = Stack
    BY <2>1 DEF Stack, Mapped
  <2> QED
    BY <2>1, <2>2, <2>3, <2>4 DEF IInv
<1> QED
  BY <1>1, <1>2, <1>3, <1>4, <1>5 DEF Next

LEMMA Invariant ==
  ASSUME Revisits = FALSE
  PROVE  Spec => []IInv
<1>1. IInv /\ [Next]_vars => IInv'
  BY Steps
<1> QED
  BY <1>1, InitIInv, PTL DEF Spec

\* memory.c:66-94 and interrupt.c: no frame is two pages, page_queue is a ring of
\* the code pages and there is always a frame to give.
THEOREM FramesAreOwned ==
  ASSUME Revisits = FALSE
  PROVE  Spec => []FramesOwned
<1>1. ASSUME IInv
      PROVE  FramesOwned
  <2>1. CodeFrames \in SUBSET Frame /\ QueueOf(links, CodeFrames)
    BY <1>1 DEF IInv, CodeFrames
  <2>2. /\ IsRing(links, page_queue)
        /\ {f \in Frame : Linked(links, page_queue, f)} = CodeFrames
    BY <2>1, QueueRing
  <2>3. CodeFrames = {page_table[p]["code"] : p \in Proc} \ {NULL}
    BY <1>1, FramesFinite DEF IInv, TypeOK, CodeFrames, Page
  <2>4. CanAlloc
    BY <1>1, FramesSuffice
  <2> QED
    BY <1>1, <2>2, <2>3, <2>4 DEF FramesOwned, IInv, Owned
<1> QED
  BY <1>1, Invariant, PTL

\* memory.c:79-81: the victim's entry leaves the TLB, whoever runs.
THEOREM TlbIsRight ==
  ASSUME Revisits = FALSE
  PROVE  Spec => []TlbAgrees
<1>1. IInv => TlbAgrees
  BY DEF IInv
<1> QED
  BY <1>1, Invariant, PTL

\* Each process has its own program and its own stack, whatever is swapped out.
THEOREM PagingImplementsPrivateMemory ==
  ASSUME Revisits = FALSE
  PROVE  Spec => ImplementsPrivateMemory
<1>1. Init => Private!Init
  BY DEF Init, Private!Init, Mapped, Page
<1>2. IInv /\ [Next]_vars => [Private!Next]_<<Stack, last>>
  <2> SUFFICES ASSUME IInv, [Next]_vars
               PROVE  [Private!Next]_<<Stack, last>>
    OBVIOUS
  <2>1. CASE Accesses
    BY <2>1 DEF Accesses, Stack, Private!Next, Private!Fetch, Private!Load, Private!Store, Private!Did
  <2> QED
    BY <2>1, Steps
<1> QED
  BY <1>1, <1>2, Invariant, PTL DEF Spec, ImplementsPrivateMemory, Private!Spec, Stack
=============================================================================
