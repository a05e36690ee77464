----------------------------- MODULE UsbMemory -----------------------------
(***************************************************************************)
(* The allocator for USB buffers (LPCUSBLib/Drivers/USB/Core/USBMemory.c,  *)
(* the variant with TEST_NEW_ALLOC = 0).                                   *)
(*                                                                         *)
(* Nothing protects its list: the interrupt handler may free a buffer      *)
(* while the task is in the middle of USB_Memory_Alloc or USB_Memory_Free. *)
(* A call is therefore a sequence of steps, one per test and per store to  *)
(* a header that is in the list.  A store to a field is one step, though   *)
(* the compiler may read and write the word in which the field is packed.  *)
(***************************************************************************)
EXTENDS Integers

CONSTANT PoolSize       \* USBRAM_BUFFER_SIZE

HEADER_SIZE == 4

SizeWrap == 32768       \* size : 15

ASSUME UsbMemoryAssumption ==
    /\ PoolSize \in Nat
    /\ PoolSize % 4 = 0
    /\ PoolSize >= HEADER_SIZE /\ PoolSize <= SizeWrap

NULL == 0

(* Headers lie at offsets that are multiples of four.                      *)
Words == {a \in 0 .. PoolSize - 1 : a % 4 = 0}

Header == [size : 0 .. SizeWrap - 1, isFree : BOOLEAN, next : Words]

(* The task and the interrupt handler.  Only the task allocates.           *)
Context == {"task", "isr"}

VARIABLES
    mem,            \* what a header at each offset of USB_Mem_Buffer would be
    call,           \* where a context is in a call of the allocator, and its
                    \* blk_ptr, prev and size; the loop of USB_Memory_Alloc
                    \* has its freeBlock in blk
    got,            \* what USB_Memory_Alloc has returned, until it is stored
    list,           \* history: the headers that have been put into the list
    torn            \* history: a buffer was freed inside a call of the other

allocator == <<mem, call, got, list, torn>>

Idle == [step |-> "idle", blk |-> 0, prev |-> 0, size |-> 0]

At(c, step) == call[c].step = step
To(c, step) == call' = [call EXCEPT ![c].step = step]

(* USB_Memory_Init, in memory that is zero at start.                       *)
MemoryInit ==
    /\ mem = [a \in Words |->
                IF a = 0
                  THEN [size |-> PoolSize - HEADER_SIZE, isFree |-> TRUE, next |-> 0]
                  ELSE [size |-> 0, isFree |-> FALSE, next |-> 0]]
    /\ call = [c \in Context |-> Idle]
    /\ got = NULL
    /\ list = {0} /\ torn = FALSE

(* A call rests on what it has read: it is past its first test.            *)
Inside(c) == ~At(c, "idle") /\ ~At(c, "test") /\ ~(At(c, "search") /\ call[c].blk = 0)

(***************************************************************************)
(* USB_Memory_Alloc                                                        *)
(***************************************************************************)
Aligned(size) == IF size % 4 # 0 THEN (size \div 4) * 4 + 4 ELSE size

AllocCall(c, size) ==
    /\ call' = [call EXCEPT ![c] = [Idle EXCEPT !.step = "search", !.size = Aligned(size)]]
    /\ UNCHANGED <<mem, got, list, torn>>

AllocReturn(c, ptr) == got' = ptr /\ call' = [call EXCEPT ![c] = Idle]

(* The first block that is free and large enough; the list is sorted by    *)
(* address.                                                                *)
Fits(c) == LET b == mem[call[c].blk] IN b.isFree /\ b.size >= call[c].size

Search(c) ==
    /\ At(c, "search")
    /\ LET next == mem[call[c].blk].next
       IN  \/ Fits(c) /\ To(c, "fit") /\ UNCHANGED got
           \/ ~Fits(c) /\ next # 0 /\ call' = [call EXCEPT ![c].blk = next] /\ UNCHANGED got
           \/ ~Fits(c) /\ next = 0 /\ AllocReturn(c, NULL)
    /\ UNCHANGED <<mem, list, torn>>

(* A block that has no room for another header is handed out whole,        *)
FitSplits(c) ==     \* Mutant: one that just fits is split as well.
    /\ At(c, "fit")
    /\ To(c, IF mem[call[c].blk].size < HEADER_SIZE + call[c].size THEN "take" ELSE "carve")
    /\ UNCHANGED <<mem, got, list, torn>>

Fit(c) ==
    /\ At(c, "fit")
    /\ To(c, IF mem[call[c].blk].size <= HEADER_SIZE + call[c].size THEN "take" ELSE "carve")
    /\ UNCHANGED <<mem, got, list, torn>>

Claim(c) ==
    /\ At(c, "take") \/ At(c, "claim")
    /\ mem' = [mem EXCEPT ![call[c].blk].isFree = FALSE]
    /\ AllocReturn(c, call[c].blk + HEADER_SIZE)
    /\ UNCHANGED <<list, torn>>

(* from a larger one the rest becomes a free block: its header is written, *)
(* then the block in front of it gets its size and is linked to the rest.  *)
(* (A rest beyond the end of the pool, which only a torn list has, is not  *)
(* followed any further.)                                                  *)
Remainder(c) == call[c].blk + call[c].size + HEADER_SIZE

CarveKeepsSize(c) ==    \* Mutant: the rest keeps the size of the whole.
    /\ At(c, "carve") /\ Remainder(c) \in Words
    /\ mem' = [mem EXCEPT ![Remainder(c)] =
                 [size |-> mem[call[c].blk].size, isFree |-> TRUE, next |-> mem[call[c].blk].next]]
    /\ To(c, "shrink")
    /\ UNCHANGED <<got, list, torn>>

Carve(c) ==
    /\ At(c, "carve") /\ Remainder(c) \in Words
    /\ mem' = [mem EXCEPT ![Remainder(c)] =
                 [size |-> (mem[call[c].blk].size - (HEADER_SIZE + call[c].size)) % SizeWrap,
                  isFree |-> TRUE, next |-> mem[call[c].blk].next]]
    /\ To(c, "shrink")
    /\ UNCHANGED <<got, list, torn>>

Shrink(c) ==
    /\ At(c, "shrink")
    /\ mem' = [mem EXCEPT ![call[c].blk].size = call[c].size]
    /\ To(c, "join")
    /\ UNCHANGED <<got, list, torn>>

Join(c) ==
    /\ At(c, "join")
    /\ mem' = [mem EXCEPT ![call[c].blk].next = Remainder(c)]
    /\ list' = list \union {Remainder(c)}
    /\ To(c, "claim")
    /\ UNCHANGED <<got, torn>>

(***************************************************************************)
(* USB_Memory_Free                                                         *)
(***************************************************************************)
FreeCall(c, ptr) ==
    /\ IF ptr = NULL
         THEN UNCHANGED <<call, torn>>
         ELSE /\ call' = [call EXCEPT ![c] = [Idle EXCEPT !.step = "test",
                                                         !.blk = ptr - HEADER_SIZE]]
              /\ torn' = (torn \/ \E d \in Context \ {c} : Inside(d))
    /\ UNCHANGED <<mem, got, list>>

Grown(a, b) == [mem EXCEPT ![a].size = (@ + mem[b].size + HEADER_SIZE) % SizeWrap]
Linked(a, b) == [mem EXCEPT ![a].next = mem[b].next]

(* The block takes in a free block behind it: its size, then its link.     *)
(* (Without a block behind it, only a torn list gets here.)                *)
Behind(c) == mem[call[c].blk].next

TestNext(c) ==
    /\ At(c, "test")
    /\ To(c, IF Behind(c) # 0 /\ mem[Behind(c)].isFree THEN "grow" ELSE "walk")
    /\ UNCHANGED <<mem, got, list, torn>>

GrowNext(c) ==
    /\ At(c, "grow") /\ Behind(c) # 0
    /\ mem' = Grown(call[c].blk, Behind(c))
    /\ To(c, "link")
    /\ UNCHANGED <<got, list, torn>>

LinkNext(c) ==
    /\ At(c, "link") /\ Behind(c) # 0
    /\ mem' = Linked(call[c].blk, Behind(c))
    /\ list' = IF call[c].blk \in list THEN list \ {Behind(c)} ELSE list
    /\ To(c, "walk")
    /\ UNCHANGED <<got, torn>>

(* The walk from the head to the block in front,                           *)
Walk(c) ==
    /\ At(c, "walk")
    /\ LET prev == mem[call[c].prev]
       IN  \/ /\ prev.next # 0 /\ prev.next = call[c].blk
              /\ To(c, IF prev.isFree THEN "growprev" ELSE "mark")
           \/ /\ prev.next # 0 /\ prev.next # call[c].blk
              /\ call' = [call EXCEPT ![c].prev = prev.next]
           \/ prev.next = 0 /\ To(c, "mark")
    /\ UNCHANGED <<mem, got, list, torn>>

(* which, if it is free, takes the block in.                               *)
GrowPrev(c) ==
    /\ At(c, "growprev")
    /\ mem' = Grown(call[c].prev, call[c].blk)
    /\ To(c, "linkprev")
    /\ UNCHANGED <<got, list, torn>>

LinkPrev(c) ==
    /\ At(c, "linkprev")
    /\ mem' = Linked(call[c].prev, call[c].blk)
    /\ list' = list \ {call[c].blk}
    /\ call' = [call EXCEPT ![c].step = "mark", ![c].blk = call[c].prev]
    /\ UNCHANGED <<got, torn>>

Mark(c) ==
    /\ At(c, "mark")
    /\ mem' = [mem EXCEPT ![call[c].blk].isFree = TRUE]
    /\ call' = [call EXCEPT ![c] = Idle]
    /\ UNCHANGED <<got, list, torn>>

AllocStep(c) ==
    Search(c) \/ Fit(c) \/ Claim(c) \/ Carve(c) \/ Shrink(c) \/ Join(c)

FreeStep(c) ==
    \/ TestNext(c) \/ GrowNext(c) \/ LinkNext(c)
    \/ Walk(c) \/ GrowPrev(c) \/ LinkPrev(c) \/ Mark(c)

(***************************************************************************)
(* What the allocator keeps true of its list                               *)
(***************************************************************************)
Steps ==
    {"idle", "search", "fit", "take", "carve", "shrink", "join", "claim",
     "test", "grow", "link", "walk", "growprev", "linkprev", "mark"}

MemoryType ==
    /\ mem \in [Words -> Header]
    /\ call \in [Context -> [step : Steps, blk : Words, prev : Words, size : Nat]]
    /\ got \in Nat
    /\ list \subseteq Words
    /\ torn \in BOOLEAN

Pool == [a \in list |-> mem[a]]

(* No call is between two stores that belong together.                     *)
Settled ==
    \A c \in Context : \A step \in {"join", "claim", "link", "linkprev"} : ~At(c, step)

UsedBuffers(pool) == {a + HEADER_SIZE : a \in {b \in DOMAIN pool : ~pool[b].isFree}}

EndOf(pool, a) == a + HEADER_SIZE + pool[a].size

(* The list leads from block to adjacent block to the end of the pool, and *)
(* every header is on it.                                                  *)
Tiled(pool) ==
    /\ 0 \in DOMAIN pool
    /\ \A a \in DOMAIN pool :
         IF pool[a].next = 0
           THEN EndOf(pool, a) = PoolSize
           ELSE pool[a].next \in DOMAIN pool /\ EndOf(pool, a) = pool[a].next
    /\ \A b \in DOMAIN pool : b # 0 => \E a \in DOMAIN pool : pool[a].next = b

NoOverlap(pool) == \A a, b \in DOMAIN pool : a < b => EndOf(pool, a) <= b

(* Free blocks are merged: two of them are never adjacent.                 *)
Coalesced(pool) ==
    \A a \in DOMAIN pool :
        pool[a].next # 0 => ~(pool[a].isFree /\ pool[pool[a].next].isFree)

WordAligned(pool) == \A a \in DOMAIN pool : a % 4 = 0 /\ pool[a].size % 4 = 0

PoolOK(pool) ==
    /\ Tiled(pool) /\ NoOverlap(pool) /\ Coalesced(pool) /\ WordAligned(pool)

(* The headers that the links lead to from the head, in whatever state the *)
(* list is.                                                                *)
Reachable ==
    LET reach[n \in 0 .. PoolSize \div 4] ==
            IF n = 0 THEN {0} ELSE reach[n - 1] \union {mem[a].next : a \in reach[n - 1]}
    IN  reach[PoolSize \div 4]
=============================================================================
