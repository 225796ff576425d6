-------------------------------- MODULE Memory --------------------------------
(***************************************************************************)
(* The page allocator of memory.cpp: a bitmap with one bit per page, and   *)
(* al, the array of the blocks handed out, alp of them in use.             *)
(*                                                                         *)
(* searchmem() turns interrupts off and is one action.  freemem() does     *)
(* not: called with IF=1, as by mass::comp behind the sti of xhci.cpp:427  *)
(* or by a command after the sti that ends idecdrv::read, it can lose the  *)
(* processor between any two of its accesses, and its loops are taken one  *)
(* iteration at a time.  Masked says that all callers of freemem() hold    *)
(* IF=0.                                                                   *)
(*                                                                         *)
(* held and freeing are history: the blocks each task was given and has    *)
(* not returned, and the block it is returning.                            *)
(***************************************************************************)
EXTENDS Integers, FiniteSets

CONSTANTS Procs,      \* tasks that allocate and free
          NPages,     \* pages the bitmap covers (0x100000)
          Reserved,   \* pages memory_init leaves set
          MaxPages,   \* bound: pages of one request
          NList,      \* entries of al (90*512)
          Masked      \* freemem is only called with interrupts off

Page == 0..(NPages - 1)

ASSUME PagesAssumption == NPages \in Nat /\ Reserved \in SUBSET Page /\ 0 \in Reserved
ASSUME ListAssumption == NList \in Nat /\ MaxPages \in Nat
ASSUME MemMaskedAssumption == Masked \in BOOLEAN

\* struct alloclist, in pages.
Block == [addr : Page, size : 0..NPages]
NoBlock == [addr |-> 0, size |-> 0]

PagesOf(b) == b.addr..(b.addr + b.size - 1)

VARIABLES used,     \* the pages whose bit is set
          al,       \* the array of blocks
          alp,      \* how many are in use
          held,     \* held[p]: the blocks p was given and still has
          freeing,  \* freeing[p]: the block p's freemem() is to release
          pc,       \* pc[p]: the loop or statement of p's freemem()
          i,        \* i[p]: the index of its first two loops
          blk,      \* blk[p]: addr, its parameter, and size, once found
          reg,      \* reg[p]: the register alp-- goes through
          halted    \* searchmem() found nothing: cli; hlt

locals == <<i, blk, reg>>
vars == <<used, al, alp, held, freeing, pc, locals, halted>>

\* memory_init: what the firmware calls free is clear, the first megabyte set.
Init == /\ used = Reserved
        /\ al = [k \in 0..(NList - 1) |-> NoBlock]
        /\ alp = 0
        /\ held = [p \in Procs |-> {}]
        /\ freeing = [p \in Procs |-> NoBlock]
        /\ pc = [p \in Procs |-> "out"]
        /\ i = [p \in Procs |-> 0]
        /\ blk = [p \in Procs |-> NoBlock]
        /\ reg = [p \in Procs |-> 0]
        /\ halted = FALSE

\* p has the processor: nothing is masked in another task's freemem().
Running(p) == /\ ~halted
              /\ Masked => \A o \in Procs \ {p} : pc[o] = "out"

-------------------------------------------------------------------------------
(* searchmem(size) and searchmemforio(size), size being n pages             *)

\* A run of bsize clear bits is complete at b+n-1.  c counts from 1, so a
\* request for no page matches nowhere.
Fits(b, n) == /\ n > 0
              /\ b + n <= NPages
              /\ b..(b + n - 1) \cap used = {}

FirstFit(b, n) == Fits(b, n) /\ \A a \in 0..(b - 1) : ~Fits(a, n)

Search(p, n) ==
  /\ Running(p)
  /\ pc[p] = "out"
  /\ alp < NList
  /\ \E b \in Page :
       /\ FirstFit(b, n)
       /\ used' = used \cup b..(b + n - 1)
       /\ al' = [al EXCEPT ![alp] = [addr |-> b, size |-> n]]
       /\ alp' = alp + 1
       /\ held' = [held EXCEPT ![p] = @ \cup {[addr |-> b, size |-> n]}]
  /\ UNCHANGED <<freeing, pc, locals, halted>>

SearchFails(p, n) ==
  /\ Running(p)
  /\ pc[p] = "out"
  /\ \A b \in Page : ~Fits(b, n)
  /\ halted' = TRUE
  /\ UNCHANGED <<used, al, alp, held, freeing, pc, locals>>

-------------------------------------------------------------------------------
(* freemem(addr) *)

\* The call: with the address of a block of p, or with a null pointer (delete
\* of a member that was never set), which no entry of al has.
FreeCall(p, b) ==
  /\ Running(p)
  /\ pc[p] = "out"
  /\ b \in held[p] \cup {NoBlock}
  /\ held' = [held EXCEPT ![p] = @ \ {b}]
  /\ freeing' = [freeing EXCEPT ![p] = b]
  /\ pc' = [pc EXCEPT ![p] = "find"]
  /\ i' = [i EXCEPT ![p] = 0]
  /\ blk' = [blk EXCEPT ![p] = [addr |-> b.addr, size |-> 0]]
  /\ UNCHANGED <<used, al, alp, reg, halted>>

\* for(i=0;i<alp;i++): the next entry is another block's, or the one.
FreeSkip(p) == /\ Running(p)
               /\ pc[p] = "find"
               /\ i[p] < alp
               /\ al[i[p]].addr # blk[p].addr
               /\ i' = [i EXCEPT ![p] = @ + 1]
               /\ UNCHANGED <<used, al, alp, held, freeing, pc, blk, reg, halted>>

FreeFound(p) == /\ Running(p)
                /\ pc[p] = "find"
                /\ i[p] < alp
                /\ al[i[p]].addr = blk[p].addr
                /\ blk' = [blk EXCEPT ![p].size = al[i[p]].size]
                /\ pc' = [pc EXCEPT ![p] = "shift"]
                /\ UNCHANGED <<used, al, alp, held, freeing, i, reg, halted>>

\* freemem returns: its frame is gone.
Return(p) == /\ pc' = [pc EXCEPT ![p] = "out"]
             /\ freeing' = [freeing EXCEPT ![p] = NoBlock]
             /\ i' = [i EXCEPT ![p] = 0]
             /\ blk' = [blk EXCEPT ![p] = NoBlock]
             /\ reg' = [reg EXCEPT ![p] = 0]

\* if(size==-1)return;
FreeUnknown(p) == /\ Running(p)
                  /\ pc[p] = "find"
                  /\ i[p] >= alp
                  /\ Return(p)
                  /\ UNCHANGED <<used, al, alp, held, halted>>

\* for(j=i;j<alp-1;j++)al[j]=al[j+1]; i stands for j.
FreeShift(p) == /\ Running(p)
                /\ pc[p] = "shift"
                /\ i[p] < alp - 1
                /\ al' = [al EXCEPT ![i[p]] = al[i[p] + 1]]
                /\ i' = [i EXCEPT ![p] = @ + 1]
                /\ UNCHANGED <<used, alp, held, freeing, pc, blk, reg, halted>>

\* The end of that loop, and the load and the store of alp--.
FreeLoad(p) == /\ Running(p)
               /\ pc[p] = "shift"
               /\ i[p] >= alp - 1
               /\ reg' = [reg EXCEPT ![p] = alp]
               /\ pc' = [pc EXCEPT ![p] = "store"]
               /\ UNCHANGED <<used, al, alp, held, freeing, i, blk, halted>>

FreeStore(p) == /\ Running(p)
                /\ pc[p] = "store"
                /\ alp' = reg[p] - 1
                /\ i' = [i EXCEPT ![p] = 0]
                /\ pc' = [pc EXCEPT ![p] = "clear"]
                /\ UNCHANGED <<used, al, held, freeing, blk, reg, halted>>

\* for(i=0;i<size;i++)clearbit(addr/4096+i), then the return.
FreeClear(p) == /\ Running(p)
                /\ pc[p] = "clear"
                /\ i[p] < blk[p].size
                /\ used' = used \ {blk[p].addr + i[p]}
                /\ i' = [i EXCEPT ![p] = @ + 1]
                /\ UNCHANGED <<al, alp, held, freeing, pc, blk, reg, halted>>

FreeReturn(p) == /\ Running(p)
                 /\ pc[p] = "clear"
                 /\ i[p] >= blk[p].size
                 /\ Return(p)
                 /\ UNCHANGED <<used, al, alp, held, halted>>

Free(p) == \/ FreeSkip(p) \/ FreeFound(p) \/ FreeUnknown(p) \/ FreeShift(p)
           \/ FreeLoad(p) \/ FreeStore(p) \/ FreeClear(p) \/ FreeReturn(p)

Next == \E p \in Procs : \/ \E n \in 0..MaxPages : Search(p, n) \/ SearchFails(p, n)
                         \/ \E b \in Block : FreeCall(p, b)
                         \/ Free(p)

Spec == Init /\ [][Next]_vars

-------------------------------------------------------------------------------
(* Properties *)

TypeOK == /\ used \in SUBSET Page
          /\ al \in [0..(NList - 1) -> Block]
          /\ alp \in 0..NList
          /\ held \in [Procs -> SUBSET Block]
          /\ freeing \in [Procs -> Block]
          /\ pc \in [Procs -> {"out", "find", "shift", "store", "clear"}]
          /\ i \in [Procs -> 0..(NPages + NList)]
          /\ blk \in [Procs -> Block]
          /\ reg \in [Procs -> 0..NList]
          /\ halted \in BOOLEAN

HeldBlocks == UNION {held[p] : p \in Procs}
HeldPages == UNION {PagesOf(b) : b \in HeldBlocks}

\* Memory that was given to a task stays its own until it returns it: no page
\* belongs to two blocks, none is a reserved one, and the bit of each is set,
\* so that searchmem cannot give it to somebody else.
HeldIsOwned ==
  /\ TypeOK
  /\ \A p, q \in Procs : \A b \in held[p], c \in held[q] :
       PagesOf(b) \cap PagesOf(c) # {} => p = q /\ b = c
  /\ HeldPages \subseteq used \ Reserved

\* What is returned is released: a page in use is reserved, or belongs to a
\* block somebody holds, or to one that is just being freed (mass.cpp:17:
\* freemem releases the specified memory).
OnlyHeldInUse ==
  used \subseteq Reserved \cup HeldPages
                 \cup UNION {PagesOf(freeing[p]) : p \in Procs}

\* Outside freemem() the list has every block that is held, with its size, and
\* nothing else, once each: the next freemem() finds the right one.
ListIsHeld ==
  (\A p \in Procs : pc[p] = "out") =>
    /\ {al[k] : k \in 0..(alp - 1)} = HeldBlocks
    /\ \A j, k \in 0..(alp - 1) : al[j].addr = al[k].addr => j = k
===============================================================================
