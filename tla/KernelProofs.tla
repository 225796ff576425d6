----------------------------- MODULE KernelProofs -----------------------------
(***************************************************************************)
(* Proofs about what the kernel does by itself.                            *)
(*                                                                         *)
(* Memory: for every number of pages, tasks and entries of the list, what  *)
(* a task was given is its own, as long as freemem() is called with        *)
(* interrupts off.  Apps: the same while applications start, call and      *)
(* exit, and the frame of one that is interrupted stays where it is.       *)
(* Boot: for every set of machines, any number of functions on the buses,  *)
(* and whatever answers at the IDE addresses.  Ide: for every number of    *)
(* tasks, calls and sectors, and every size of a sector and of the block.  *)
(***************************************************************************)
EXTENDS Apps, Boot, Ide, FiniteSetTheorems, TLAPS

-------------------------------------------------------------------------------
(* Memory: the inductive invariant                                          *)

\* b is a block of whole pages that were free once.
Good(b) == /\ b \in Block /\ b.size > 0 /\ b.addr + b.size <= NPages
           /\ \A x \in PagesOf(b) : x \notin Reserved

\* Block b is p's, or p is returning it.
Owns(p, b) == b \in held[p] \/ (b = freeing[p] /\ b # NoBlock)

\* One task at a time is in freemem().
Alone == \A p, q \in Procs : pc[p] # "out" /\ pc[q] # "out" => p = q

\* What freemem() has in its variables.
Frees(p) ==
  /\ pc[p] = "out" => freeing[p] = NoBlock
  /\ pc[p] = "find" => /\ blk[p].addr = freeing[p].addr /\ i[p] <= alp
                       /\ \A k \in 0..(i[p] - 1) : al[k].addr # blk[p].addr
  /\ pc[p] \in {"shift", "store", "clear"} => freeing[p] # NoBlock /\ blk[p] = freeing[p]
  /\ pc[p] \in {"shift", "store"} => i[p] < alp
  /\ pc[p] = "store" => i[p] = alp - 1 /\ reg[p] = alp
  /\ pc[p] = "clear" => i[p] <= blk[p].size

Apart ==
  /\ \A p \in Procs : freeing[p] \notin held[p]
  /\ \A p \in Procs : \A b \in Block : Owns(p, b) => Good(b)
  /\ \A p, q \in Procs : \A b, c \in Block : \A x \in Page :
       Owns(p, b) /\ Owns(q, c) /\ x \in PagesOf(b) /\ x \in PagesOf(c) => p = q /\ b = c

\* The bits of b's pages are set, but for those that p has cleared.
Set(p, x) == \/ \E b \in held[p] : x \in PagesOf(b)
             \/ x \in PagesOf(freeing[p]) /\ (pc[p] = "clear" => x >= blk[p].addr + i[p])

Bits == \A x \in Page : x \in used <=> x \in Reserved \/ \E p \in Procs : Set(p, x)

\* The entries of the list, but for the one that is being taken out.
Entries == {k \in 0..(alp - 1) : \A p \in Procs : pc[p] \in {"shift", "store"} => k # i[p]}

\* What has an entry.
Entered(b) == \E p \in Procs : \/ b \in held[p]
                               \/ pc[p] = "find" /\ b = freeing[p] /\ b # NoBlock

List == /\ \A k \in Entries : Entered(al[k])
        /\ \A b \in Block : Entered(b) => \E k \in Entries : al[k] = b
        /\ \A j, k \in Entries : al[j].addr = al[k].addr => j = k

MemInv == /\ TypeOK /\ Alone /\ (\A p \in Procs : Frees(p))
          /\ Apart /\ Bits /\ List

-------------------------------------------------------------------------------
LEMMA OfGood ==
  ASSUME NEW b, Good(b)
  PROVE  /\ b \in Block /\ b.addr \in PagesOf(b) /\ PagesOf(b) \subseteq Page \ Reserved
         /\ b.addr # 0 /\ b # NoBlock /\ b.size \in 1..NPages
<1>1. b \in Block /\ b.size > 0 /\ b.addr + b.size <= NPages /\ (\A x \in PagesOf(b) : x \notin Reserved)
  BY DEF Good
<1>2. b.addr \in Page /\ b.size \in 0..NPages /\ NPages \in Nat /\ 0 \in Reserved
  BY <1>1, PagesAssumption DEF Block
<1>3. b.addr \in PagesOf(b) /\ PagesOf(b) \subseteq Page
  BY <1>1, <1>2 DEF PagesOf, Page
<1>4. b.addr # 0
  BY <1>1, <1>2, <1>3
<1> QED BY <1>1, <1>2, <1>3, <1>4 DEF NoBlock

\* No block has no pages.
LEMMA NoPages == PagesOf(NoBlock) = {} /\ NoBlock \in Block
BY PagesAssumption DEF PagesOf, NoBlock, Block, Page

\* Nobody else is in freemem().
LEMMA Others ==
  ASSUME Masked, MemInv, NEW p \in Procs, Running(p)
  PROVE  \A q \in Procs \ {p} : pc[q] = "out" /\ freeing[q] = NoBlock
BY DEF Running, MemInv, Frees

\* When nobody is in freemem().
LEMMA AllOut ==
  ASSUME MemInv, \A q \in Procs : pc[q] = "out"
  PROVE  /\ \A q \in Procs : freeing[q] = NoBlock
         /\ \A q \in Procs : \A b : Owns(q, b) <=> b \in held[q]
         /\ \A q \in Procs : \A x : Set(q, x) <=> \E b \in held[q] : x \in PagesOf(b)
         /\ Entries = 0..(alp - 1)
         /\ \A b : Entered(b) <=> \E q \in Procs : b \in held[q]
<1>1. \A q \in Procs : freeing[q] = NoBlock
  BY DEF MemInv, Frees
<1>2. \A q \in Procs : \A b : Owns(q, b) <=> b \in held[q]
  BY <1>1 DEF Owns
<1>3. \A q \in Procs : \A x : Set(q, x) <=> \E b \in held[q] : x \in PagesOf(b)
  BY <1>1, NoPages DEF Set
<1>4. Entries = 0..(alp - 1)
  BY DEF Entries
<1>5. \A b : Entered(b) <=> \E q \in Procs : b \in held[q]
  BY DEF Entered
<1> QED BY <1>1, <1>2, <1>3, <1>4, <1>5

\* The blocks that are held are whole, and their bits are set.
LEMMA HeldGood ==
  ASSUME MemInv, NEW q \in Procs, NEW c \in held[q]
  PROVE  /\ Good(c) /\ c \in Block /\ c # NoBlock /\ c.addr \in PagesOf(c)
         /\ \A x \in PagesOf(c) : x \in used /\ x \in Page /\ x \notin Reserved
<1>1. c \in Block
  BY DEF MemInv, TypeOK
<1>2. Good(c)
  BY <1>1 DEF MemInv, Apart, Owns
<1>3. ASSUME NEW x \in PagesOf(c) PROVE x \in used /\ x \in Page /\ x \notin Reserved
  <2>1. x \in Page /\ x \notin Reserved
    BY <1>2, OfGood
  <2>2. Set(q, x)
    BY DEF Set
  <2> QED BY <2>1, <2>2 DEF MemInv, Bits
<1> QED BY <1>1, <1>2, <1>3, OfGood

\* A block that is found and handed out.
LEMMA SearchMem ==
  ASSUME MemInv, \A q \in Procs : pc[q] = "out", NEW p \in Procs, NEW n \in 0..MaxPages, Search(p, n)
  PROVE  MemInv'
<1>1. /\ Running(p) /\ pc[p] = "out" /\ alp < NList
      /\ UNCHANGED <<freeing, pc, i, blk, reg, halted>>
  BY DEF Search, locals
<1>2. PICK b \in Page :
        /\ FirstFit(b, n)
        /\ used' = used \cup b..(b + n - 1)
        /\ al' = [al EXCEPT ![alp] = [addr |-> b, size |-> n]]
        /\ alp' = alp + 1
        /\ held' = [held EXCEPT ![p] = @ \cup {[addr |-> b, size |-> n]}]
  BY DEF Search
<1> DEFINE nb == [addr |-> b, size |-> n]
<1>3. \A q \in Procs : pc[q] = "out"
  OBVIOUS
<1>4. \A q \in Procs : pc'[q] = "out" /\ freeing'[q] = NoBlock
  BY <1>1, <1>3, AllOut
<1>5. TypeOK /\ Alone /\ (\A q \in Procs : Frees(q)) /\ Apart /\ Bits /\ List
  BY DEF MemInv
<1>6. /\ n \in 1..NPages /\ b + n <= NPages /\ b \in Page
      /\ \A x \in b..(b + n - 1) : x \notin used
  BY PagesAssumption, ListAssumption, <1>2 DEF FirstFit, Fits, Page
<1>7. nb \in Block /\ nb.size > 0 /\ nb.addr + nb.size <= NPages /\ PagesOf(nb) = b..(b + n - 1)
  BY <1>6 DEF Block, PagesOf
<1>8. PagesOf(nb) \subseteq Page /\ b \in PagesOf(nb)
  BY <1>6, <1>7, PagesAssumption DEF Page
<1>9. /\ used' = used \cup PagesOf(nb) /\ al' = [al EXCEPT ![alp] = nb]
      /\ held' = [held EXCEPT ![p] = @ \cup {nb}]
      /\ nb.addr = b
      /\ \A x \in PagesOf(nb) : x \notin used
  BY <1>2, <1>6, <1>7
<1> HIDE DEF nb
<1>10. /\ \A q \in Procs : held'[q] = IF q = p THEN held[p] \cup {nb} ELSE held[q]
       /\ alp \in 0..(NList - 1) /\ alp \in Nat
       /\ \A k \in 0..(alp - 1) : al'[k] = al[k]
       /\ al'[alp] = nb
  BY <1>1, <1>5, <1>9, ListAssumption DEF TypeOK
<1>11. \A q \in Procs : \A c \in held[q] : Good(c) /\ \A x \in PagesOf(c) : x \in used
  BY HeldGood
<1>12. \A q \in Procs : nb \notin held[q]
  BY <1>8, <1>9, <1>11
<1>13. Good(nb)
  <2>1. \A x \in PagesOf(nb) : x \notin Reserved
    BY <1>5, <1>8, <1>9 DEF Bits
  <2> QED BY <1>7, <2>1 DEF Good
<1>14. TypeOK'
  <2>1. used' \in SUBSET Page
    BY <1>5, <1>8, <1>9 DEF TypeOK
  <2>2. al' \in [0..(NList - 1) -> Block] /\ alp' \in 0..NList
    BY <1>2, <1>5, <1>7, <1>9, <1>10, ListAssumption DEF TypeOK
  <2>3. held' \in [Procs -> SUBSET Block]
    BY <1>5, <1>7, <1>9 DEF TypeOK
  <2> QED BY <1>1, <1>5, <2>1, <2>2, <2>3 DEF TypeOK
<1>15. Alone' /\ \A q \in Procs : Frees(q)'
  BY <1>4 DEF Alone, Frees
<1>16. \A q \in Procs : \A c : Owns(q, c)' <=> c \in held[q] \/ (q = p /\ c = nb)
  BY <1>4, <1>10 DEF Owns
<1>17. Apart'
  <2>1. \A q \in Procs : freeing'[q] \notin held'[q]
    <3>1. ~Good(NoBlock)
      BY OfGood
    <3> QED BY <1>4, <1>10, <1>11, <1>13, <3>1
  <2>2. \A q \in Procs : \A c \in Block : Owns(q, c)' => Good(c)
    BY <1>11, <1>13, <1>16
  <2>3. ASSUME NEW q \in Procs, NEW r \in Procs, NEW c \in Block, NEW d \in Block, NEW x \in Page,
               Owns(q, c)', Owns(r, d)', x \in PagesOf(c), x \in PagesOf(d)
        PROVE  q = r /\ c = d
    <3>1. CASE c \in held[q] /\ d \in held[r]
      BY <1>5, <2>3, <3>1 DEF Apart, Owns
    <3>2. CASE (c \in held[q] /\ d = nb) \/ (d \in held[r] /\ c = nb)
      BY <1>9, <1>11, <2>3, <3>2
    <3>3. CASE q = p /\ c = nb /\ r = p /\ d = nb
      BY <3>3
    <3> QED BY <1>16, <2>3, <3>1, <3>2, <3>3
  <2> QED BY <2>1, <2>2, <2>3 DEF Apart, Good
<1>18. Bits'
  <2>1. \A q \in Procs : \A x : Set(q, x)' <=> Set(q, x) \/ (q = p /\ x \in PagesOf(nb))
    BY <1>1, <1>3, <1>4, <1>10, NoPages, AllOut DEF Set
  <2> QED BY <1>5, <1>9, <2>1 DEF Bits
<1>19. List'
  <2>1. Entries = 0..(alp - 1) /\ Entries' = 0..alp /\ alp \in Entries' /\ Entries \subseteq Entries'
    BY <1>2, <1>3, <1>4, <1>10 DEF Entries
  <2>2. \A c : Entered(c)' <=> Entered(c) \/ c = nb
    BY <1>3, <1>4, <1>10 DEF Entered
  <2>3. \A k \in Entries' : k \in Entries \/ k = alp
    BY <1>10, <2>1
  <2>4. \A k \in Entries : al'[k] = al[k]
    BY <1>10, <2>1
  <2>5. \A k \in Entries' : Entered(al[k])'
    <3> SUFFICES ASSUME NEW k \in Entries' PROVE \E q \in Procs : al'[k] \in held'[q]
      BY DEF Entered
    <3>1. CASE k \in Entries
      <4>1. PICK q \in Procs : al[k] \in held[q]
        BY <1>3, <1>5, <3>1 DEF List, Entered
      <4> QED BY <1>10, <2>4, <3>1, <4>1
    <3>2. CASE k = alp
      BY <1>10, <3>2
    <3> QED BY <2>3, <3>1, <3>2
  <2>6. \A c \in Block : Entered(c)' => \E k \in Entries' : al'[k] = c
    BY <1>5, <1>10, <2>1, <2>2, <2>4 DEF List
  <2>7. \A k \in Entries : al[k].addr # nb.addr
    <3> SUFFICES ASSUME NEW k \in Entries PROVE al[k].addr # nb.addr
      OBVIOUS
    <3>1. PICK q \in Procs : al[k] \in held[q]
      BY <1>3, <1>5 DEF List, Entered
    <3>2. Good(al[k]) /\ \A x \in PagesOf(al[k]) : x \in used
      BY <1>11, <3>1
    <3>3. al[k].addr \in used
      BY <3>2, OfGood
    <3> QED BY <1>8, <1>9, <3>3
  <2>8. \A j, k \in Entries' : al'[j].addr = al'[k].addr => j = k
    <3> SUFFICES ASSUME NEW j \in Entries', NEW k \in Entries', al'[j].addr = al'[k].addr PROVE j = k
      OBVIOUS
    <3>1. CASE j \in Entries /\ k \in Entries
      BY <1>5, <2>4, <3>1 DEF List
    <3>2. CASE j = alp /\ k \in Entries
      BY <1>10, <2>4, <2>7, <3>2
    <3>3. CASE j \in Entries /\ k = alp
      BY <1>10, <2>4, <2>7, <3>3
    <3>4. CASE j = alp /\ k = alp
      BY <3>4
    <3> QED BY <2>3, <3>1, <3>2, <3>3, <3>4
  <2> QED BY <2>5, <2>6, <2>8 DEF List
<1> QED BY <1>14, <1>15, <1>17, <1>18, <1>19 DEF MemInv

\* None is found, or nothing happens: what MemInv speaks of is unchanged but for halted.
LEMMA StaysMem ==
  ASSUME MemInv, UNCHANGED <<used, al, alp, held, freeing, pc, locals>>, halted' \in BOOLEAN
  PROVE  MemInv'
BY DEF MemInv, TypeOK, Alone, Frees, Apart, Bits, List, Owns, Set, Entries, Entered, locals, Good

\* What the task that is in freemem() owns, and the pages that it has yet to clear.
LEMMA Acting ==
  ASSUME MemInv, NEW p \in Procs, \A q \in Procs \ {p} : pc[q] = "out" /\ freeing[q] = NoBlock
  PROVE  /\ \A q \in Procs \ {p} : \A b : Owns(q, b) <=> b \in held[q]
         /\ \A q \in Procs \ {p} : \A x : Set(q, x) <=> \E b \in held[q] : x \in PagesOf(b)
         /\ Entries = {k \in 0..(alp - 1) : pc[p] \in {"shift", "store"} => k # i[p]}
         /\ \A b : Entered(b) <=> \/ \E q \in Procs : b \in held[q]
                                  \/ pc[p] = "find" /\ b = freeing[p] /\ b # NoBlock
<1>1. \A q \in Procs \ {p} : \A b : Owns(q, b) <=> b \in held[q]
  BY DEF Owns
<1>2. \A q \in Procs \ {p} : \A x : Set(q, x) <=> \E b \in held[q] : x \in PagesOf(b)
  BY NoPages DEF Set
<1>3. Entries = {k \in 0..(alp - 1) : pc[p] \in {"shift", "store"} => k # i[p]}
  BY DEF Entries
<1>4. \A b : Entered(b) <=> \/ \E q \in Procs : b \in held[q]
                            \/ pc[p] = "find" /\ b = freeing[p] /\ b # NoBlock
  BY DEF Entered
<1> QED BY <1>1, <1>2, <1>3, <1>4

\* freemem() is called with a block of p or with a null pointer.
LEMMA FreeCalled ==
  ASSUME Masked, MemInv, NEW p \in Procs, NEW b \in Block, FreeCall(p, b)
  PROVE  MemInv'
<1>1. /\ Running(p) /\ pc[p] = "out" /\ b \in held[p] \cup {NoBlock}
      /\ held' = [held EXCEPT ![p] = @ \ {b}]
      /\ freeing' = [freeing EXCEPT ![p] = b]
      /\ pc' = [pc EXCEPT ![p] = "find"]
      /\ i' = [i EXCEPT ![p] = 0]
      /\ blk' = [blk EXCEPT ![p] = [addr |-> b.addr, size |-> 0]]
      /\ UNCHANGED <<used, al, alp, reg, halted>>
  BY DEF FreeCall
<1>2. TypeOK /\ Alone /\ (\A q \in Procs : Frees(q)) /\ Apart /\ Bits /\ List
  BY DEF MemInv
<1>3. \A q \in Procs : pc[q] = "out" /\ freeing[q] = NoBlock
  BY <1>1, Others, AllOut
<1>4. /\ held'[p] = held[p] \ {b} /\ freeing'[p] = b /\ pc'[p] = "find" /\ i'[p] = 0
      /\ blk'[p].addr = b.addr
      /\ \A q \in Procs \ {p} : /\ held'[q] = held[q] /\ freeing'[q] = freeing[q] /\ pc'[q] = pc[q]
  BY <1>1, <1>2 DEF TypeOK
<1>5. TypeOK'
  <2>1. [addr |-> b.addr, size |-> 0] \in Block /\ 0 \in 0..(NPages + NList)
    BY PagesAssumption, ListAssumption DEF Block
  <2>2. blk' \in [Procs -> Block] /\ i' \in [Procs -> 0..(NPages + NList)]
    BY <1>1, <1>2, <2>1 DEF TypeOK
  <2> QED BY <1>1, <1>2, <2>2 DEF TypeOK
<1>6. Alone'
  BY <1>3, <1>4 DEF Alone
<1>7. \A q \in Procs : Frees(q)'
  <2>1. Frees(p)'
    BY <1>1, <1>2, <1>4 DEF Frees, TypeOK
  <2> QED BY <1>3, <1>4, <2>1 DEF Frees
<1>8. ~Good(NoBlock)
  BY OfGood
<1>9. \A q \in Procs : \A c : Owns(q, c)' <=> Owns(q, c)
  <2>1. NoBlock \notin held[p]
    BY <1>2, <1>8, NoPages DEF Apart, Owns
  <2>2. \A c : Owns(p, c)' <=> Owns(p, c)
    BY <1>1, <1>3, <1>4, <2>1 DEF Owns
  <2> QED BY <1>4, <2>2 DEF Owns
<1>10. Apart'
  <2>1. \A q \in Procs : freeing'[q] \notin held'[q]
    BY <1>2, <1>4 DEF Apart
  <2> QED BY <1>2, <1>9, <2>1 DEF Apart, Good
<1>11. Bits'
  <2>1. \A x : Set(p, x)' <=> Set(p, x)
    BY <1>1, <1>3, <1>4, NoPages DEF Set
  <2>2. \A q \in Procs \ {p} : \A x : Set(q, x)' <=> Set(q, x)
    BY <1>3, <1>4, NoPages DEF Set
  <2> QED BY <1>1, <1>2, <2>1, <2>2 DEF Bits
<1>12. List'
  <2>1. Entries' = Entries
    BY <1>1, <1>3, <1>4 DEF Entries
  <2>2. \A c : Entered(c)' <=> Entered(c)
    <3>1. NoBlock \notin held[p]
      BY <1>2, <1>8, NoPages DEF Apart, Owns
    <3> QED BY <1>1, <1>3, <1>4, <3>1 DEF Entered
  <2>3. \A k \in Entries' : Entered(al[k])'
    BY <1>1, <1>2, <2>1, <2>2 DEF List
  <2> QED BY <1>1, <1>2, <2>1, <2>2, <2>3 DEF List
<1> QED BY <1>5, <1>6, <1>7, <1>10, <1>11, <1>12 DEF MemInv

\* The loop that looks for the block.
LEMMA FreeSkips ==
  ASSUME Masked, MemInv, NEW p \in Procs, FreeSkip(p)
  PROVE  MemInv'
<1>1. /\ pc[p] = "find" /\ i[p] < alp /\ al[i[p]].addr # blk[p].addr
      /\ i' = [i EXCEPT ![p] = @ + 1]
      /\ UNCHANGED <<used, al, alp, held, freeing, pc, blk, reg, halted>>
  BY DEF FreeSkip
<1>2. TypeOK /\ Alone /\ (\A q \in Procs : Frees(q)) /\ Apart /\ Bits /\ List
  BY DEF MemInv
<1>3. /\ i[p] \in Nat /\ alp \in Nat /\ alp <= NList /\ i'[p] = i[p] + 1
      /\ \A q \in Procs \ {p} : i'[q] = i[q] /\ pc[q] = "out"
  BY <1>1, <1>2, ListAssumption, PagesAssumption DEF TypeOK, Alone
<1>4. TypeOK'
  <2>1. i[p] + 1 \in 0..(NPages + NList)
    BY <1>1, <1>3, ListAssumption, PagesAssumption
  <2> QED BY <1>1, <1>2, <2>1 DEF TypeOK
<1>5. \A q \in Procs : Frees(q)'
  <2>1. \A k \in 0..(i[p] + 1 - 1) : k \in 0..(i[p] - 1) \/ k = i[p]
    BY <1>3
  <2>2. Frees(p)'
    BY <1>1, <1>2, <1>3, <2>1 DEF Frees
  <2> QED BY <1>1, <1>2, <1>3, <2>2 DEF Frees
<1>6. Alone' /\ Apart'
  BY <1>1, <1>2 DEF Alone, Apart, Owns, Good
<1>7. Bits'
  BY <1>1, <1>2, <1>3 DEF Bits, Set
<1>8. List'
  <2>1. Entries' = Entries
    BY <1>1, <1>3 DEF Entries
  <2> QED BY <1>1, <1>2, <2>1 DEF List, Entered
<1> QED BY <1>4, <1>5, <1>6, <1>7, <1>8 DEF MemInv

\* What the list says of the blocks that have an entry.
LEMMA EnteredGood ==
  ASSUME MemInv, NEW b, Entered(b)
  PROVE  Good(b)
<1>1. PICK q \in Procs : Owns(q, b)
  BY DEF Entered, Owns
<1>2. b \in Block
  BY <1>1 DEF MemInv, TypeOK, Owns
<1> QED BY <1>1, <1>2 DEF MemInv, Apart

\* The block has an entry, and the loop has found that one.
LEMMA FreeFinds ==
  ASSUME Masked, MemInv, NEW p \in Procs, FreeFound(p)
  PROVE  MemInv'
<1> DEFINE f == freeing[p]
<1>1. /\ pc[p] = "find" /\ i[p] < alp /\ al[i[p]].addr = blk[p].addr
      /\ blk' = [blk EXCEPT ![p].size = al[i[p]].size]
      /\ pc' = [pc EXCEPT ![p] = "shift"]
      /\ UNCHANGED <<used, al, alp, held, freeing, i, reg, halted>>
  BY DEF FreeFound
<1>2. TypeOK /\ Alone /\ (\A q \in Procs : Frees(q)) /\ Apart /\ Bits /\ List
  BY DEF MemInv
<1>3. /\ i[p] \in Nat /\ alp \in Nat /\ blk[p] \in Block /\ f \in Block /\ pc'[p] = "shift"
      /\ \A q \in Procs \ {p} : pc[q] = "out" /\ pc'[q] = "out" /\ freeing[q] = NoBlock /\ blk'[q] = blk[q]
  BY <1>1, <1>2, ListAssumption, PagesAssumption DEF TypeOK, Alone, Frees
<1>4. Entries = 0..(alp - 1) /\ i[p] \in Entries
  BY <1>1, <1>3 DEF Entries
<1>5. al[i[p]].addr = f.addr
  BY <1>1, <1>2 DEF Frees
<1>6. f # NoBlock
  <2>1. Good(al[i[p]])
    <3>1. Entered(al[i[p]])
      BY <1>2, <1>4 DEF List
    <3> QED BY <3>1, EnteredGood
  <2>2. al[i[p]].addr # 0
    BY <2>1, OfGood
  <2> QED BY <1>5, <2>2 DEF NoBlock
<1>7. al[i[p]] = f
  <2>1. Entered(f)
    BY <1>1, <1>6 DEF Entered
  <2>2. PICK k \in Entries : al[k] = f
    BY <1>2, <1>3, <2>1 DEF List
  <2>3. k = i[p]
    BY <1>2, <1>4, <1>5, <2>2 DEF List
  <2> QED BY <2>2, <2>3
<1>8. blk'[p] = f
  <2>1. blk'[p] = [blk[p] EXCEPT !.size = f.size] /\ blk[p].addr = f.addr
    BY <1>1, <1>2, <1>5, <1>7 DEF TypeOK
  <2> QED BY <1>3, <2>1 DEF Block
<1>9. \A q \in Procs : f \notin held[q]
  <2>1. Good(f) /\ Owns(p, f)
    BY <1>2, <1>3, <1>6 DEF Apart, Owns
  <2>2. f.addr \in PagesOf(f) /\ f.addr \in Page
    BY <2>1, OfGood
  <2> QED BY <1>2, <1>3, <2>1, <2>2 DEF Apart, Owns
<1>10. TypeOK'
  <2>1. blk' \in [Procs -> Block]
    BY <1>1, <1>2, <1>3, <1>8 DEF TypeOK
  <2> QED BY <1>1, <1>2, <2>1 DEF TypeOK
<1>11. Alone' /\ Apart'
  BY <1>1, <1>2, <1>3 DEF Alone, Apart, Owns, Good
<1>12. \A q \in Procs : Frees(q)'
  <2>1. Frees(p)'
    BY <1>1, <1>3, <1>6, <1>8 DEF Frees
  <2> QED BY <1>1, <1>3, <2>1 DEF Frees
<1>13. Bits'
  BY <1>1, <1>2, <1>3 DEF Bits, Set
<1>14. List'
  <2>1. Entries' = Entries \ {i[p]}
    BY <1>1, <1>3, <1>4 DEF Entries
  <2>2. \A c : Entered(c)' <=> Entered(c) /\ c # f
    BY <1>1, <1>3, <1>9 DEF Entered
  <2>3. \A k \in Entries' : Entered(al[k])'
    <3> SUFFICES ASSUME NEW k \in Entries' PROVE \E q \in Procs : al[k] \in held[q]
      BY <1>1 DEF Entered
    <3>1. Entered(al[k]) /\ al[k] # f
      BY <1>2, <1>4, <1>7, <2>1 DEF List
    <3> QED BY <1>3, <3>1 DEF Entered
  <2>4. \A c \in Block : Entered(c)' => \E k \in Entries' : al'[k] = c
    BY <1>1, <1>2, <1>7, <2>1, <2>2 DEF List
  <2>5. \A j, k \in Entries' : al'[j].addr = al'[k].addr => j = k
    BY <1>1, <1>2, <2>1 DEF List
  <2> QED BY <2>3, <2>4, <2>5 DEF List
<1> QED BY <1>10, <1>11, <1>12, <1>13, <1>14 DEF MemInv

\* Only a null pointer is unknown to the list, and that has no pages.
LEMMA FreeKnowsNot ==
  ASSUME Masked, MemInv, NEW p \in Procs, FreeUnknown(p)
  PROVE  MemInv'
<1>1. /\ pc[p] = "find" /\ i[p] >= alp /\ Return(p)
      /\ UNCHANGED <<used, al, alp, held, halted>>
  BY DEF FreeUnknown
<1>2. TypeOK /\ Alone /\ (\A q \in Procs : Frees(q)) /\ Apart /\ Bits /\ List
  BY DEF MemInv
<1>3. /\ i[p] \in Nat /\ alp \in Nat /\ freeing[p] \in Block
      /\ \A q \in Procs \ {p} : pc[q] = "out" /\ freeing[q] = NoBlock
  BY <1>1, <1>2, ListAssumption, PagesAssumption DEF TypeOK, Alone, Frees
<1>4. freeing[p] = NoBlock
  <2> SUFFICES ASSUME freeing[p] # NoBlock PROVE FALSE
    OBVIOUS
  <2>1. Entered(freeing[p])
    BY <1>1 DEF Entered
  <2>2. PICK k \in Entries : al[k] = freeing[p]
    BY <1>2, <1>3, <2>1 DEF List
  <2>3. k \in 0..(i[p] - 1)
    BY <1>1, <1>3 DEF Entries
  <2> QED BY <1>1, <1>2, <2>2, <2>3 DEF Frees
<1>5. /\ \A q \in Procs : pc'[q] = "out" /\ freeing'[q] = NoBlock
      /\ \A q \in Procs : freeing[q] = NoBlock /\ pc[q] # "shift" /\ pc[q] # "store"
  BY <1>1, <1>2, <1>3, <1>4 DEF Return, TypeOK
<1>6. TypeOK'
  BY <1>1, <1>2, NoPages, ListAssumption, PagesAssumption DEF TypeOK, Return
<1>7. Alone' /\ \A q \in Procs : Frees(q)'
  BY <1>5 DEF Alone, Frees
<1>8. Apart'
  BY <1>1, <1>2, <1>5 DEF Apart, Owns, Good
<1>9. Bits'
  BY <1>1, <1>2, <1>5, NoPages DEF Bits, Set
<1>10. List'
  <2>1. Entries' = Entries
    BY <1>1, <1>5 DEF Entries
  <2>2. \A c : Entered(c)' <=> Entered(c)
    BY <1>1, <1>5 DEF Entered
  <2>3. \A k \in Entries' : Entered(al[k])'
    BY <1>1, <1>2, <1>5, <2>1 DEF List, Entered
  <2> QED BY <1>1, <1>2, <2>1, <2>2, <2>3 DEF List
<1> QED BY <1>6, <1>7, <1>8, <1>9, <1>10 DEF MemInv

\* An entry is moved up, and the hole moves down.
LEMMA FreeShifts ==
  ASSUME Masked, MemInv, NEW p \in Procs, FreeShift(p)
  PROVE  MemInv'
<1> DEFINE h == i[p]
           from == [k \in 0..(alp - 1) |-> IF k = h THEN h + 1 ELSE k]
<1>1. /\ pc[p] = "shift" /\ h < alp - 1
      /\ al' = [al EXCEPT ![h] = al[h + 1]]
      /\ i' = [i EXCEPT ![p] = @ + 1]
      /\ UNCHANGED <<used, alp, held, freeing, pc, blk, reg, halted>>
  BY DEF FreeShift
<1>2. TypeOK /\ Alone /\ (\A q \in Procs : Frees(q)) /\ Apart /\ Bits /\ List
  BY DEF MemInv
<1>3. /\ h \in Nat /\ alp \in Nat /\ alp <= NList /\ i'[p] = h + 1
      /\ \A q \in Procs \ {p} : pc[q] = "out" /\ i'[q] = i[q]
  BY <1>1, <1>2, ListAssumption, PagesAssumption DEF TypeOK, Alone
<1>4. /\ Entries = {k \in 0..(alp - 1) : k # h}
      /\ Entries' = {k \in 0..(alp - 1) : k # h + 1}
  BY <1>1, <1>3 DEF Entries
<1>5. /\ al'[h] = al[h + 1] /\ \A k \in 0..(alp - 1) : k # h => al'[k] = al[k]
      /\ al' \in [0..(NList - 1) -> Block]
  BY <1>1, <1>2, <1>3, ListAssumption DEF TypeOK
<1> HIDE DEF h
<1>6. \A k \in Entries' : from[k] \in Entries /\ al'[k] = al[from[k]]
  BY <1>1, <1>3, <1>4, <1>5
<1>7. \A k \in Entries : \E j \in Entries' : from[j] = k
  <2> SUFFICES ASSUME NEW k \in Entries PROVE \E j \in Entries' : from[j] = k
    OBVIOUS
  <2>1. CASE k = h + 1
    <3>1. h \in Entries' /\ from[h] = k
      BY <1>1, <1>3, <1>4, <2>1
    <3> QED BY <3>1
  <2>2. CASE k # h + 1
    <3>1. k \in Entries' /\ from[k] = k
      BY <1>4, <2>2
    <3> QED BY <3>1
  <2> QED BY <2>1, <2>2
<1>8. \A j, k \in Entries' : from[j] = from[k] => j = k
  BY <1>1, <1>3, <1>4
<1> HIDE DEF from
<1>9. TypeOK'
  <2>1. h + 1 \in 0..(NPages + NList)
    BY <1>1, <1>3, ListAssumption, PagesAssumption
  <2>2. i' \in [Procs -> 0..(NPages + NList)]
    BY <1>1, <1>2, <2>1 DEF TypeOK, h
  <2> QED BY <1>1, <1>2, <1>5, <2>2 DEF TypeOK
<1>10. Alone' /\ Apart'
  BY <1>1, <1>2 DEF Alone, Apart, Owns, Good
<1>11. \A q \in Procs : Frees(q)'
  <2>1. Frees(p)'
    BY <1>1, <1>2, <1>3 DEF Frees
  <2> QED BY <1>1, <1>2, <1>3, <2>1 DEF Frees
<1>12. Bits'
  BY <1>1, <1>2, <1>3 DEF Bits, Set
<1>13. List'
  <2>1. \A c : Entered(c)' <=> Entered(c)
    BY <1>1 DEF Entered
  <2>2. \A k \in Entries' : Entered(al[k])'
    BY <1>1, <1>2, <1>6 DEF List, Entered
  <2>3. \A c \in Block : Entered(c)' => \E k \in Entries' : al'[k] = c
    BY <1>2, <1>6, <1>7, <2>1 DEF List
  <2>4. \A j, k \in Entries' : al'[j].addr = al'[k].addr => j = k
    BY <1>2, <1>6, <1>8 DEF List
  <2> QED BY <2>2, <2>3, <2>4 DEF List
<1> QED BY <1>9, <1>10, <1>11, <1>12, <1>13 DEF MemInv

\* The hole has come to the end of the list, which is made shorter.
LEMMA FreeShortens ==
  ASSUME Masked, MemInv, NEW p \in Procs, FreeLoad(p) \/ FreeStore(p)
  PROVE  MemInv'
<1>1. TypeOK /\ Alone /\ (\A q \in Procs : Frees(q)) /\ Apart /\ Bits /\ List
  BY DEF MemInv
<1>2. /\ pc[p] \in {"shift", "store"} /\ i[p] < alp /\ freeing[p] # NoBlock /\ blk[p] = freeing[p]
      /\ UNCHANGED <<used, al, held, freeing, blk, halted>>
  BY <1>1 DEF FreeLoad, FreeStore, Frees
<1>3. /\ i[p] \in Nat /\ alp \in Nat /\ alp <= NList /\ reg[p] \in Nat
      /\ \A q \in Procs \ {p} : pc[q] = "out" /\ freeing[q] = NoBlock
  BY <1>1, <1>2, ListAssumption, PagesAssumption DEF TypeOK, Alone, Frees
<1>4. CASE FreeLoad(p)
  <2>1. /\ i[p] = alp - 1 /\ reg' = [reg EXCEPT ![p] = alp] /\ pc' = [pc EXCEPT ![p] = "store"]
        /\ UNCHANGED <<alp, i>> /\ pc[p] = "shift"
    BY <1>2, <1>3, <1>4 DEF FreeLoad
  <2>2. /\ pc'[p] = "store" /\ reg'[p] = alp
        /\ \A q \in Procs \ {p} : pc'[q] = "out"
    BY <1>1, <1>3, <2>1 DEF TypeOK
  <2>3. TypeOK'
    BY <1>1, <1>2, <1>3, <2>1 DEF TypeOK
  <2>4. Alone' /\ Apart'
    BY <1>1, <1>2, <2>2 DEF Alone, Apart, Owns, Good
  <2>5. \A q \in Procs : Frees(q)'
    BY <1>2, <1>3, <2>1, <2>2 DEF Frees
  <2>6. Bits'
    BY <1>1, <1>2, <1>3, <2>1, <2>2 DEF Bits, Set
  <2>7. Entries' = Entries
    BY <1>3, <2>1, <2>2 DEF Entries
  <2>8. List'
    BY <1>1, <1>2, <1>3, <2>1, <2>2, <2>7 DEF List, Entered
  <2> QED BY <2>3, <2>4, <2>5, <2>6, <2>8 DEF MemInv
<1>5. CASE FreeStore(p)
  <2>1. /\ pc[p] = "store" /\ i[p] = alp - 1 /\ alp' = alp - 1
        /\ i' = [i EXCEPT ![p] = 0] /\ pc' = [pc EXCEPT ![p] = "clear"] /\ reg' = reg
    BY <1>1, <1>5 DEF FreeStore, Frees
  <2>2. /\ pc'[p] = "clear" /\ i'[p] = 0 /\ alp' \in 0..NList
        /\ \A q \in Procs \ {p} : pc'[q] = "out"
    <3>1. alp - 1 \in 0..NList
      BY <1>2, <1>3, ListAssumption
    <3> QED BY <1>1, <1>3, <2>1, <3>1 DEF TypeOK
  <2>3. TypeOK'
    <3>1. 0 \in 0..(NPages + NList)
      BY ListAssumption, PagesAssumption
    <3> QED BY <1>1, <1>2, <2>1, <2>2, <3>1 DEF TypeOK
  <2>4. Alone' /\ Apart'
    BY <1>1, <1>2, <2>2 DEF Alone, Apart, Owns, Good
  <2>5. blk[p].addr \in Int /\ blk[p].size >= 0
    <3>1. blk[p] \in Block
      BY <1>1 DEF TypeOK
    <3> QED BY <3>1, PagesAssumption DEF Block, Page
  <2>6. \A q \in Procs : Frees(q)'
    BY <1>2, <1>3, <2>2, <2>5 DEF Frees
  <2>7. Bits'
    <3>1. \A x \in PagesOf(freeing[p]) : x >= blk[p].addr + 0
      BY <1>2, <2>5 DEF PagesOf
    <3>2. \A x : Set(p, x)' <=> Set(p, x)
      BY <1>2, <2>1, <2>2, <3>1 DEF Set
    <3>3. \A q \in Procs \ {p} : \A x : Set(q, x)' <=> Set(q, x)
      BY <1>2, <1>3, <2>2, NoPages DEF Set
    <3> QED BY <1>1, <1>2, <3>2, <3>3 DEF Bits
  <2>8. Entries' = Entries
    BY <1>3, <2>1, <2>2 DEF Entries
  <2>9. List'
    BY <1>1, <1>2, <1>3, <2>1, <2>2, <2>8 DEF List, Entered
  <2> QED BY <2>3, <2>4, <2>6, <2>7, <2>9 DEF MemInv
<1> QED BY <1>4, <1>5

\* The bit of a page of the block is cleared.
LEMMA FreeClears ==
  ASSUME Masked, MemInv, NEW p \in Procs, FreeClear(p)
  PROVE  MemInv'
<1> DEFINE z == blk[p].addr + i[p]
           f == freeing[p]
<1>1. /\ pc[p] = "clear" /\ i[p] < blk[p].size /\ used' = used \ {z}
      /\ i' = [i EXCEPT ![p] = @ + 1]
      /\ UNCHANGED <<al, alp, held, freeing, pc, blk, reg, halted>>
  BY DEF FreeClear
<1>2. TypeOK /\ Alone /\ (\A q \in Procs : Frees(q)) /\ Apart /\ Bits /\ List
  BY DEF MemInv
<1>3. /\ f # NoBlock /\ blk[p] = f /\ Owns(p, f) /\ f \in Block
      /\ \A q \in Procs \ {p} : pc[q] = "out" /\ freeing[q] = NoBlock
  BY <1>1, <1>2 DEF TypeOK, Alone, Frees, Owns
<1>4. Good(f)
  BY <1>2, <1>3 DEF Apart
<1>5. /\ i[p] \in Nat /\ f.addr \in Nat /\ f.size \in 0..NPages /\ z = f.addr + i[p] /\ z \in Int
      /\ i'[p] = i[p] + 1 /\ \A q \in Procs \ {p} : i'[q] = i[q]
  BY <1>1, <1>2, <1>3, PagesAssumption, ListAssumption DEF TypeOK, Block, Page
<1>6. z \in PagesOf(f) /\ z \in Page /\ z \notin Reserved
  <2>1. z \in PagesOf(f)
    BY <1>1, <1>3, <1>5, PagesAssumption DEF PagesOf
  <2> QED BY <1>4, <2>1, OfGood
<1>7. \A q \in Procs : \A b \in held[q] : z \notin PagesOf(b)
  <2> SUFFICES ASSUME NEW q \in Procs, NEW b \in held[q], z \in PagesOf(b) PROVE FALSE
    OBVIOUS
  <2>1. b \in Block /\ Owns(q, b)
    BY <1>2 DEF TypeOK, Owns
  <2>2. p = q /\ f = b
    BY <1>2, <1>3, <1>6, <2>1 DEF Apart
  <2> QED BY <1>2, <2>2 DEF Apart
<1>8. TypeOK'
  <2>1. i[p] + 1 \in 0..(NPages + NList)
    BY <1>1, <1>3, <1>5, PagesAssumption, ListAssumption
  <2> QED BY <1>1, <1>2, <2>1 DEF TypeOK
<1>9. Alone' /\ Apart'
  BY <1>1, <1>2 DEF Alone, Apart, Owns, Good
<1>10. \A q \in Procs : Frees(q)'
  <2>1. i[p] + 1 <= blk[p].size
    BY <1>1, <1>3, <1>5, PagesAssumption
  <2>2. Frees(p)'
    BY <1>1, <1>3, <1>5, <2>1 DEF Frees
  <2> QED BY <1>1, <1>3, <2>2 DEF Frees
<1>11. Bits'
  <2>1. \A x \in Page : Set(p, x)' <=> Set(p, x) /\ x # z
    <3> SUFFICES ASSUME NEW x \in Page PROVE Set(p, x)' <=> Set(p, x) /\ x # z
      OBVIOUS
    <3>1. x \in Int /\ (x >= f.addr + (i[p] + 1) <=> x >= z /\ x # z)
      BY <1>5, PagesAssumption DEF Page
    <3> QED BY <1>1, <1>3, <1>5, <1>7, <3>1 DEF Set
  <2>2. \A q \in Procs \ {p} : \A x : Set(q, x)' <=> Set(q, x) /\ x # z
    BY <1>1, <1>3, <1>7, NoPages DEF Set
  <2> HIDE DEF z
  <2> QED BY <1>1, <1>2, <1>6, <2>1, <2>2 DEF Bits
<1>12. List'
  <2>1. Entries' = Entries
    BY <1>1, <1>3 DEF Entries
  <2> QED BY <1>1, <1>2, <2>1 DEF List, Entered
<1> QED BY <1>8, <1>9, <1>10, <1>11, <1>12 DEF MemInv

\* All of them are cleared.
LEMMA FreeReturns ==
  ASSUME Masked, MemInv, NEW p \in Procs, FreeReturn(p)
  PROVE  MemInv'
<1>1. /\ pc[p] = "clear" /\ i[p] >= blk[p].size /\ Return(p)
      /\ UNCHANGED <<used, al, alp, held, halted>>
  BY DEF FreeReturn
<1>2. TypeOK /\ Alone /\ (\A q \in Procs : Frees(q)) /\ Apart /\ Bits /\ List
  BY DEF MemInv
<1>3. /\ i[p] \in Nat /\ freeing[p] \in Block /\ blk[p] = freeing[p]
      /\ \A q \in Procs \ {p} : pc[q] = "out" /\ freeing[q] = NoBlock
  BY <1>1, <1>2, ListAssumption, PagesAssumption DEF TypeOK, Alone, Frees
<1>4. \A q \in Procs : pc'[q] = "out" /\ freeing'[q] = NoBlock
  BY <1>1, <1>2, <1>3 DEF Return, TypeOK
<1>5. TypeOK'
  BY <1>1, <1>2, NoPages, ListAssumption, PagesAssumption DEF TypeOK, Return
<1>6. Alone' /\ \A q \in Procs : Frees(q)'
  BY <1>4 DEF Alone, Frees
<1>7. Apart'
  <2>1. \A q \in Procs : NoBlock \notin held[q]
    <3>1. ~Good(NoBlock)
      BY OfGood
    <3> QED BY <1>2, <3>1, NoPages DEF Apart, Owns
  <2> QED BY <1>1, <1>2, <1>4, <2>1 DEF Apart, Owns, Good
<1>8. Bits'
  <2>1. \A x \in PagesOf(freeing[p]) : ~(x >= blk[p].addr + i[p])
    BY <1>1, <1>3, PagesAssumption DEF PagesOf, Block, Page
  <2> QED BY <1>1, <1>2, <1>3, <1>4, <2>1, NoPages DEF Bits, Set
<1>9. List'
  <2>1. Entries' = Entries
    BY <1>1, <1>3, <1>4 DEF Entries
  <2>2. \A c : Entered(c)' <=> Entered(c)
    BY <1>1, <1>3, <1>4 DEF Entered
  <2>3. \A k \in Entries' : Entered(al[k])'
    BY <1>1, <1>2, <1>3, <1>4, <2>1 DEF List, Entered
  <2> QED BY <1>1, <1>2, <2>1, <2>2, <2>3 DEF List
<1> QED BY <1>5, <1>6, <1>7, <1>8, <1>9 DEF MemInv

\* The inductive invariant holds at first.
LEMMA InitMem == Init => MemInv
<1> SUFFICES ASSUME Init PROVE MemInv
  OBVIOUS
<1>1. TypeOK
  <2>1. 0 \in 0..NList /\ 0 \in 0..(NPages + NList) /\ Reserved \in SUBSET Page
    BY PagesAssumption, ListAssumption
  <2>2. /\ al \in [0..(NList - 1) -> Block] /\ freeing \in [Procs -> Block] /\ blk \in [Procs -> Block]
    BY NoPages DEF Init
  <2>3. /\ held \in [Procs -> SUBSET Block]
        /\ pc \in [Procs -> {"out", "find", "shift", "store", "clear"}]
    BY DEF Init
  <2>4. /\ i \in [Procs -> 0..(NPages + NList)] /\ reg \in [Procs -> 0..NList]
    BY <2>1 DEF Init
  <2> QED BY <2>1, <2>2, <2>3, <2>4 DEF Init, TypeOK
<1>2. \A p \in Procs : pc[p] = "out" /\ held[p] = {} /\ freeing[p] = NoBlock
  BY DEF Init
<1>3. Alone /\ (\A p \in Procs : Frees(p)) /\ Apart
  BY <1>2 DEF Alone, Frees, Apart, Owns
<1>4. Bits
  BY <1>2, NoPages DEF Bits, Set, Init
<1>5. List
  BY <1>2 DEF List, Entries, Entered, Init
<1> QED BY <1>1, <1>3, <1>4, <1>5 DEF MemInv

\* The inductive invariant is kept by every step.
LEMMA StepMem == Masked /\ MemInv /\ [Next]_vars => MemInv'
<1> SUFFICES ASSUME Masked, MemInv, [Next]_vars PROVE MemInv'
  OBVIOUS
<1>1. ASSUME NEW p \in Procs, NEW n \in 0..MaxPages, Search(p, n) PROVE MemInv'
  <2>1. \A q \in Procs : pc[q] = "out"
    BY <1>1, Others DEF Search
  <2> QED BY <1>1, <2>1, SearchMem
<1>2. ASSUME NEW p \in Procs, NEW n \in 0..MaxPages, SearchFails(p, n) PROVE MemInv'
  BY <1>2, StaysMem DEF SearchFails
<1>3. ASSUME NEW p \in Procs, NEW b \in Block, FreeCall(p, b) PROVE MemInv'
  BY <1>3, FreeCalled
<1>4. ASSUME NEW p \in Procs, Free(p) PROVE MemInv'
  BY <1>4, FreeSkips, FreeFinds, FreeKnowsNot, FreeShifts, FreeShortens, FreeClears, FreeReturns
     DEF Free
<1>5. CASE UNCHANGED vars
  BY <1>5, StaysMem DEF vars, MemInv, TypeOK
<1> QED BY <1>1, <1>2, <1>3, <1>4, <1>5 DEF Next

\* What it says of the memory of each task.
LEMMA OwnedMem == MemInv => HeldIsOwned /\ OnlyHeldInUse /\ ListIsHeld
<1>1. MemInv => HeldIsOwned
  <2> SUFFICES ASSUME MemInv PROVE HeldIsOwned
    OBVIOUS
  <2>1. \A q \in Procs : \A b \in held[q] : b \in Block /\ Owns(q, b) /\ Good(b)
    BY DEF MemInv, TypeOK, Owns, Apart
  <2>2. \A p, q \in Procs : \A b \in held[p], c \in held[q] :
          PagesOf(b) \cap PagesOf(c) # {} => p = q /\ b = c
    <3> SUFFICES ASSUME NEW p \in Procs, NEW q \in Procs, NEW b \in held[p], NEW c \in held[q],
                        NEW x \in PagesOf(b), x \in PagesOf(c)
                 PROVE  p = q /\ b = c
      OBVIOUS
    <3>1. x \in Page
      BY <2>1, OfGood
    <3> QED BY <2>1, <3>1 DEF MemInv, Apart
  <2>3. HeldPages \subseteq used \ Reserved
    <3> SUFFICES ASSUME NEW q \in Procs, NEW b \in held[q], NEW x \in PagesOf(b)
                 PROVE  x \in used \ Reserved
      BY DEF HeldPages, HeldBlocks
    <3>1. x \in Page /\ x \notin Reserved
      BY <2>1, OfGood
    <3>2. Set(q, x)
      BY DEF Set
    <3> QED BY <3>1, <3>2 DEF MemInv, Bits
  <2> QED BY <2>2, <2>3 DEF HeldIsOwned, MemInv
<1>2. MemInv => OnlyHeldInUse
  <2> SUFFICES ASSUME MemInv, NEW x \in used, x \notin Reserved
               PROVE  x \in HeldPages \/ \E p \in Procs : x \in PagesOf(freeing[p])
    BY DEF OnlyHeldInUse
  <2>1. PICK q \in Procs : Set(q, x)
    BY DEF MemInv, TypeOK, Bits
  <2> QED BY <2>1 DEF Set, HeldPages, HeldBlocks
<1>3. MemInv => ListIsHeld
  <2> SUFFICES ASSUME MemInv, \A p \in Procs : pc[p] = "out"
               PROVE  /\ {al[k] : k \in 0..(alp - 1)} = HeldBlocks
                      /\ \A j, k \in 0..(alp - 1) : al[j].addr = al[k].addr => j = k
    BY DEF ListIsHeld
  <2>1. /\ Entries = 0..(alp - 1)
        /\ \A b : Entered(b) <=> b \in HeldBlocks
    BY AllOut DEF HeldBlocks
  <2>2. HeldBlocks \subseteq Block
    BY DEF MemInv, TypeOK, HeldBlocks
  <2>3. List
    BY DEF MemInv
  <2>4. \A k \in 0..(alp - 1) : al[k] \in HeldBlocks
    BY <2>1, <2>3 DEF List
  <2>5. \A b \in HeldBlocks : \E k \in 0..(alp - 1) : al[k] = b
    BY <2>1, <2>2, <2>3 DEF List
  <2> QED BY <2>1, <2>3, <2>4, <2>5 DEF List
<1> QED BY <1>1, <1>2, <1>3

\* For every number of pages, tasks and entries, as long as freemem() is called
\* with interrupts off: what a task was given is its own until it returns it
\* (memory.cpp:7-62), what it returns is released (memory.cpp:101-126), and
\* between calls the list has exactly the blocks that are held.
THEOREM MemoryOwned == Masked => (Spec => [](HeldIsOwned /\ OnlyHeldInUse /\ ListIsHeld))
<1> SUFFICES ASSUME Masked PROVE Spec => [](HeldIsOwned /\ OnlyHeldInUse /\ ListIsHeld)
  OBVIOUS
<1>1. MemInv => HeldIsOwned /\ OnlyHeldInUse /\ ListIsHeld
  BY OwnedMem
<1>2. MemInv /\ [Next]_vars => MemInv'
  BY StepMem
<1> QED BY <1>1, <1>2, InitMem, PTL DEF Spec

-------------------------------------------------------------------------------
(* The members of a set of numbers in their order                           *)

Rank(S, p) == Cardinality({q \in S : q < p})

\* Ranks number the elements of a finite set, and Nth finds them by their rank.
LEMMA Ranks ==
  ASSUME NEW S \in SUBSET Int, IsFiniteSet(S)
  PROVE  /\ Cardinality(S) \in Nat
         /\ \A p \in S : Rank(S, p) \in 0..(Cardinality(S) - 1)
         /\ \A p, q \in S : Rank(S, p) = Rank(S, q) => p = q
         /\ \A k \in 1..Cardinality(S) : Nth(S, k) \in S /\ Rank(S, Nth(S, k)) = k - 1
<1> DEFINE N == Cardinality(S)
           Below(p) == {q \in S : q < p}
           f == [p \in S |-> Rank(S, p) + 1]
<1>1. \A x \in S : x \in Int
  OBVIOUS
<1>2. N \in Nat
  BY FS_CardinalityType
<1>3. \A p \in S : IsFiniteSet(Below(p)) /\ Rank(S, p) \in 0..(N - 1)
  <2> SUFFICES ASSUME NEW p \in S PROVE IsFiniteSet(Below(p)) /\ Rank(S, p) \in 0..(N - 1)
    OBVIOUS
  <2>1. Below(p) \in SUBSET S /\ p \notin Below(p)
    OBVIOUS
  <2>2. /\ IsFiniteSet(Below(p)) /\ Cardinality(Below(p)) <= N
        /\ N = Cardinality(Below(p)) => S = Below(p)
    BY <2>1, FS_Subset
  <2>3. Cardinality(Below(p)) \in Nat
    BY <2>2, FS_CardinalityType
  <2>4. Cardinality(Below(p)) # N
    BY <2>1, <2>2
  <2> HIDE DEF N
  <2>5. Cardinality(Below(p)) \in 0..(N - 1)
    BY <1>2, <2>2, <2>3, <2>4
  <2> QED BY <2>2, <2>5 DEF Rank
<1> HIDE DEF N
<1>4. \A p \in S : Rank(S, p) \in 0..(N - 1)
  BY <1>3
<1>5. \A p \in S : Rank(S, p) \in Int /\ Rank(S, p) >= 0 /\ Rank(S, p) + 1 \in 1..N
  <2> SUFFICES ASSUME NEW p \in S
               PROVE  Rank(S, p) \in Int /\ Rank(S, p) >= 0 /\ Rank(S, p) + 1 \in 1..N
    OBVIOUS
  <2>1. Rank(S, p) \in 0..(N - 1)
    BY <1>4
  <2> QED BY <1>2, <2>1
<1>6. ASSUME NEW p \in S, NEW q \in S, p < q PROVE Rank(S, p) < Rank(S, q)
  <2>1. p \in Int /\ q \in Int /\ \A x \in Int : x < p => x < q
    BY <1>1, <1>6
  <2>2. p < q /\ ~(p < p)
    BY <1>6, <2>1
  <2>3. \A x \in Below(p) : x \in Below(q)
    BY <1>1, <2>1
  <2>4. Below(p) \in SUBSET Below(q) /\ p \in Below(q) /\ p \notin Below(p)
    BY <2>2, <2>3
  <2>5. /\ Cardinality(Below(p)) <= Cardinality(Below(q))
        /\ Cardinality(Below(q)) = Cardinality(Below(p)) => Below(q) = Below(p)
    BY <1>3, <2>4, FS_Subset
  <2>6. Cardinality(Below(p)) # Cardinality(Below(q))
    BY <2>4, <2>5
  <2>7. Cardinality(Below(p)) \in Int /\ Cardinality(Below(q)) \in Int
    BY <1>3, FS_CardinalityType
  <2>8. Cardinality(Below(p)) < Cardinality(Below(q))
    BY <2>5, <2>6, <2>7
  <2> QED BY <2>8 DEF Rank
<1>7. \A p, q \in S : Rank(S, p) = Rank(S, q) => p = q
  <2> SUFFICES ASSUME NEW p \in S, NEW q \in S, Rank(S, p) = Rank(S, q), p # q PROVE FALSE
    OBVIOUS
  <2>1. p < q \/ q < p
    BY <1>1
  <2>2. Rank(S, p) \in Int /\ Rank(S, q) \in Int
    BY <1>5
  <2> QED BY <1>6, <2>1, <2>2
<1>8. f \in Injection(S, 1..N)
  <2>1. f \in [S -> 1..N]
    <3>1. \A p \in S : Rank(S, p) + 1 \in 1..N
      BY <1>5
    <3> QED BY <3>1
  <2>2. \A p, q \in S : f[p] = f[q] => p = q
    <3> SUFFICES ASSUME NEW p \in S, NEW q \in S, f[p] = f[q] PROVE p = q
      OBVIOUS
    <3>1. Rank(S, p) + 1 = Rank(S, q) + 1
      OBVIOUS
    <3>2. Rank(S, p) \in Int /\ Rank(S, q) \in Int
      BY <1>5
    <3>3. Rank(S, p) = Rank(S, q)
      BY <3>1, <3>2
    <3> QED BY <1>7, <3>3
  <2> QED BY <2>1, <2>2 DEF Injection, IsInjective
<1>9. f \in Surjection(S, 1..N)
  <2>1. IsFiniteSet(1..N) /\ Cardinality(1..N) = N
    BY <1>2, FS_Interval
  <2> HIDE DEF f
  <2>2. Cardinality(S) = Cardinality(1..N)
    BY <2>1 DEF N
  <2> QED BY <1>8, <2>1, <2>2, FS_Injection
<1>10. \A k \in 1..N : \E p \in S : Rank(S, p) = k - 1
  <2> SUFFICES ASSUME NEW k \in 1..N PROVE \E p \in S : Rank(S, p) = k - 1
    OBVIOUS
  <2>1. PICK p \in S : f[p] = k
    BY <1>9 DEF Surjection
  <2>2. Rank(S, p) + 1 = k /\ Rank(S, p) \in Int
    BY <1>5, <2>1
  <2> QED BY <2>2
<1>11. \A k \in 1..N : Nth(S, k) \in S /\ Rank(S, Nth(S, k)) = k - 1
  <2> SUFFICES ASSUME NEW k \in 1..N PROVE Nth(S, k) \in S /\ Rank(S, Nth(S, k)) = k - 1
    OBVIOUS
  <2>1. \E p \in S : Cardinality({q \in S : q < p}) = k - 1
    BY <1>10 DEF Rank
  <2> QED BY <2>1 DEF Nth, Rank
<1> QED BY <1>2, <1>4, <1>7, <1>11 DEF N

\* Nth counts them through, each once.
LEMMA Counts ==
  ASSUME NEW S \in SUBSET Int, IsFiniteSet(S)
  PROVE  /\ \A k \in 1..Cardinality(S) : Nth(S, k) \in S
         /\ \A j, k \in 1..Cardinality(S) : Nth(S, j) = Nth(S, k) => j = k
         /\ \A p \in S : \E k \in 1..Cardinality(S) : Nth(S, k) = p
<1>1. Cardinality(S) \in Nat
  BY Ranks
<1>2. \A k \in 1..Cardinality(S) : Nth(S, k) \in S /\ Rank(S, Nth(S, k)) = k - 1
  BY Ranks
<1>3. \A j, k \in 1..Cardinality(S) : Nth(S, j) = Nth(S, k) => j = k
  <2> SUFFICES ASSUME NEW j \in 1..Cardinality(S), NEW k \in 1..Cardinality(S), Nth(S, j) = Nth(S, k)
               PROVE  j = k
    OBVIOUS
  <2>1. j - 1 = k - 1 /\ j \in Int /\ k \in Int
    BY <1>1, <1>2
  <2> QED BY <2>1
<1>4. \A p \in S : \E k \in 1..Cardinality(S) : Nth(S, k) = p
  <2> SUFFICES ASSUME NEW p \in S PROVE \E k \in 1..Cardinality(S) : Nth(S, k) = p
    OBVIOUS
  <2> DEFINE k == Rank(S, p) + 1
  <2>1. Rank(S, p) \in 0..(Cardinality(S) - 1)
    BY Ranks
  <2>2. k \in 1..Cardinality(S) /\ k - 1 = Rank(S, p)
    BY <1>1, <2>1
  <2>3. Nth(S, k) \in S /\ Rank(S, Nth(S, k)) = Rank(S, p)
    BY <1>2, <2>2
  <2>4. \A a, b \in S : Rank(S, a) = Rank(S, b) => a = b
    BY Ranks
  <2>5. Nth(S, k) = p
    BY <2>3, <2>4
  <2> QED BY <2>2, <2>5
<1> QED BY <1>2, <1>3, <1>4

\* Every finite set of numbers has a least one.
LEMMA Least ==
  ASSUME NEW S \in SUBSET Int, IsFiniteSet(S), S # {}
  PROVE  \E m \in S : Rank(S, m) = 0 /\ \A x \in S : m <= x
<1>1. Cardinality(S) \in Nat /\ Cardinality(S) # 0
  BY FS_CardinalityType, FS_EmptySet
<1>2. 1 \in 1..Cardinality(S)
  BY <1>1
<1> DEFINE m == Nth(S, 1)
<1>3. m \in S /\ Rank(S, m) = 0
  BY <1>2, Ranks
<1>4. {q \in S : q < m} = {}
  <2>1. {q \in S : q < m} \in SUBSET S
    OBVIOUS
  <2>2. IsFiniteSet({q \in S : q < m})
    BY <2>1, FS_Subset
  <2> QED BY <1>3, <2>2, FS_EmptySet DEF Rank
<1>5. \A x \in S : m <= x
  <2> HIDE DEF m
  <2> QED BY <1>3, <1>4
<1> QED BY <1>3, <1>5

-------------------------------------------------------------------------------
(* Pages that are taken, and blocks that are released, with interrupts off  *)

\* A block of one page.
LEMMA OfSingle ==
  ASSUME NEW p \in Page
  PROVE  PagesOf(Single(p)) = {p} /\ Single(p) \in Block /\ Single(p).addr = p /\ Single(p).size = 1
<1>1. p \in Int /\ 0 <= p /\ p < NPages /\ NPages \in Nat
  BY PagesAssumption DEF Page
<1>2. p..(p + 1 - 1) = {p}
  BY <1>1
<1>3. 1 \in 0..NPages
  BY <1>1
<1> QED BY <1>2, <1>3 DEF PagesOf, Single, Block

\* There are finitely many pages.
LEMMA PagesFinite == IsFiniteSet(Page) /\ Page \subseteq Int
BY PagesAssumption, FS_Interval DEF Page

\* The n lowest pages that are not used.
LEMMA LowestUnused ==
  ASSUME NEW n
  PROVE  /\ Lowest(n) \in SUBSET Int /\ IsFiniteSet(Lowest(n))
         /\ \A x \in Lowest(n) : x \in Page /\ x \notin used
<1>1. Lowest(n) \in SUBSET Page /\ \A x \in Lowest(n) : x \in Page /\ x \notin used
  BY DEF Lowest, Unused
<1>2. IsFiniteSet(Lowest(n))
  BY <1>1, PagesFinite, FS_Subset
<1> QED BY <1>1, <1>2, PagesFinite

\* The entries of the list that freemem() leaves.
LEMMA StayingSet ==
  ASSUME MemInv, NEW A
  PROVE  /\ Staying(A) \in SUBSET Int /\ IsFiniteSet(Staying(A))
         /\ Cardinality(Staying(A)) \in 0..alp
<1>1. alp \in 0..NList
  BY DEF MemInv, TypeOK
<1>2. alp \in Nat
  BY <1>1, ListAssumption
<1>3. IsFiniteSet(0..(alp - 1)) /\ Cardinality(0..(alp - 1)) = alp
  BY <1>2, FS_Interval
<1>4. Staying(A) \in SUBSET (0..(alp - 1))
  BY DEF Staying
<1>5. IsFiniteSet(Staying(A)) /\ Cardinality(Staying(A)) <= Cardinality(0..(alp - 1))
  BY <1>3, <1>4, FS_Subset
<1>6. Cardinality(Staying(A)) \in Nat
  BY <1>5, FS_CardinalityType
<1>7. Staying(A) \in SUBSET Int
  BY <1>2, <1>4
<1> QED BY <1>2, <1>3, <1>5, <1>6, <1>7

\* Taking n single pages at once keeps the invariant of Memory.
LEMMA TakeMem ==
  ASSUME MemInv, \A q \in Procs : pc[q] = "out",
         NEW t \in Procs, NEW n \in Nat, Take(t, n), UNCHANGED inFreemem
  PROVE  MemInv'
<1> DEFINE S == Lowest(n)
           nth(k) == Nth(S, k - alp + 1)
<1>1. /\ Cardinality(S) = n /\ alp + n <= NList
      /\ used' = used \cup S
      /\ al' = [k \in DOMAIN al |-> IF k \in alp..(alp + n - 1) THEN Single(nth(k)) ELSE al[k]]
      /\ alp' = alp + n
      /\ held' = [held EXCEPT ![t] = @ \cup Singles(S)]
      /\ UNCHANGED <<freeing, pc, i, blk, reg, halted>>
  BY DEF Take, inFreemem, locals
<1>2. TypeOK /\ Alone /\ (\A q \in Procs : Frees(q)) /\ Apart /\ Bits /\ List
  BY DEF MemInv
<1>3. /\ S \in SUBSET Int /\ IsFiniteSet(S)
      /\ \A x \in S : x \in Page /\ x \notin used
  BY LowestUnused
<1>4. alp \in Nat /\ NList \in Nat /\ n \in Nat /\ alp + n \in 0..NList
  <2>1. alp \in Nat /\ NList \in Nat
    BY <1>2, ListAssumption DEF TypeOK
  <2> QED BY <1>1, <2>1
<1> HIDE DEF S
<1>5. /\ \A k \in 1..n : Nth(S, k) \in S
      /\ \A j, k \in 1..n : Nth(S, j) = Nth(S, k) => j = k
      /\ \A x \in S : \E k \in 1..n : Nth(S, k) = x
  BY <1>1, <1>3, Counts
<1>6. /\ \A k \in alp..(alp + n - 1) : nth(k) \in S
      /\ \A j, k \in alp..(alp + n - 1) : nth(j) = nth(k) => j = k
      /\ \A x \in S : \E k \in alp..(alp + n - 1) : nth(k) = x
  <2>1. ASSUME NEW k \in alp..(alp + n - 1) PROVE k - alp + 1 \in 1..n /\ k \in Int
    BY <1>4
  <2>2. ASSUME NEW j \in alp..(alp + n - 1), NEW k \in alp..(alp + n - 1), nth(j) = nth(k) PROVE j = k
    <3>1. j - alp + 1 = k - alp + 1
      BY <1>5, <2>1, <2>2
    <3> QED BY <1>4, <2>1, <3>1
  <2>3. ASSUME NEW x \in S PROVE \E k \in alp..(alp + n - 1) : nth(k) = x
    <3>1. PICK m \in 1..n : Nth(S, m) = x
      BY <1>5
    <3>2. m + alp - 1 \in alp..(alp + n - 1) /\ (m + alp - 1) - alp + 1 = m
      BY <1>4
    <3> QED BY <3>1, <3>2
  <2> QED BY <1>5, <2>1, <2>2, <2>3
<1> HIDE DEF nth
<1>7. /\ \A x \in S : /\ PagesOf(Single(x)) = {x} /\ Single(x) \in Block
                       /\ Single(x).addr = x /\ Single(x).size = 1
  BY <1>3, OfSingle
<1>8. \A x \in S : Good(Single(x))
  <2> SUFFICES ASSUME NEW x \in S PROVE Good(Single(x))
    OBVIOUS
  <2>1. x \notin Reserved /\ x \in Page
    BY <1>2, <1>3 DEF Bits
  <2>2. x + 1 <= NPages
    BY <2>1, PagesAssumption DEF Page
  <2> QED BY <1>7, <2>1, <2>2 DEF Good
<1>9. \A q \in Procs : \A c \in held[q] : Good(c) /\ c # NoBlock /\ \A x \in PagesOf(c) : x \in used
  BY HeldGood
<1>10. /\ \A q \in Procs : held'[q] = IF q = t THEN held[t] \cup Singles(S) ELSE held[q]
       /\ \A q \in Procs : pc'[q] = "out" /\ freeing[q] = NoBlock /\ freeing'[q] = NoBlock
  BY <1>1, <1>2, AllOut DEF TypeOK
<1>11. \A c : c \in Singles(S) <=> \E x \in S : c = Single(x)
  BY DEF Singles
<1>12. \A k \in 0..(alp - 1) : al'[k] = al[k]
  BY <1>1, <1>2, <1>4 DEF TypeOK
<1>13. \A k \in alp..(alp + n - 1) : al'[k] = Single(nth(k))
  BY <1>1, <1>2, <1>4 DEF TypeOK
<1>14. TypeOK'
  <2>1. used' \in SUBSET Page
    BY <1>1, <1>2, <1>3 DEF TypeOK
  <2>2. al' \in [0..(NList - 1) -> Block]
    BY <1>1, <1>2, <1>6, <1>7 DEF TypeOK
  <2>3. held' \in [Procs -> SUBSET Block]
    <3>1. Singles(S) \subseteq Block
      BY <1>7, <1>11
    <3> QED BY <1>1, <1>2, <3>1 DEF TypeOK
  <2> QED BY <1>1, <1>2, <1>4, <2>1, <2>2, <2>3 DEF TypeOK
<1>15. Alone' /\ \A q \in Procs : Frees(q)'
  BY <1>10 DEF Alone, Frees
<1>16. \A q \in Procs : \A c : Owns(q, c)' <=> c \in held[q] \/ (q = t /\ c \in Singles(S))
  BY <1>10 DEF Owns
<1>17. Apart'
  <2>1. \A q \in Procs : freeing'[q] \notin held'[q]
    <3>1. NoBlock \notin Singles(S)
      BY <1>8, <1>11, OfGood
    <3> QED BY <1>9, <1>10, <3>1
  <2>2. \A q \in Procs : \A c \in Block : Owns(q, c)' => Good(c)
    BY <1>8, <1>9, <1>11, <1>16
  <2>3. ASSUME NEW q \in Procs, NEW r \in Procs, NEW c \in Block, NEW d \in Block, NEW x \in Page,
               Owns(q, c)', Owns(r, d)', x \in PagesOf(c), x \in PagesOf(d)
        PROVE  q = r /\ c = d
    <3>1. CASE c \in held[q] /\ d \in held[r]
      BY <1>2, <2>3, <3>1 DEF Apart, Owns
    <3>2. CASE (c \in held[q] /\ d \in Singles(S)) \/ (d \in held[r] /\ c \in Singles(S))
      BY <1>3, <1>7, <1>9, <1>11, <2>3, <3>2
    <3>3. CASE q = t /\ c \in Singles(S) /\ r = t /\ d \in Singles(S)
      BY <1>7, <1>11, <2>3, <3>3
    <3> QED BY <1>16, <2>3, <3>1, <3>2, <3>3
  <2> QED BY <2>1, <2>2, <2>3 DEF Apart, Good
<1>18. Bits'
  <2>1. \A q \in Procs : \A x : Set(q, x) <=> \E c \in held[q] : x \in PagesOf(c)
    BY <1>10, NoPages DEF Set
  <2>2. \A q \in Procs : \A x : Set(q, x)' <=> \E c \in held'[q] : x \in PagesOf(c)
    BY <1>10, NoPages DEF Set
  <2>3. \A q \in Procs : \A x : Set(q, x)' <=> Set(q, x) \/ (q = t /\ x \in S)
    BY <1>7, <1>10, <1>11, <2>1, <2>2
  <2> QED BY <1>1, <1>2, <2>3 DEF Bits
<1>19. List'
  <2>1. Entries = 0..(alp - 1) /\ Entries' = 0..(alp + n - 1)
    <3>1. Entries' = 0..(alp' - 1)
      BY <1>10 DEF Entries
    <3>2. Entries = 0..(alp - 1)
      BY AllOut
    <3>3. alp' = alp + n
      BY <1>1
    <3>4. alp' - 1 = alp + n - 1
      BY <1>4, <3>3
    <3> QED BY <3>1, <3>2, <3>4
  <2>2. \A c : Entered(c)' <=> Entered(c) \/ c \in Singles(S)
    BY <1>1, <1>10 DEF Entered
  <2>3. \A k \in Entries' : k \in Entries \/ k \in alp..(alp + n - 1)
    BY <1>4, <2>1
  <2>4. /\ \A k \in Entries : al'[k] = al[k] /\ k \in Entries'
        /\ \A k \in alp..(alp + n - 1) : al'[k] = Single(nth(k)) /\ nth(k) \in S /\ k \in Entries'
    BY <1>4, <1>6, <1>12, <1>13, <2>1
  <2>5. \A k \in Entries' : Entered(al[k])'
    <3> SUFFICES ASSUME NEW k \in Entries' PROVE \E q \in Procs : al'[k] \in held'[q]
      BY DEF Entered
    <3>1. CASE k \in Entries
      <4>1. PICK q \in Procs : al[k] \in held[q]
        BY <1>2, <1>10, <3>1 DEF List, Entered
      <4> QED BY <1>10, <2>4, <3>1, <4>1
    <3>2. CASE k \in alp..(alp + n - 1)
      BY <1>10, <1>11, <2>4, <3>2
    <3> QED BY <2>3, <3>1, <3>2
  <2>6. \A c \in Block : Entered(c)' => \E k \in Entries' : al'[k] = c
    <3> SUFFICES ASSUME NEW c \in Block, Entered(c) \/ c \in Singles(S) PROVE \E k \in Entries' : al'[k] = c
      BY <2>2
    <3>1. CASE Entered(c)
      BY <1>2, <2>4, <3>1 DEF List
    <3>2. CASE c \in Singles(S)
      BY <1>6, <1>11, <2>4, <3>2
    <3> QED BY <3>1, <3>2
  <2>7. \A k \in Entries : al[k].addr \in used
    <3> SUFFICES ASSUME NEW k \in Entries PROVE al[k].addr \in used
      OBVIOUS
    <3>1. PICK q \in Procs : al[k] \in held[q]
      BY <1>2, <1>10 DEF List, Entered
    <3> QED BY <3>1, HeldGood
  <2>8. \A j, k \in Entries' : al'[j].addr = al'[k].addr => j = k
    <3> SUFFICES ASSUME NEW j \in Entries', NEW k \in Entries', al'[j].addr = al'[k].addr PROVE j = k
      OBVIOUS
    <3>1. CASE j \in Entries /\ k \in Entries
      BY <1>2, <2>4, <3>1 DEF List
    <3>2. \A m \in alp..(alp + n - 1) : al'[m].addr \notin used
      <4> SUFFICES ASSUME NEW m \in alp..(alp + n - 1) PROVE al'[m].addr \notin used
        OBVIOUS
      <4>1. al'[m] = Single(nth(m)) /\ nth(m) \in S
        BY <2>4
      <4>2. al'[m].addr = nth(m) /\ nth(m) \notin used
        BY <1>3, <1>7, <4>1
      <4> QED BY <4>2
    <3>3. \A m \in Entries : al'[m].addr \in used
      BY <2>4, <2>7
    <3>4. CASE j \in alp..(alp + n - 1) /\ k \in Entries
      <4>1. al'[j].addr \notin used /\ al'[k].addr \in used
        BY <3>2, <3>3, <3>4
      <4> QED BY <4>1
    <3>5. CASE j \in Entries /\ k \in alp..(alp + n - 1)
      <4>1. al'[k].addr \notin used /\ al'[j].addr \in used
        BY <3>2, <3>3, <3>5
      <4> QED BY <4>1
    <3>6. CASE j \in alp..(alp + n - 1) /\ k \in alp..(alp + n - 1)
      <4>1. nth(j) = nth(k)
        BY <1>7, <2>4, <3>6
      <4> QED BY <1>6, <3>6, <4>1
    <3> QED BY <2>3, <3>1, <3>4, <3>5, <3>6
  <2> QED BY <2>5, <2>6, <2>8 DEF List
<1> QED BY <1>14, <1>15, <1>17, <1>18, <1>19 DEF MemInv
\* What freemem() is given: A has the addresses of the blocks H of t, and of no other.
LEMMA ReleaseMem ==
  ASSUME MemInv, \A q \in Procs : pc[q] = "out", NEW t \in Procs, NEW A, NEW H,
         H \subseteq held[t], Released(A) = H, Release(A),
         held' = [held EXCEPT ![t] = @ \ H], UNCHANGED inFreemem
  PROVE  MemInv'
<1> DEFINE S == Staying(A)
           n == Cardinality(S)
           nth(k) == Nth(S, k + 1)
<1>1. /\ used' = used \ UNION {PagesOf(x) : x \in H}
      /\ al' = [k \in DOMAIN al |-> IF k < n THEN al[nth(k)] ELSE NoBlock]
      /\ alp' = n
      /\ UNCHANGED <<freeing, pc, i, blk, reg, halted>>
  BY DEF Release, inFreemem, locals
<1>2. TypeOK /\ Alone /\ (\A q \in Procs : Frees(q)) /\ Apart /\ Bits /\ List
  BY DEF MemInv
<1>3. S \in SUBSET Int /\ IsFiniteSet(S) /\ n \in 0..alp
  BY StayingSet
<1>4. alp \in Nat /\ NList \in Nat /\ n \in Nat /\ n <= alp /\ alp <= NList
  <2>1. alp \in 0..NList /\ NList \in Nat
    BY <1>2, ListAssumption DEF TypeOK
  <2> HIDE DEF n
  <2> QED BY <1>3, <2>1
<1>5. /\ \A k \in 1..n : Nth(S, k) \in S
      /\ \A j, k \in 1..n : Nth(S, j) = Nth(S, k) => j = k
      /\ \A x \in S : \E k \in 1..n : Nth(S, k) = x
  BY <1>3, Counts
<1>6. \A k \in S : k \in 0..(alp - 1) /\ al[k] \notin H
  <2> SUFFICES ASSUME NEW k \in S PROVE k \in 0..(alp - 1) /\ al[k] \notin H
    OBVIOUS
  <2>1. k \in 0..(alp - 1) /\ al[k].addr \notin A
    BY DEF Staying
  <2> QED BY <2>1 DEF Released
<1>7. \A k \in 0..(alp - 1) : al[k] \notin H => k \in S
  BY DEF Staying, Released
<1> HIDE DEF S, n
<1>8. /\ \A k \in 0..(n - 1) : nth(k) \in S
      /\ \A j, k \in 0..(n - 1) : nth(j) = nth(k) => j = k
      /\ \A x \in S : \E k \in 0..(n - 1) : nth(k) = x
  <2>1. ASSUME NEW k \in 0..(n - 1) PROVE k + 1 \in 1..n /\ k \in Int
    BY <1>4
  <2>2. ASSUME NEW j \in 0..(n - 1), NEW k \in 0..(n - 1), nth(j) = nth(k) PROVE j = k
    <3>1. j + 1 = k + 1
      BY <1>5, <2>1, <2>2
    <3> QED BY <1>4, <2>1, <3>1
  <2>3. ASSUME NEW x \in S PROVE \E k \in 0..(n - 1) : nth(k) = x
    <3>1. PICK m \in 1..n : Nth(S, m) = x
      BY <1>5
    <3>2. m - 1 \in 0..(n - 1) /\ (m - 1) + 1 = m
      BY <1>4
    <3> QED BY <3>1, <3>2
  <2> QED BY <1>5, <2>1, <2>2, <2>3
<1> HIDE DEF nth
<1>9. /\ \A q \in Procs : held'[q] = IF q = t THEN held[t] \ H ELSE held[q]
      /\ \A q \in Procs : pc'[q] = "out" /\ freeing[q] = NoBlock /\ freeing'[q] = NoBlock
  BY <1>1, <1>2, AllOut DEF TypeOK
<1>10. \A k \in 0..(n - 1) : al'[k] = al[nth(k)]
  BY <1>1, <1>2, <1>4 DEF TypeOK
<1>11. \A q \in Procs, r \in Procs : \A c \in held[q], d \in held[r] : \A x :
         x \in PagesOf(c) /\ x \in PagesOf(d) => q = r /\ c = d
  <2> SUFFICES ASSUME NEW q \in Procs, NEW r \in Procs, NEW c \in held[q], NEW d \in held[r], NEW x,
                      x \in PagesOf(c), x \in PagesOf(d)
               PROVE  q = r /\ c = d
    OBVIOUS
  <2>1. c \in Block /\ d \in Block /\ x \in Page
    BY HeldGood
  <2> QED BY <1>2, <2>1 DEF Apart, Owns
<1>12. \A q \in Procs : \A c \in held[q] : c \in H => q = t
  <2> SUFFICES ASSUME NEW q \in Procs, NEW c \in held[q], c \in H PROVE q = t
    OBVIOUS
  <2>1. c \in held[t] /\ c.addr \in PagesOf(c)
    BY HeldGood
  <2> QED BY <1>11, <2>1
<1>13. \A q \in Procs : \A c : c \in held'[q] <=> c \in held[q] /\ c \notin H
  BY <1>9, <1>12
<1>14. TypeOK'
  <2>1. used' \in SUBSET Page
    BY <1>1, <1>2 DEF TypeOK
  <2>2. al' \in [0..(NList - 1) -> Block]
    <3>1. \A k \in 0..(NList - 1) : k < n => al[nth(k)] \in Block
      <4> SUFFICES ASSUME NEW k \in 0..(NList - 1), k < n PROVE al[nth(k)] \in Block
        OBVIOUS
      <4>1. k \in 0..(n - 1)
        BY <1>4
      <4>2. nth(k) \in 0..(alp - 1)
        BY <1>6, <1>8, <4>1
      <4>3. nth(k) \in 0..(NList - 1)
        BY <1>4, <4>2
      <4> QED BY <1>2, <4>3 DEF TypeOK
    <3> QED BY <1>1, <1>2, <3>1, NoPages DEF TypeOK
  <2>3. held' \in [Procs -> SUBSET Block]
    BY <1>2 DEF TypeOK
  <2>4. alp' \in 0..NList
    BY <1>1, <1>4
  <2> QED BY <1>1, <1>2, <2>1, <2>2, <2>3, <2>4 DEF TypeOK
<1>15. Alone' /\ \A q \in Procs : Frees(q)'
  BY <1>9 DEF Alone, Frees
<1>16. \A q \in Procs : \A c : Owns(q, c)' => Owns(q, c)
  BY <1>9, <1>13 DEF Owns
<1>17. Apart'
  <2>1. \A q \in Procs : freeing'[q] \notin held'[q]
    BY <1>2, <1>9, <1>13 DEF Apart
  <2> QED BY <1>2, <1>16, <2>1 DEF Apart, Good
<1>18. Bits'
  <2>1. \A q \in Procs : \A x : Set(q, x) <=> \E c \in held[q] : x \in PagesOf(c)
    BY <1>9, NoPages DEF Set
  <2>2. \A q \in Procs : \A x : Set(q, x)' <=> \E c \in held'[q] : x \in PagesOf(c)
    BY <1>9, NoPages DEF Set
  <2> DEFINE Gone(x) == \E c \in H : x \in PagesOf(c)
  <2>3. \A x \in Page : x \in used' <=> x \in used /\ ~Gone(x)
    BY <1>1
  <2>4. \A x \in Page : Gone(x) => x \notin Reserved
    BY HeldGood
  <2>5. \A q \in Procs : \A x \in Page : Set(q, x)' <=> Set(q, x) /\ ~Gone(x)
    <3> SUFFICES ASSUME NEW q \in Procs, NEW x \in Page PROVE Set(q, x)' <=> Set(q, x) /\ ~Gone(x)
      OBVIOUS
    <3>1. ASSUME Set(q, x)' PROVE Set(q, x) /\ ~Gone(x)
      <4>1. PICK c \in held[q] : x \in PagesOf(c) /\ c \notin H
        BY <1>13, <2>2, <3>1
      <4> QED BY <1>11, <2>1, <4>1
    <3>2. ASSUME Set(q, x), ~Gone(x) PROVE Set(q, x)'
      BY <1>13, <2>1, <2>2, <3>2
    <3> QED BY <3>1, <3>2
  <2> HIDE DEF Gone
  <2> QED BY <1>2, <2>3, <2>4, <2>5 DEF Bits
<1>19. List'
  <2>1. Entries = 0..(alp - 1) /\ Entries' = 0..(n - 1)
    <3>1. Entries' = 0..(alp' - 1)
      BY <1>9 DEF Entries
    <3>2. Entries = 0..(alp - 1)
      BY AllOut
    <3> QED BY <1>1, <3>1, <3>2
  <2>2. \A c : Entered(c)' <=> Entered(c) /\ c \notin H
    BY <1>1, <1>9, <1>13 DEF Entered
  <2>3. \A k \in Entries' : nth(k) \in S /\ nth(k) \in Entries /\ al'[k] = al[nth(k)] /\ al[nth(k)] \notin H
    BY <1>6, <1>8, <1>10, <2>1
  <2>4. \A k \in Entries' : Entered(al[k])'
    <3> SUFFICES ASSUME NEW k \in Entries' PROVE \E q \in Procs : al'[k] \in held'[q]
      BY DEF Entered
    <3>1. PICK q \in Procs : al[nth(k)] \in held[q]
      BY <1>2, <1>9, <2>3 DEF List, Entered
    <3> QED BY <1>13, <2>3, <3>1
  <2>5. \A c \in Block : Entered(c)' => \E k \in Entries' : al'[k] = c
    <3> SUFFICES ASSUME NEW c \in Block, Entered(c), c \notin H PROVE \E k \in Entries' : al'[k] = c
      BY <2>2
    <3>1. PICK m \in Entries : al[m] = c
      BY <1>2 DEF List
    <3>2. m \in S
      BY <1>7, <2>1, <3>1
    <3> QED BY <1>8, <2>1, <2>3, <3>1, <3>2
  <2>6. \A j, k \in Entries' : al'[j].addr = al'[k].addr => j = k
    <3> SUFFICES ASSUME NEW j \in Entries', NEW k \in Entries', al'[j].addr = al'[k].addr PROVE j = k
      OBVIOUS
    <3>1. nth(j) = nth(k)
      BY <1>2, <2>3 DEF List
    <3> QED BY <1>8, <2>1, <3>1
  <2> QED BY <2>4, <2>5, <2>6 DEF List
<1> QED BY <1>14, <1>15, <1>17, <1>18, <1>19 DEF MemInv
-------------------------------------------------------------------------------
(* Applications: the inductive invariant                                    *)

\* What an application keeps for ever is its terminal's all the same.
Keeps == \A t \in Procs : kept[t] \subseteq held[t]

\* All else that t has since its application began, exit will find.
Finds(t) == \A b \in held[t] \ kept[t] : b.addr \in Listed(t) \cup tables[t] \cup {isp[t]}
Listing == \A t \in Procs : mode[t] # "shell" => Finds(t)

\* The one application there is has the stack of the task state.
Stacks(t) == isp[t] = rsp0 /\ Single(rsp0) \in held[t] \ kept[t]
Saved(t) == frame[t] = rsp0 /\ top[rsp0] = {t}
Framing == /\ slip # "stack"
           /\ \A t, o \in Procs : mode[t] # "shell" /\ mode[o] # "shell" => t = o
           /\ \A t \in Procs : mode[t] # "shell" => Stacks(t)
           /\ \A t \in Procs : mode[t] \notin {"shell", "on"} => Saved(t)

\* findfile() has the page of the name, which its application's end would leave.
Naming == \A t \in Procs : mode[t] = "find" => Single(opened[t]) \in kept[t]

Out == \A t \in Procs : pc[t] = "out"

Held == AppsTypeOK /\ MemInv /\ Out /\ Keeps /\ Naming /\ Listing /\ (~together => Framing)
AInv == slip \notin {"stray", "stale", "large"} => Held

-------------------------------------------------------------------------------
LEMMA SameBlock ==
  ASSUME MemInv, NEW q \in Procs, NEW r \in Procs, NEW c \in held[q], NEW d \in held[r], c.addr = d.addr
  PROVE  q = r /\ c = d
<1>1. c \in Block /\ d \in Block /\ c.addr \in PagesOf(c) /\ d.addr \in PagesOf(d) /\ c.addr \in Page
  BY HeldGood
<1> QED BY <1>1 DEF MemInv, Apart, Owns

\* The list has all that is held, and nothing else.
LEMMA ReleasedIs ==
  ASSUME MemInv, Out, NEW A
  PROVE  \A c : c \in Released(A) <=> c.addr \in A /\ \E q \in Procs : c \in held[q]
<1>1. /\ Entries = 0..(alp - 1)
      /\ \A b : Entered(b) <=> \E q \in Procs : b \in held[q]
  BY AllOut DEF Out
<1>2. List /\ \A q \in Procs : held[q] \subseteq Block
  BY DEF MemInv, TypeOK
<1>3. ASSUME NEW c \in Released(A) PROVE c.addr \in A /\ \E q \in Procs : c \in held[q]
  <2>1. PICK k \in 0..(alp - 1) : c = al[k] /\ al[k].addr \in A
    BY DEF Released
  <2> QED BY <1>1, <1>2, <2>1 DEF List
<1>4. ASSUME NEW c, c.addr \in A, NEW q \in Procs, c \in held[q] PROVE c \in Released(A)
  <2>1. PICK k \in Entries : al[k] = c
    BY <1>1, <1>2, <1>4 DEF List
  <2> QED BY <1>1, <1>4, <2>1 DEF Released
<1> QED BY <1>3, <1>4

\* Pages that are taken were nobody's.
LEMMA TakenNew ==
  ASSUME MemInv, NEW n, NEW x \in Lowest(n), NEW q \in Procs
  PROVE  Single(x) \notin held[q]
<1>1. x \in Page /\ x \notin used
  BY LowestUnused
<1>2. PagesOf(Single(x)) = {x}
  BY <1>1, OfSingle
<1> QED BY <1>1, <1>2, HeldGood

\* The blocks of the single pages of a set.
LEMMA InSingles ==
  ASSUME NEW S
  PROVE  \A c : c \in Singles(S) <=> \E x \in S : c = Single(x)
BY DEF Singles

\* A terminal that starts an application.
LEMMA StartApp ==
  ASSUME Held, NEW t \in Procs, NEW r \in Large, Start(t, r)
  PROVE  AInv'
<1> DEFINE n == NKept + NTables + 1
           S == Lowest(n)
           K == {Nth(S, k) : k \in 1..NKept}
           T == {Nth(S, k) : k \in (NKept + 1)..(n - 1)}
           z == Nth(S, n)
<1>1. /\ AppsTypeOK /\ MemInv /\ Out /\ Keeps /\ Naming /\ Listing /\ (~together => Framing)
      /\ TypeOK
  BY DEF Held, AppsTypeOK
<1>2. /\ slip = "" /\ mode[t] = "shell"
      /\ runs' = runs + 1 /\ runs < MaxRuns
      /\ Take(t, n)
      /\ kept' = [kept EXCEPT ![t] = held[t] \cup Singles(K)]
      /\ tables' = [tables EXCEPT ![t] = T]
      /\ isp' = [isp EXCEPT ![t] = z]
      /\ rsp0' = z
      /\ whole' = [whole EXCEPT ![t] = Large \ {r}]
      /\ list' = [list EXCEPT ![t] = <<>>]
      /\ mode' = [mode EXCEPT ![t] = "on"]
      /\ together' = (together \/ \E o \in Procs : mode[o] # "shell")
      /\ UNCHANGED <<inFreemem, opened, top, frame, slip>>
  BY DEF Start, Turn, SetStack
<1>3. NKept \in Nat /\ NTables \in Nat /\ n \in Nat /\ n > NKept
  BY AppsAssumption
<1>4. /\ S \in SUBSET Int /\ IsFiniteSet(S)
      /\ \A x \in S : x \in Page /\ x \notin used
  BY LowestUnused
<1>5. /\ Cardinality(S) = n /\ held' = [held EXCEPT ![t] = @ \cup Singles(S)]
  BY <1>2 DEF Take
<1>6. MemInv'
  BY <1>1, <1>2, <1>3, TakeMem DEF Out
<1>7. Out'
  BY <1>1, <1>2 DEF Out, inFreemem
<1> HIDE DEF S
<1>8. /\ \A k \in 1..n : Nth(S, k) \in S
      /\ \A j, k \in 1..n : Nth(S, j) = Nth(S, k) => j = k
      /\ \A x \in S : \E k \in 1..n : Nth(S, k) = x
  BY <1>4, <1>5, Counts
<1>9. K \subseteq S /\ T \subseteq S /\ z \in S /\ z \notin K /\ \A x \in S : x \in K \/ x \in T \/ x = z
  <2>1. \A k \in 1..NKept : k \in 1..n /\ k # n
    BY <1>3
  <2>2. \A k \in (NKept + 1)..(n - 1) : k \in 1..n
    BY <1>3
  <2>3. n \in 1..n
    BY <1>3
  <2>4. \A k \in 1..n : k \in 1..NKept \/ k \in (NKept + 1)..(n - 1) \/ k = n
    BY <1>3
  <2> HIDE DEF n
  <2>5. K \subseteq S
    BY <1>8, <2>1
  <2>6. T \subseteq S
    BY <1>8, <2>2
  <2>7. z \in S
    BY <1>8, <2>3
  <2>8. z \notin K
    BY <1>8, <2>1, <2>3
  <2>9. ASSUME NEW x \in S PROVE x \in K \/ x \in T \/ x = z
    <3>1. PICK k \in 1..n : Nth(S, k) = x
      BY <1>8
    <3> QED BY <2>4, <3>1
  <2> QED BY <2>5, <2>6, <2>7, <2>8, <2>9
<1> HIDE DEF n, K, T, z
<1>10. \A q \in Procs : \A x \in S : Single(x) \notin held[q]
  BY <1>1, TakenNew DEF S
<1>11. \A x \in S : Single(x).addr = x
  BY <1>4, OfSingle
<1>12. /\ \A c : c \in Singles(S) <=> \E x \in S : c = Single(x)
       /\ \A c : c \in Singles(K) <=> \E x \in K : c = Single(x)
  BY InSingles
<1>13. /\ held'[t] = held[t] \cup Singles(S) /\ kept'[t] = held[t] \cup Singles(K) /\ tables'[t] = T
       /\ isp'[t] = z /\ mode'[t] = "on" /\ list'[t] = <<>>
       /\ \A q \in Procs \ {t} : /\ held'[q] = held[q] /\ kept'[q] = kept[q] /\ tables'[q] = tables[q]
                                 /\ isp'[q] = isp[q] /\ mode'[q] = mode[q] /\ list'[q] = list[q]
  BY <1>1, <1>2, <1>5 DEF AppsTypeOK, TypeOK
<1>14. AppsTypeOK'
  <2>1. TypeOK' /\ kept' \in [Procs -> SUBSET Block]
    <3>1. \A x \in K : Single(x) \in Block
      BY <1>4, <1>9, OfSingle
    <3>2. held[t] \cup Singles(K) \in SUBSET Block
      BY <1>1, <1>12, <3>1 DEF TypeOK
    <3> QED BY <1>1, <1>2, <1>6, <3>2 DEF MemInv, AppsTypeOK
  <2>2. T \in SUBSET Page /\ z \in Page
    BY <1>4, <1>9
  <2>3. tables' \in [Procs -> SUBSET Page] /\ isp' \in [Procs -> Page] /\ rsp0' \in Page
    BY <1>1, <1>2, <2>2 DEF AppsTypeOK
  <2>4. whole' \in [Procs -> SUBSET Large] /\ list' \in [Procs -> Seq(Page)]
    <3>1. whole' \in [Procs -> SUBSET Large]
      BY <1>1, <1>2 DEF AppsTypeOK
    <3>2. <<>> \in Seq(Page)
      OBVIOUS
    <3>3. list \in [Procs -> Seq(Page)]
      BY <1>1 DEF AppsTypeOK
    <3> QED BY <1>2, <3>1, <3>2, <3>3
  <2>5. runs' \in 0..MaxRuns /\ together' \in BOOLEAN
    <3>1. MaxRuns \in Nat /\ runs \in 0..MaxRuns
      BY <1>1, AppsAssumption DEF AppsTypeOK
    <3>2. together' = (together \/ \E o \in Procs : mode[o] # "shell")
      BY <1>2
    <3>3. together' \in BOOLEAN
      <4>1. CASE together \/ \E o \in Procs : mode[o] # "shell"
        <5>1. together' = TRUE
          BY <3>2, <4>1
        <5> QED BY <5>1
      <4>2. CASE ~(together \/ \E o \in Procs : mode[o] # "shell")
        <5>1. together' = FALSE
          BY <3>2, <4>2
        <5> QED BY <5>1
      <4> QED BY <4>1, <4>2
    <3>4. runs' = runs + 1 /\ runs < MaxRuns
      BY <1>2
    <3>5. runs' \in 0..MaxRuns
      BY <3>1, <3>4
    <3> QED BY <3>3, <3>5
  <2>6. mode' \in [Procs -> {"shell", "on", "off", "find", "found", "read"}]
    BY <1>1, <1>2 DEF AppsTypeOK
  <2> QED BY <1>1, <1>2, <2>1, <2>3, <2>4, <2>5, <2>6 DEF AppsTypeOK
<1>15. Keeps'
  <2>1. kept'[t] \subseteq held'[t]
    BY <1>9, <1>12, <1>13
  <2> QED BY <1>1, <1>13, <2>1 DEF Keeps
<1>16. Listing'
  <2>1. Finds(t)'
    <3> SUFFICES ASSUME NEW b \in held'[t] \ kept'[t] PROVE b.addr \in tables'[t] \cup {isp'[t]}
      BY DEF Finds
    <3>1. PICK x \in S : b = Single(x) /\ x \notin K
      BY <1>12, <1>13
    <3> QED BY <1>9, <1>11, <1>13, <3>1
  <2>2. ASSUME NEW q \in Procs \ {t}, mode'[q] # "shell" PROVE Finds(q)'
    <3>1. Finds(q)
      BY <1>1, <1>13, <2>2 DEF Listing
    <3> QED BY <1>13, <3>1 DEF Finds, Listed
  <2> QED BY <2>1, <2>2 DEF Listing
<1>17. ASSUME ~together' PROVE Framing'
  <2>1. \A o \in Procs : mode[o] = "shell"
    BY <1>2, <1>17
  <2>2. \A o \in Procs : mode'[o] # "shell" => o = t
    BY <1>13, <2>1
  <2>3. Single(z) \in held'[t] \ kept'[t]
    <3>1. Single(z) \notin Singles(K)
      <4> SUFFICES ASSUME NEW x \in K, Single(z) = Single(x) PROVE FALSE
        BY <1>12
      <4>1. x = z
        BY <1>9, <1>11
      <4> QED BY <1>9, <4>1
    <3> QED BY <1>9, <1>10, <1>12, <1>13, <3>1
  <2>4. Stacks(t)'
    <3>1. rsp0' = z /\ isp'[t] = z
      BY <1>2, <1>13
    <3> QED BY <2>3, <3>1 DEF Stacks, Single
  <2> QED BY <1>2, <1>13, <2>2, <2>4 DEF Framing
<1>18. Naming'
  <2> SUFFICES ASSUME NEW q \in Procs, mode'[q] = "find" PROVE Single(opened'[q]) \in kept'[q]
    BY DEF Naming, Single
  <2>1. q # t
    BY <1>13
  <2> QED BY <1>1, <1>2, <1>13, <2>1 DEF Naming
<1> QED BY <1>6, <1>7, <1>14, <1>15, <1>16, <1>17, <1>18 DEF AInv, Held

\* malloc(): a block, and perhaps a table.
LEMMA MallocApp ==
  ASSUME Held, NEW t \in Procs, Malloc(t)
  PROVE  AInv'
<1> DEFINE b == Nth(Lowest(1), 1)
           n == IF LargeOf(b) \in whole[t] THEN 2 ELSE 1
           S == Lowest(n)
<1>1. /\ AppsTypeOK /\ MemInv /\ Out /\ Keeps /\ Naming /\ Listing /\ (~together => Framing)
      /\ TypeOK
  BY DEF Held, AppsTypeOK
<1>2. /\ slip = "" /\ mode[t] = "on" /\ Unused # {}
      /\ Take(t, n)
      /\ list' = [list EXCEPT ![t] = Append(@, b)]
      /\ tables' = [tables EXCEPT ![t] = @ \cup (S \ {b})]
      /\ whole' = [whole EXCEPT ![t] = @ \ {LargeOf(b)}]
      /\ UNCHANGED <<inFreemem, mode, opened, isp, stackvars, kept, runs, together, slip>>
  BY DEF Malloc, Calls, Turn
<1>3. n \in {1, 2} /\ n \in Nat
  OBVIOUS
<1>4. /\ S \in SUBSET Int /\ IsFiniteSet(S)
      /\ \A x \in S : x \in Page /\ x \notin used
  BY LowestUnused
<1>5. held' = [held EXCEPT ![t] = @ \cup Singles(S)]
  BY <1>2 DEF Take
<1>6. MemInv'
  BY <1>1, <1>2, <1>3, TakeMem DEF Out
<1>7. Out'
  BY <1>1, <1>2 DEF Out, inFreemem
<1>8. b \in Lowest(1)
  <2>1. Unused \in SUBSET Int /\ IsFiniteSet(Unused)
    <3>1. Unused \in SUBSET Page
      BY DEF Unused
    <3> QED BY <3>1, PagesFinite, FS_Subset
  <2>2. PICK m \in Unused : Rank(Unused, m) = 0
    BY <1>2, <2>1, Least
  <2>3. m \in Lowest(1)
    <3>1. Cardinality({q \in Unused : q < m}) < 1
      BY <2>2 DEF Rank
    <3> QED BY <3>1 DEF Lowest
  <2>4. Lowest(1) \in SUBSET Int /\ IsFiniteSet(Lowest(1))
    BY LowestUnused
  <2>5. Cardinality(Lowest(1)) \in Nat /\ Cardinality(Lowest(1)) # 0
    BY <2>3, <2>4, FS_CardinalityType, FS_EmptySet
  <2>6. 1 \in 1..Cardinality(Lowest(1))
    BY <2>5
  <2> QED BY <2>4, <2>6, Counts
<1>9. b \in S
  <2>1. b \in Unused /\ Cardinality({q \in Unused : q < b}) < 1
    BY <1>8 DEF Lowest
  <2>2. IsFiniteSet({q \in Unused : q < b})
    <3>1. {q \in Unused : q < b} \in SUBSET Page
      BY DEF Unused
    <3> QED BY <3>1, PagesFinite, FS_Subset
  <2>3. Cardinality({q \in Unused : q < b}) \in Nat
    BY <2>2, FS_CardinalityType
  <2> HIDE DEF b, n
  <2>4. Cardinality({q \in Unused : q < b}) < n
    BY <1>3, <2>1, <2>3
  <2> QED BY <2>1, <2>4 DEF Lowest
<1> HIDE DEF b, n, S
<1>10. \A q \in Procs : \A x \in S : Single(x) \notin held[q]
  BY <1>1, TakenNew DEF S
<1>11. \A x \in S : Single(x).addr = x
  BY <1>4, OfSingle
<1>12. \A c : c \in Singles(S) <=> \E x \in S : c = Single(x)
  BY InSingles
<1>13. /\ held'[t] = held[t] \cup Singles(S) /\ tables'[t] = tables[t] \cup (S \ {b})
       /\ list'[t] = Append(list[t], b)
       /\ \A q \in Procs \ {t} : held'[q] = held[q] /\ tables'[q] = tables[q] /\ list'[q] = list[q]
       /\ UNCHANGED <<mode, kept, isp, together, slip>>
  BY <1>1, <1>2, <1>5 DEF AppsTypeOK, TypeOK
<1>14. list[t] \in Seq(Page) /\ Append(list[t], b) \in Seq(Page)
  <2>1. list[t] \in Seq(Page)
    BY <1>1 DEF AppsTypeOK
  <2>2. b \in Page
    BY <1>4, <1>9
  <2> QED BY <2>1, <2>2
<1>15. Listed(t)' = Listed(t) \cup {b}
  <2>1. /\ Len(Append(list[t], b)) = Len(list[t]) + 1 /\ Len(list[t]) \in Nat
        /\ \A k \in 1..Len(list[t]) : Append(list[t], b)[k] = list[t][k]
        /\ Append(list[t], b)[Len(list[t]) + 1] = b
    BY <1>14
  <2>2. Listed(t)' = {Append(list[t], b)[k] : k \in 1..(Len(list[t]) + 1)}
    BY <1>13, <2>1 DEF Listed
  <2>3. \A k \in 1..(Len(list[t]) + 1) : k \in 1..Len(list[t]) \/ k = Len(list[t]) + 1
    BY <2>1
  <2>4. /\ \A k \in 1..Len(list[t]) : k \in 1..(Len(list[t]) + 1)
        /\ Len(list[t]) + 1 \in 1..(Len(list[t]) + 1)
    BY <2>1
  <2> QED BY <2>1, <2>2, <2>3, <2>4 DEF Listed
<1>16. AppsTypeOK'
  <2>1. TypeOK'
    BY <1>6 DEF MemInv
  <2>2. tables' \in [Procs -> SUBSET Page] /\ whole' \in [Procs -> SUBSET Large]
    BY <1>1, <1>2, <1>4 DEF AppsTypeOK
  <2>3. list' \in [Procs -> Seq(Page)]
    BY <1>1, <1>2, <1>14 DEF AppsTypeOK
  <2> QED BY <1>1, <1>2, <2>1, <2>2, <2>3 DEF AppsTypeOK, stackvars
<1>17. \A q \in Procs : held[q] \subseteq held'[q]
  BY <1>13
<1>18. Keeps'
  BY <1>1, <1>13, <1>17 DEF Keeps
<1>19. Listing'
  <2>1. Finds(t)'
    <3> SUFFICES ASSUME NEW c \in held'[t] \ kept[t]
                 PROVE  c.addr \in Listed(t)' \cup tables'[t] \cup {isp[t]}
      BY <1>13 DEF Finds
    <3>1. CASE c \in held[t]
      <4>1. Finds(t)
        BY <1>1, <1>2 DEF Listing
      <4> QED BY <1>13, <1>15, <3>1, <4>1 DEF Finds
    <3>2. CASE c \in Singles(S)
      <4>1. PICK x \in S : c = Single(x)
        BY <1>12, <3>2
      <4> QED BY <1>11, <1>13, <1>15, <4>1
    <3> QED BY <1>13, <3>1, <3>2
  <2>2. ASSUME NEW q \in Procs \ {t}, mode'[q] # "shell" PROVE Finds(q)'
    <3>1. Finds(q)
      BY <1>1, <1>13, <2>2 DEF Listing
    <3> QED BY <1>13, <3>1 DEF Finds, Listed
  <2> QED BY <2>1, <2>2 DEF Listing
<1>20. ASSUME ~together' PROVE Framing'
  <2>1. Framing
    BY <1>1, <1>13, <1>20
  <2>2. UNCHANGED <<mode, kept, isp, slip, rsp0, top, frame>>
    BY <1>2 DEF stackvars
  <2>3. ASSUME NEW q \in Procs, mode[q] # "shell" PROVE Stacks(q)'
    BY <1>17, <2>1, <2>2, <2>3 DEF Framing, Stacks
  <2>4. ASSUME NEW q \in Procs, mode[q] \notin {"shell", "on"} PROVE Saved(q)'
    BY <2>1, <2>2, <2>4 DEF Framing, Saved
  <2> QED BY <2>1, <2>2, <2>3, <2>4 DEF Framing
<1>21. Naming'
  BY <1>1, <1>2 DEF Naming, Single
<1> QED BY <1>6, <1>7, <1>16, <1>18, <1>19, <1>20, <1>21 DEF AInv, Held

\* What the list has after an entry was taken out.
LEMMA ShiftedHas ==
  ASSUME NEW s \in Seq(Page), NEW a, \E j \in 1..Len(s) : s[j] = a
  PROVE  /\ Shifted(s, a) \in Seq(Page) /\ Len(Shifted(s, a)) = Len(s)
         /\ \A k \in 1..Len(s) : s[k] # a => \E m \in 1..Len(s) : Shifted(s, a)[m] = s[k]
<1> DEFINE Those == {k \in 1..Len(s) : s[k] = a}
           i0 == CHOOSE k \in 1..Len(s) : s[k] = a /\ \A l \in 1..(k - 1) : s[l] # a
           u == [k \in 1..Len(s) |-> IF k >= i0 /\ k < Len(s) THEN s[k + 1] ELSE s[k]]
<1>1. Len(s) \in Nat /\ IsFiniteSet(1..Len(s))
  BY FS_Interval
<1>2. Those \in SUBSET Int /\ IsFiniteSet(Those) /\ Those # {}
  <2>1. Those \in SUBSET (1..Len(s)) /\ \E j \in 1..Len(s) : j \in Those
    OBVIOUS
  <2>2. IsFiniteSet(Those)
    BY <1>1, <2>1, FS_Subset
  <2> QED BY <1>1, <2>1, <2>2
<1>3. PICK m \in Those : \A x \in Those : m <= x
  BY <1>2, Least
<1>4. m \in 1..Len(s) /\ s[m] = a /\ \A l \in 1..(m - 1) : s[l] # a
  <2> SUFFICES ASSUME NEW l \in 1..(m - 1) PROVE s[l] # a
    OBVIOUS
  <2>1. m \in 1..Len(s)
    OBVIOUS
  <2>2. l \in 1..Len(s) /\ ~(m <= l)
    BY <1>1, <2>1
  <2> QED BY <1>3, <2>2
<1>5. i0 \in 1..Len(s) /\ s[i0] = a
  BY <1>4
<1> HIDE DEF i0
<1>6. \A k \in 1..Len(s) : s[k] \in Page
  OBVIOUS
<1>7. \A k \in 1..Len(s) : k < Len(s) => s[k + 1] \in Page
  BY <1>1, <1>6
<1>8. u \in [1..Len(s) -> Page]
  BY <1>6, <1>7
<1>9. u \in Seq(Page) /\ Len(u) = Len(s)
  BY <1>1, <1>8
<1>10. \A k \in 1..Len(s) : s[k] # a => \E l \in 1..Len(s) : u[l] = s[k]
  <2> SUFFICES ASSUME NEW k \in 1..Len(s), s[k] # a PROVE \E l \in 1..Len(s) : u[l] = s[k]
    OBVIOUS
  <2>1. CASE k < i0
    <3>1. u[k] = s[k]
      BY <1>1, <1>5, <2>1
    <3> QED BY <3>1
  <2>2. CASE ~(k < i0)
    <3>1. k # i0
      BY <1>5
    <3>2. k - 1 \in 1..Len(s) /\ k - 1 >= i0 /\ k - 1 < Len(s) /\ (k - 1) + 1 = k
      BY <1>1, <1>5, <2>2, <3>1
    <3>3. u[k - 1] = s[k]
      BY <3>2
    <3> QED BY <3>2, <3>3
  <2> QED BY <2>1, <2>2
<1>11. Shifted(s, a) = u
  BY DEF Shifted, i0
<1> HIDE DEF u
<1> QED BY <1>9, <1>10, <1>11
\* free() of any address, one that begins a block of malloc()'s or none at all.
LEMMA FreesApp ==
  ASSUME Held, NEW t \in Procs, FreeApp(t)
  PROVE  AInv'
<1>1. /\ AppsTypeOK /\ MemInv /\ Out /\ Keeps /\ Naming /\ Listing /\ (~together => Framing)
      /\ TypeOK
  BY DEF Held, AppsTypeOK
<1>2. /\ slip = "" /\ mode[t] = "on"
      /\ UNCHANGED <<inFreemem, mode, opened, tables, isp, whole, stackvars, kept, runs, together>>
  BY DEF FreeApp, Calls, Turn
<1>3. PICK a \in Page :
        /\ list' = [list EXCEPT ![t] = IF a \in Listed(t) THEN Shifted(list[t], a) ELSE list[t]]
        /\ Release({a})
        /\ held' = [held EXCEPT ![t] = @ \ {x \in Own(t) : x.addr = a}]
        /\ slip' = IF \E x \in HeldBlocks \ Own(t) : x.addr = a THEN "stray" ELSE ""
  BY <1>1 DEF FreeApp, AppsTypeOK
<1> SUFFICES ASSUME slip' \notin {"stray", "stale", "large"} PROVE Held'
  BY DEF AInv
<1> DEFINE H == {x \in Own(t) : x.addr = a}
<1>4. slip' = "" /\ \A x \in HeldBlocks : x.addr = a => x \in H
  BY <1>3
<1>5. /\ H \subseteq held[t] /\ \A x \in H : x \notin kept[t] /\ x.addr = a
      /\ \A x \in H : x.addr \notin tables[t] \cup {isp[t]}
  BY DEF Own
<1>6. \A q \in Procs : \A x \in held[q] : x.addr = a => x \in H
  BY <1>4 DEF HeldBlocks
<1>7. Released({a}) = H
  <2>1. \A d : d \in Released({a}) <=> d.addr = a /\ \E q \in Procs : d \in held[q]
    BY <1>1, ReleasedIs
  <2> HIDE DEF H
  <2> QED BY <1>5, <1>6, <2>1
<1>8. held' = [held EXCEPT ![t] = @ \ H]
  BY <1>3
<1> HIDE DEF H
<1>9. MemInv'
  <2>1. UNCHANGED inFreemem
    BY <1>2
  <2> QED BY <1>1, <1>3, <1>5, <1>7, <1>8, <2>1, ReleaseMem DEF Out
<1>10. Out'
  BY <1>1, <1>2 DEF Out, inFreemem
<1>11. /\ list'[t] \in Seq(Page)
       /\ \A x \in Listed(t) : x # a => x \in Listed(t)'
  <2> DEFINE s == list[t]
  <2>1. s \in Seq(Page)
    BY <1>1 DEF AppsTypeOK
  <2>2. list'[t] = IF a \in Listed(t) THEN Shifted(s, a) ELSE s
    BY <1>1, <1>3 DEF AppsTypeOK
  <2>3. CASE a \notin Listed(t)
    <3>1. list'[t] = list[t]
      BY <2>2, <2>3
    <3> QED BY <2>1, <3>1 DEF Listed
  <2>4. CASE a \in Listed(t)
    <3>1. \E k \in 1..Len(s) : s[k] = a
      BY <2>4 DEF Listed
    <3>2. list'[t] = Shifted(s, a)
      BY <2>2, <2>4
    <3> HIDE DEF s
    <3>3. /\ Shifted(s, a) \in Seq(Page) /\ Len(Shifted(s, a)) = Len(s)
          /\ \A k \in 1..Len(s) : s[k] # a => \E m \in 1..Len(s) : Shifted(s, a)[m] = s[k]
      BY <2>1, <3>1, ShiftedHas
    <3>4. list'[t] \in Seq(Page)
      BY <3>2, <3>3
    <3>5. ASSUME NEW x \in Listed(t), x # a PROVE x \in Listed(t)'
      <4>1. PICK k \in 1..Len(s) : s[k] = x
        BY DEF Listed, s
      <4>2. PICK m \in 1..Len(s) : Shifted(s, a)[m] = x
        BY <3>3, <3>5, <4>1
      <4>3. m \in 1..Len(list'[t]) /\ list'[t][m] = x
        BY <3>2, <3>3, <4>2
      <4> QED BY <4>3 DEF Listed
    <3> QED BY <3>4, <3>5
  <2> QED BY <2>3, <2>4
<1>12. /\ held'[t] = held[t] \ H
       /\ \A q \in Procs \ {t} : held'[q] = held[q] /\ list'[q] = list[q]
  BY <1>1, <1>3, <1>8 DEF AppsTypeOK, TypeOK
<1>13. AppsTypeOK'
  <2>1. TypeOK'
    BY <1>9 DEF MemInv
  <2>2. list' \in [Procs -> Seq(Page)]
    <3>1. list \in [Procs -> Seq(Page)] /\ list' = [list EXCEPT ![t] = list'[t]]
      BY <1>1, <1>3 DEF AppsTypeOK
    <3> QED BY <1>11, <3>1
  <2> QED BY <1>1, <1>2, <1>4, <2>1, <2>2 DEF AppsTypeOK, stackvars
<1>14. Keeps' /\ Naming'
  BY <1>1, <1>2, <1>5, <1>12 DEF Keeps, Naming, Single
<1>15. Listing'
  <2>1. Finds(t)'
    <3> SUFFICES ASSUME NEW d \in held[t] \ kept[t], d \notin H
                 PROVE  d.addr \in Listed(t)' \cup tables[t] \cup {isp[t]}
      BY <1>2, <1>12 DEF Finds
    <3>1. d.addr \in Listed(t) \cup tables[t] \cup {isp[t]}
      BY <1>1, <1>2 DEF Listing, Finds
    <3>2. d.addr # a
      BY <1>6
    <3> QED BY <1>11, <3>1, <3>2
  <2>2. ASSUME NEW q \in Procs \ {t}, mode'[q] # "shell" PROVE Finds(q)'
    <3>1. Finds(q)
      BY <1>1, <1>2, <2>2 DEF Listing
    <3>2. held'[q] = held[q] /\ list'[q] = list[q] /\ UNCHANGED <<kept, tables, isp>>
      BY <1>2, <1>12
    <3>3. Listed(q)' = Listed(q)
      BY <3>2 DEF Listed
    <3> QED BY <3>1, <3>2, <3>3 DEF Finds
  <2> QED BY <2>1, <2>2 DEF Listing
<1>16. ASSUME ~together' PROVE Framing'
  <2>1. Framing
    BY <1>1, <1>2, <1>16
  <2>2. UNCHANGED <<mode, kept, isp, rsp0, top, frame>>
    BY <1>2 DEF stackvars
  <2>3. ASSUME NEW q \in Procs, mode[q] # "shell" PROVE Stacks(q)'
    <3>1. q = t /\ Stacks(t)
      BY <1>2, <2>1, <2>3 DEF Framing
    <3>2. Single(rsp0) \notin H
      <4>1. isp[t] = rsp0 /\ Single(rsp0).addr = rsp0
        BY <3>1 DEF Stacks, Single
      <4> QED BY <1>5, <4>1
    <3>3. UNCHANGED Single(rsp0)
      BY <2>2
    <3>4. Single(rsp0) \in held'[t] \ kept[t]
      BY <1>12, <3>1, <3>2 DEF Stacks
    <3> QED BY <2>2, <3>1, <3>3, <3>4 DEF Stacks
  <2>4. ASSUME NEW q \in Procs, mode[q] \notin {"shell", "on"} PROVE Saved(q)'
    BY <2>1, <2>2, <2>4 DEF Framing, Saved
  <2> QED BY <1>4, <2>1, <2>2, <2>3, <2>4 DEF Framing
<1> QED BY <1>9, <1>10, <1>13, <1>14, <1>15, <1>16 DEF Held

\* A page for open(), which the end of the application would leave.
LEMMA KeepOne ==
  ASSUME Held, NEW t \in Procs, Take(t, 1), UNCHANGED <<inFreemem, list, tables, isp>>,
         kept' = [kept EXCEPT ![t] = @ \cup Singles(Lowest(1))]
  PROVE  /\ MemInv' /\ Out' /\ Keeps' /\ kept' \in [Procs -> SUBSET Block]
         /\ Nth(Lowest(1), 1) \in Page /\ Single(Nth(Lowest(1), 1)) \in kept'[t]
         /\ \A q \in Procs \ {t} : kept'[q] = kept[q]
         /\ \A q \in Procs : \A c : c \in held'[q] \ kept'[q] <=> c \in held[q] \ kept[q]
         /\ \A q \in Procs : Finds(q) => Finds(q)'
<1> DEFINE S == Lowest(1)
<1>1. /\ AppsTypeOK /\ MemInv /\ Out /\ Keeps /\ TypeOK
  BY DEF Held, AppsTypeOK
<1>2. held' = [held EXCEPT ![t] = @ \cup Singles(S)] /\ Cardinality(S) = 1
  BY DEF Take
<1>3. MemInv' /\ Out'
  BY <1>1, TakeMem DEF Out, inFreemem
<1>4. \A q \in Procs : \A x \in S : Single(x) \notin held[q]
  BY <1>1, TakenNew
<1>5. \A c : c \in Singles(S) <=> \E x \in S : c = Single(x)
  BY InSingles
<1>6. S \in SUBSET Int /\ IsFiniteSet(S) /\ \A x \in S : x \in Page
  BY LowestUnused
<1>7. Singles(S) \subseteq Block
  BY <1>5, <1>6, OfSingle
<1> HIDE DEF S
<1>8. Nth(S, 1) \in S
  <2>1. 1 \in 1..Cardinality(S)
    BY <1>2
  <2> QED BY <1>6, <2>1, Counts
<1>9. kept' = [kept EXCEPT ![t] = @ \cup Singles(S)]
  BY DEF S
<1>10. /\ held'[t] = held[t] \cup Singles(S) /\ kept'[t] = kept[t] \cup Singles(S)
       /\ \A q \in Procs \ {t} : held'[q] = held[q] /\ kept'[q] = kept[q]
  BY <1>1, <1>2, <1>9 DEF AppsTypeOK, TypeOK
<1>11. kept' \in [Procs -> SUBSET Block]
  BY <1>1, <1>7, <1>9 DEF AppsTypeOK
<1>12. \A q \in Procs : \A c : c \in held'[q] \ kept'[q] <=> c \in held[q] \ kept[q]
  BY <1>4, <1>5, <1>10
<1>13. Keeps'
  BY <1>1, <1>10 DEF Keeps
<1>14. Nth(S, 1) \in Page /\ Single(Nth(S, 1)) \in kept'[t]
  BY <1>5, <1>6, <1>8, <1>10
<1>15. \A q \in Procs : Finds(q) => Finds(q)'
  BY <1>12 DEF Finds, Listed
<1> QED BY <1>3, <1>10, <1>11, <1>12, <1>13, <1>14, <1>15 DEF S

\* open() copies the name.
LEMMA NameApp ==
  ASSUME Held, NEW t \in Procs, OpenName(t)
  PROVE  AInv'
<1> DEFINE z == Nth(Lowest(1), 1)
<1>1. AppsTypeOK /\ MemInv /\ Out /\ Keeps /\ Naming /\ Listing /\ (~together => Framing)
  BY DEF Held
<1>2. /\ slip = "" /\ mode[t] = "on" /\ Take(t, 1)
      /\ kept' = [kept EXCEPT ![t] = @ \cup Singles(Lowest(1))]
      /\ opened' = [opened EXCEPT ![t] = z]
      /\ mode' = [mode EXCEPT ![t] = "find"]
      /\ frame' = [frame EXCEPT ![t] = rsp0]
      /\ top' = [top EXCEPT ![rsp0] = {t}]
      /\ UNCHANGED <<inFreemem, list, tables, isp, whole, rsp0, runs, together, slip>>
  BY DEF OpenName, Calls, Turn
<1>3. /\ MemInv' /\ Out' /\ Keeps' /\ kept' \in [Procs -> SUBSET Block]
      /\ z \in Page /\ Single(z) \in kept'[t]
      /\ \A q \in Procs \ {t} : kept'[q] = kept[q]
      /\ \A q \in Procs : \A c : c \in held'[q] \ kept'[q] <=> c \in held[q] \ kept[q]
      /\ \A q \in Procs : Finds(q) => Finds(q)'
  BY <1>2, KeepOne
<1> HIDE DEF z
<1>4. /\ mode'[t] = "find" /\ frame'[t] = rsp0 /\ top'[rsp0] = {t} /\ opened'[t] = z
      /\ \A q \in Procs \ {t} : mode'[q] = mode[q] /\ opened'[q] = opened[q]
  BY <1>1, <1>2 DEF AppsTypeOK
<1>5. AppsTypeOK'
  <2>1. TypeOK'
    BY <1>3 DEF MemInv
  <2>2. frame' \in [Procs -> Page] /\ top' \in [Page -> SUBSET Procs] /\ opened' \in [Procs -> Page]
    <3>1. frame' \in [Procs -> Page]
      BY <1>1, <1>2 DEF AppsTypeOK
    <3>2. top' \in [Page -> SUBSET Procs]
      BY <1>1, <1>2 DEF AppsTypeOK
    <3>3. opened' \in [Procs -> Page]
      BY <1>1, <1>2, <1>3 DEF AppsTypeOK
    <3> QED BY <3>1, <3>2, <3>3
  <2>3. mode' \in [Procs -> {"shell", "on", "off", "find", "found", "read"}]
    BY <1>1, <1>2 DEF AppsTypeOK
  <2> QED BY <1>1, <1>2, <1>3, <2>1, <2>2, <2>3 DEF AppsTypeOK
<1>6. Listing'
  <2> SUFFICES ASSUME NEW q \in Procs, mode'[q] # "shell" PROVE Finds(q)'
    BY DEF Listing
  <2>1. mode[q] # "shell"
    BY <1>2, <1>4
  <2> QED BY <1>1, <1>3, <2>1 DEF Listing
<1>7. Naming'
  <2> SUFFICES ASSUME NEW q \in Procs, mode'[q] = "find" PROVE Single(opened'[q]) \in kept'[q]
    BY DEF Naming, Single
  <2> QED BY <1>1, <1>3, <1>4 DEF Naming
<1>8. ASSUME ~together' PROVE Framing'
  <2>1. Framing
    BY <1>1, <1>2, <1>8
  <2>2. Stacks(t) /\ \A q \in Procs \ {t} : mode[q] = "shell"
    BY <1>2, <2>1 DEF Framing
  <2>3. slip' = "" /\ Stacks(t)' /\ Saved(t)'
    BY <1>2, <1>3, <1>4, <2>2 DEF Stacks, Saved, Single
  <2>4. \A q \in Procs : mode'[q] # "shell" => q = t
    BY <1>4, <2>2
  <2> QED BY <2>3, <2>4 DEF Framing
<1> QED BY <1>3, <1>5, <1>6, <1>7, <1>8 DEF AInv, Held

\* It returns the copy.
LEMMA FindApp ==
  ASSUME Held, NEW t \in Procs, OpenFind(t)
  PROVE  AInv'
<1> DEFINE z == opened[t]
           H == {Single(z)}
<1>1. /\ AppsTypeOK /\ MemInv /\ Out /\ Keeps /\ Naming /\ Listing /\ (~together => Framing)
      /\ TypeOK
  BY DEF Held, AppsTypeOK
<1>2. /\ slip = "" /\ mode[t] = "find" /\ Release({z})
      /\ held' = [held EXCEPT ![t] = @ \ H]
      /\ kept' = [kept EXCEPT ![t] = @ \ H]
      /\ opened' = [opened EXCEPT ![t] = 0]
      /\ mode' = [mode EXCEPT ![t] = "found"]
      /\ UNCHANGED <<inFreemem, list, tables, isp, whole, stackvars, runs, together, slip>>
  BY DEF OpenFind, Turn
<1>3. z \in Page /\ Single(z) \in kept[t] /\ Single(z) \in held[t] /\ Single(z).addr = z
  <2>1. z \in Page
    BY <1>1 DEF AppsTypeOK
  <2>2. Single(z) \in kept[t]
    BY <1>1, <1>2 DEF Naming
  <2> QED BY <1>1, <2>1, <2>2, OfSingle DEF Keeps
<1>4. Released({z}) = H
  <2>1. \A d : d \in Released({z}) <=> d.addr = z /\ \E q \in Procs : d \in held[q]
    BY <1>1, ReleasedIs
  <2>2. \A q \in Procs : \A d \in held[q] : d.addr = z => d = Single(z)
    BY <1>1, <1>3, SameBlock
  <2> QED BY <1>3, <2>1, <2>2
<1>5. H \subseteq held[t] /\ H \subseteq kept[t]
  BY <1>3
<1> HIDE DEF z, H
<1>6. MemInv' /\ Out'
  <2>1. UNCHANGED inFreemem
    BY <1>2
  <2>2. MemInv'
    BY <1>1, <1>2, <1>4, <1>5, <2>1, ReleaseMem DEF Out
  <2> QED BY <1>1, <2>1, <2>2 DEF Out, inFreemem
<1>7. /\ held'[t] = held[t] \ H /\ kept'[t] = kept[t] \ H /\ mode'[t] = "found"
      /\ \A q \in Procs \ {t} : /\ held'[q] = held[q] /\ kept'[q] = kept[q]
                                /\ mode'[q] = mode[q] /\ opened'[q] = opened[q]
  BY <1>1, <1>2 DEF AppsTypeOK, TypeOK
<1>8. AppsTypeOK'
  <2>1. TypeOK'
    BY <1>6 DEF MemInv
  <2>2. kept' \in [Procs -> SUBSET Block]
    BY <1>1, <1>2 DEF AppsTypeOK
  <2>3. mode' \in [Procs -> {"shell", "on", "off", "find", "found", "read"}]
    BY <1>1, <1>2 DEF AppsTypeOK
  <2>4. opened' \in [Procs -> Page]
    <3>1. 0 \in Page
      BY PagesAssumption
    <3> QED BY <1>1, <1>2, <3>1 DEF AppsTypeOK
  <2> QED BY <1>1, <1>2, <2>1, <2>2, <2>3, <2>4 DEF AppsTypeOK, stackvars
<1>9. \A q \in Procs : \A c : c \in held'[q] \ kept'[q] <=> c \in held[q] \ kept[q]
  <2>1. \A c : c \in held'[t] \ kept'[t] <=> c \in held[t] \ kept[t]
    BY <1>5, <1>7
  <2> QED BY <1>7, <2>1
<1>10. Keeps'
  BY <1>1, <1>7 DEF Keeps
<1>11. Naming'
  <2> SUFFICES ASSUME NEW q \in Procs, mode'[q] = "find" PROVE Single(opened'[q]) \in kept'[q]
    BY DEF Naming, Single
  <2>1. q # t
    BY <1>7
  <2> QED BY <1>1, <1>7, <2>1 DEF Naming
<1>12. Listing'
  <2> SUFFICES ASSUME NEW q \in Procs, mode'[q] # "shell" PROVE Finds(q)'
    BY DEF Listing
  <2>1. mode[q] # "shell"
    BY <1>2, <1>7
  <2>2. Finds(q)
    BY <1>1, <2>1 DEF Listing
  <2> QED BY <1>2, <1>9, <2>2 DEF Finds, Listed
<1>13. ASSUME ~together' PROVE Framing'
  <2>1. Framing
    BY <1>1, <1>2, <1>13
  <2>2. UNCHANGED <<isp, slip, rsp0, top, frame>>
    BY <1>2 DEF stackvars
  <2>3. \A q \in Procs : /\ mode'[q] # "shell" => mode[q] # "shell"
                         /\ mode'[q] \notin {"shell", "on"} => mode[q] \notin {"shell", "on"}
    BY <1>2, <1>7
  <2>4. ASSUME NEW q \in Procs, mode'[q] # "shell" PROVE Stacks(q)'
    <3>1. Stacks(q)
      BY <2>1, <2>3, <2>4 DEF Framing
    <3> QED BY <1>9, <2>2, <3>1 DEF Stacks, Single
  <2>5. ASSUME NEW q \in Procs, mode'[q] \notin {"shell", "on"} PROVE Saved(q)'
    BY <2>1, <2>2, <2>3, <2>5 DEF Framing, Saved
  <2> QED BY <2>1, <2>2, <2>3, <2>4, <2>5 DEF Framing
<1> QED BY <1>6, <1>8, <1>10, <1>11, <1>12, <1>13 DEF AInv, Held

\* It makes the file structure.
LEMMA TakeApp ==
  ASSUME Held, NEW t \in Procs, OpenTake(t)
  PROVE  AInv'
<1> DEFINE z == Nth(Lowest(1), 1)
<1>1. AppsTypeOK /\ MemInv /\ Out /\ Keeps /\ Naming /\ Listing /\ (~together => Framing)
  BY DEF Held
<1>2. /\ slip = "" /\ mode[t] = "found" /\ Take(t, 1)
      /\ kept' = [kept EXCEPT ![t] = @ \cup Singles(Lowest(1))]
      /\ opened' = [opened EXCEPT ![t] = z]
      /\ mode' = [mode EXCEPT ![t] = "read"]
      /\ UNCHANGED <<inFreemem, list, tables, isp, whole, stackvars, runs, together, slip>>
  BY DEF OpenTake, Turn
<1>3. /\ MemInv' /\ Out' /\ Keeps' /\ kept' \in [Procs -> SUBSET Block]
      /\ z \in Page
      /\ \A q \in Procs \ {t} : kept'[q] = kept[q]
      /\ \A q \in Procs : \A c : c \in held'[q] \ kept'[q] <=> c \in held[q] \ kept[q]
      /\ \A q \in Procs : Finds(q) => Finds(q)'
  BY <1>2, KeepOne
<1> HIDE DEF z
<1>4. /\ mode'[t] = "read"
      /\ \A q \in Procs \ {t} : mode'[q] = mode[q] /\ opened'[q] = opened[q]
  BY <1>1, <1>2 DEF AppsTypeOK
<1>5. AppsTypeOK'
  <2>1. TypeOK'
    BY <1>3 DEF MemInv
  <2>2. opened' \in [Procs -> Page]
    BY <1>1, <1>2, <1>3 DEF AppsTypeOK
  <2>3. mode' \in [Procs -> {"shell", "on", "off", "find", "found", "read"}]
    BY <1>1, <1>2 DEF AppsTypeOK
  <2> QED BY <1>1, <1>2, <1>3, <2>1, <2>2, <2>3 DEF AppsTypeOK, stackvars
<1>6. Listing'
  <2> SUFFICES ASSUME NEW q \in Procs, mode'[q] # "shell" PROVE Finds(q)'
    BY DEF Listing
  <2>1. mode[q] # "shell"
    BY <1>2, <1>4
  <2> QED BY <1>1, <1>3, <2>1 DEF Listing
<1>7. Naming'
  <2> SUFFICES ASSUME NEW q \in Procs, mode'[q] = "find" PROVE Single(opened'[q]) \in kept'[q]
    BY DEF Naming, Single
  <2>1. q # t
    BY <1>4
  <2> QED BY <1>1, <1>3, <1>4, <2>1 DEF Naming
<1>8. ASSUME ~together' PROVE Framing'
  <2>1. Framing
    BY <1>1, <1>2, <1>8
  <2>2. UNCHANGED <<isp, slip, rsp0, top, frame>>
    BY <1>2 DEF stackvars
  <2>3. \A q \in Procs : /\ mode'[q] # "shell" => mode[q] # "shell"
                         /\ mode'[q] \notin {"shell", "on"} => mode[q] \notin {"shell", "on"}
    BY <1>2, <1>4
  <2>4. ASSUME NEW q \in Procs, mode'[q] # "shell" PROVE Stacks(q)'
    <3>1. Stacks(q)
      BY <2>1, <2>3, <2>4 DEF Framing
    <3> QED BY <1>3, <2>2, <3>1 DEF Stacks, Single
  <2>5. ASSUME NEW q \in Procs, mode'[q] \notin {"shell", "on"} PROVE Saved(q)'
    BY <2>1, <2>2, <2>3, <2>5 DEF Framing, Saved
  <2> QED BY <2>1, <2>2, <2>3, <2>4, <2>5 DEF Framing
<1> QED BY <1>3, <1>5, <1>6, <1>7, <1>8 DEF AInv, Held

\* The tables of the pages that open() gives to the application.
LEMMA MapApp ==
  ASSUME Held, NEW t \in Procs, OpenMap(t)
  PROVE  AInv'
<1>1. /\ AppsTypeOK /\ MemInv /\ Out /\ Keeps /\ Naming /\ Listing /\ (~together => Framing)
      /\ TypeOK
  BY DEF Held, AppsTypeOK
<1>2. PICK first \in Large, last \in Large :
        LET M == {p \in whole[t] : first <= p /\ p <= last} \cup ({LargeOf(opened[t])} \cap whole[t])
            n == Cardinality(M)
        IN  /\ slip = "" /\ mode[t] = "read"
            /\ Take(t, n)
            /\ tables' = [tables EXCEPT ![t] = @ \cup Lowest(n)]
            /\ whole' = [whole EXCEPT ![t] = @ \ M]
            /\ Returns(t)
            /\ UNCHANGED <<inFreemem, list, isp, rsp0, kept, runs, together, slip>>
  BY DEF OpenMap, Turn
<1> DEFINE M == {p \in whole[t] : first <= p /\ p <= last} \cup ({LargeOf(opened[t])} \cap whole[t])
           n == Cardinality(M)
           S == Lowest(n)
<1>3. n \in Nat
  <2>1. M \subseteq whole[t] /\ whole[t] \subseteq Page
    BY <1>1 DEF AppsTypeOK, Large
  <2>2. IsFiniteSet(M)
    BY <2>1, PagesFinite, FS_Subset
  <2> HIDE DEF M
  <2> QED BY <2>2, FS_CardinalityType
<1>4. /\ slip = "" /\ mode[t] = "read"
      /\ Take(t, n)
      /\ tables' = [tables EXCEPT ![t] = @ \cup S]
      /\ whole' = [whole EXCEPT ![t] = @ \ M]
      /\ mode' = [mode EXCEPT ![t] = "on"]
      /\ opened' = [opened EXCEPT ![t] = 0]
      /\ frame' = [frame EXCEPT ![t] = 0]
      /\ top' = [top EXCEPT ![frame[t]] = {}]
      /\ UNCHANGED <<inFreemem, list, isp, rsp0, kept, runs, together, slip>>
  BY <1>2 DEF Returns
<1> HIDE DEF n, M
<1>5. held' = [held EXCEPT ![t] = @ \cup Singles(S)]
  BY <1>4 DEF Take
<1>6. MemInv' /\ Out'
  BY <1>1, <1>3, <1>4, TakeMem DEF Out, inFreemem
<1>7. \A x \in S : x \in Page /\ Single(x).addr = x
  BY LowestUnused, OfSingle
<1>8. \A c : c \in Singles(S) <=> \E x \in S : c = Single(x)
  BY InSingles
<1> HIDE DEF S
<1>9. /\ held'[t] = held[t] \cup Singles(S) /\ tables'[t] = tables[t] \cup S /\ mode'[t] = "on"
      /\ \A q \in Procs \ {t} : /\ held'[q] = held[q] /\ tables'[q] = tables[q]
                                /\ mode'[q] = mode[q] /\ opened'[q] = opened[q]
  BY <1>1, <1>4, <1>5 DEF AppsTypeOK, TypeOK
<1>10. AppsTypeOK'
  <2>1. TypeOK'
    BY <1>6 DEF MemInv
  <2>2. tables' \in [Procs -> SUBSET Page] /\ whole' \in [Procs -> SUBSET Large]
    BY <1>1, <1>4, <1>7 DEF AppsTypeOK
  <2>3. frame' \in [Procs -> Page] /\ top' \in [Page -> SUBSET Procs] /\ opened' \in [Procs -> Page]
    <3>1. 0 \in Page
      BY PagesAssumption
    <3> QED BY <1>1, <1>4, <3>1 DEF AppsTypeOK
  <2>4. mode' \in [Procs -> {"shell", "on", "off", "find", "found", "read"}]
    BY <1>1, <1>4 DEF AppsTypeOK
  <2> QED BY <1>1, <1>4, <2>1, <2>2, <2>3, <2>4 DEF AppsTypeOK
<1>11. \A q \in Procs : held[q] \subseteq held'[q]
  BY <1>9
<1>12. Keeps'
  BY <1>1, <1>4, <1>11 DEF Keeps
<1>13. Naming'
  <2> SUFFICES ASSUME NEW q \in Procs, mode'[q] = "find" PROVE Single(opened'[q]) \in kept'[q]
    BY DEF Naming, Single
  <2>1. q # t
    BY <1>9
  <2> QED BY <1>1, <1>4, <1>9, <2>1 DEF Naming
<1>14. Listing'
  <2>1. Finds(t)'
    <3> SUFFICES ASSUME NEW c \in held'[t] \ kept[t]
                 PROVE  c.addr \in Listed(t) \cup tables'[t] \cup {isp[t]}
      BY <1>4 DEF Finds, Listed
    <3>1. CASE c \in held[t]
      <4>1. Finds(t)
        BY <1>1, <1>4 DEF Listing
      <4> QED BY <1>9, <3>1, <4>1 DEF Finds
    <3>2. CASE c \in Singles(S)
      <4>1. PICK x \in S : c = Single(x)
        BY <1>8, <3>2
      <4> QED BY <1>7, <1>9, <4>1
    <3> QED BY <1>9, <3>1, <3>2
  <2>2. ASSUME NEW q \in Procs \ {t}, mode'[q] # "shell" PROVE Finds(q)'
    <3>1. Finds(q)
      BY <1>1, <1>9, <2>2 DEF Listing
    <3> QED BY <1>4, <1>9, <3>1 DEF Finds, Listed
  <2> QED BY <2>1, <2>2 DEF Listing
<1>15. ASSUME ~together' PROVE Framing'
  <2>1. Framing
    BY <1>1, <1>4, <1>15
  <2>2. Stacks(t) /\ \A q \in Procs \ {t} : mode[q] = "shell"
    BY <1>4, <2>1 DEF Framing
  <2>3. slip' = "" /\ Stacks(t)'
    BY <1>4, <1>11, <2>2 DEF Stacks, Single
  <2>4. \A q \in Procs : mode'[q] # "shell" => q = t /\ mode'[q] = "on"
    BY <1>9, <2>2
  <2> QED BY <2>3, <2>4 DEF Framing
<1> QED BY <1>6, <1>10, <1>12, <1>13, <1>14, <1>15 DEF AInv, Held

\* exit, breakp4 and the terminal behind them.
LEMMA ExitApp ==
  ASSUME Held, NEW t \in Procs, Exit(t)
  PROVE  AInv'
<1> DEFINE A == Listed(t) \cup Broken(t) \cup {isp[t]}
           H == held[t] \ kept[t]
<1>1. /\ AppsTypeOK /\ MemInv /\ Out /\ Keeps /\ Naming /\ Listing /\ (~together => Framing)
      /\ TypeOK
  BY DEF Held, AppsTypeOK
<1>2. /\ slip = "" /\ mode[t] = "on" /\ Release(A)
      /\ held' = [held EXCEPT ![t] = kept[t]]
      /\ slip' = IF Hits(t, Listed(t)) THEN "stale" ELSE IF Hits(t, A) THEN "large" ELSE ""
      /\ mode' = [mode EXCEPT ![t] = "shell"]
      /\ list' = [list EXCEPT ![t] = <<>>]
      /\ tables' = [tables EXCEPT ![t] = {}]
      /\ whole' = [whole EXCEPT ![t] = {}]
      /\ isp' = [isp EXCEPT ![t] = 0]
      /\ UNCHANGED <<inFreemem, opened, stackvars, kept, runs, together>>
  BY DEF Exit, Calls, Turn
<1> SUFFICES ASSUME slip' \notin {"stray", "stale", "large"} PROVE Held'
  BY DEF AInv
<1>3. slip' = "" /\ ~Hits(t, A)
  BY <1>2
<1>4. Released(A) = H
  <2>1. \A d : d \in Released(A) <=> d.addr \in A /\ \E q \in Procs : d \in held[q]
    BY <1>1, ReleasedIs
  <2>2. \A d \in H : d.addr \in A
    BY <1>1, <1>2 DEF Listing, Finds, Broken
  <2>3. ASSUME NEW q \in Procs, NEW d \in held[q], d.addr \in A PROVE d \in H
    BY <1>3, <2>3 DEF Hits, Foreign
  <2> QED BY <2>1, <2>2, <2>3
<1> HIDE DEF A
<1>5. held' = [held EXCEPT ![t] = @ \ H] /\ H \subseteq held[t]
  <2>1. held[t] \ H = kept[t]
    BY <1>1 DEF Keeps
  <2> QED BY <1>2, <2>1
<1>6. MemInv'
  <2>1. UNCHANGED inFreemem
    BY <1>2
  <2> HIDE DEF H
  <2> QED BY <1>1, <1>2, <1>4, <1>5, <2>1, ReleaseMem DEF Out
<1>7. Out'
  BY <1>1, <1>2 DEF Out, inFreemem
<1>8. /\ held'[t] = kept[t] /\ mode'[t] = "shell"
      /\ \A q \in Procs \ {t} : /\ held'[q] = held[q] /\ mode'[q] = mode[q] /\ list'[q] = list[q]
                                /\ tables'[q] = tables[q] /\ isp'[q] = isp[q]
      /\ UNCHANGED <<kept, together, rsp0, top, frame>>
  BY <1>1, <1>2 DEF AppsTypeOK, TypeOK, stackvars
<1>9. AppsTypeOK'
  <2>1. TypeOK'
    BY <1>6 DEF MemInv
  <2>2. tables' \in [Procs -> SUBSET Page] /\ whole' \in [Procs -> SUBSET Large]
    BY <1>1, <1>2 DEF AppsTypeOK
  <2>3. list' \in [Procs -> Seq(Page)]
    <3>1. <<>> \in Seq(Page)
      OBVIOUS
    <3>2. list \in [Procs -> Seq(Page)]
      BY <1>1 DEF AppsTypeOK
    <3> QED BY <1>2, <3>1, <3>2
  <2>4. isp' \in [Procs -> Page]
    <3>1. 0 \in Page
      BY PagesAssumption
    <3> QED BY <1>1, <1>2, <3>1 DEF AppsTypeOK
  <2>5. mode' \in [Procs -> {"shell", "on", "off", "find", "found", "read"}]
    BY <1>1, <1>2 DEF AppsTypeOK
  <2> QED BY <1>1, <1>2, <1>3, <2>1, <2>2, <2>3, <2>4, <2>5 DEF AppsTypeOK, stackvars
<1>10. Keeps'
  BY <1>1, <1>8 DEF Keeps
<1>11. Listing'
  <2> SUFFICES ASSUME NEW q \in Procs, mode'[q] # "shell" PROVE Finds(q)'
    BY DEF Listing
  <2>1. q # t /\ Finds(q)
    BY <1>1, <1>8 DEF Listing
  <2> QED BY <1>8, <2>1 DEF Finds, Listed
<1>12. ASSUME ~together' PROVE Framing'
  <2>1. Framing
    BY <1>1, <1>8, <1>12
  <2>2. \A q \in Procs : mode'[q] = "shell"
    BY <1>2, <1>8, <2>1 DEF Framing
  <2> QED BY <1>3, <2>2 DEF Framing
<1>13. Naming'
  <2> SUFFICES ASSUME NEW q \in Procs, mode'[q] = "find" PROVE Single(opened'[q]) \in kept'[q]
    BY DEF Naming, Single
  <2>1. q # t
    BY <1>8
  <2> QED BY <1>1, <1>2, <1>8, <2>1 DEF Naming
<1> QED BY <1>6, <1>7, <1>9, <1>10, <1>11, <1>12, <1>13 DEF Held

\* What is held stays when nothing happens to memory.
LEMMA QuietMem ==
  ASSUME MemInv, UNCHANGED <<used, al, alp, held, inFreemem>>
  PROVE  MemInv'
<1>1. UNCHANGED <<used, al, alp, held, freeing, pc, locals, halted>>
  BY DEF inFreemem
<1>2. halted' \in BOOLEAN
  BY <1>1 DEF MemInv, TypeOK
<1> QED BY <1>1, <1>2, StaysMem

\* A call on another application's stack: two have run at the same time.
LEMMA AstrayApp ==
  ASSUME Held, NEW t \in Procs, CallAstray(t)
  PROVE  AInv'
<1>1. /\ AppsTypeOK /\ MemInv /\ Out /\ Keeps /\ Naming /\ Listing /\ (~together => Framing)
      /\ TypeOK
  BY DEF Held, AppsTypeOK
<1>2. /\ mode[t] = "on" /\ rsp0 # isp[t] /\ slip' = "stack"
      /\ UNCHANGED <<used, al, alp, held, inFreemem>>
      /\ UNCHANGED <<mode, opened, list, tables, isp, whole, rsp0, top, frame, kept, runs, together>>
  BY DEF CallAstray, stackvars
<1>3. MemInv' /\ Out'
  BY <1>1, <1>2, QuietMem DEF Out, inFreemem
<1>4. AppsTypeOK'
  <2>1. TypeOK'
    BY <1>3 DEF MemInv
  <2> QED BY <1>1, <1>2, <2>1 DEF AppsTypeOK
<1>5. Keeps' /\ Naming'
  BY <1>1, <1>2 DEF Keeps, Naming, Single
<1>6. Listing'
  BY <1>1, <1>2 DEF Listing, Finds, Listed
<1>7. together'
  BY <1>1, <1>2 DEF Framing, Stacks
<1> QED BY <1>3, <1>4, <1>5, <1>6, <1>7 DEF AInv, Held

\* The timer takes the processor from an application.
LEMMA InterruptApp ==
  ASSUME Held, NEW t \in Procs, Interrupt(t)
  PROVE  AInv'
<1>1. /\ AppsTypeOK /\ MemInv /\ Out /\ Keeps /\ Naming /\ Listing /\ (~together => Framing)
      /\ TypeOK
  BY DEF Held, AppsTypeOK
<1>2. /\ slip = "" /\ mode[t] = "on"
      /\ mode' = [mode EXCEPT ![t] = "off"]
      /\ frame' = [frame EXCEPT ![t] = rsp0]
      /\ top' = [top EXCEPT ![rsp0] = {t}]
      /\ slip' = IF rsp0 # isp[t] THEN "stack" ELSE ""
      /\ UNCHANGED <<used, al, alp, held, inFreemem, opened, list, tables, isp, whole, rsp0, kept, runs,
                     together>>
  BY DEF Interrupt, Turn
<1>3. MemInv' /\ Out'
  BY <1>1, <1>2, QuietMem DEF Out, inFreemem
<1>4. AppsTypeOK'
  <2>1. TypeOK'
    BY <1>3 DEF MemInv
  <2>2. frame' \in [Procs -> Page] /\ top' \in [Page -> SUBSET Procs]
    BY <1>1, <1>2 DEF AppsTypeOK
  <2>3. mode' \in [Procs -> {"shell", "on", "off", "find", "found", "read"}]
    BY <1>1, <1>2 DEF AppsTypeOK
  <2>4. slip' \in {"", "stray", "stale", "large", "stack"}
    BY <1>2
  <2> QED BY <1>1, <1>2, <2>1, <2>2, <2>3, <2>4 DEF AppsTypeOK
<1>5. /\ mode'[t] = "off" /\ \A q \in Procs \ {t} : mode'[q] = mode[q]
      /\ frame'[t] = rsp0 /\ top'[rsp0] = {t}
  BY <1>1, <1>2 DEF AppsTypeOK
<1>6. Keeps'
  BY <1>1, <1>2 DEF Keeps
<1>7. Listing'
  <2>1. \A q \in Procs : mode'[q] # "shell" => mode[q] # "shell"
    BY <1>2, <1>5
  <2> SUFFICES ASSUME NEW q \in Procs, mode'[q] # "shell" PROVE Finds(q)'
    BY DEF Listing
  <2>2. Finds(q)
    BY <1>1, <2>1 DEF Listing
  <2> QED BY <1>2, <2>2 DEF Finds, Listed
<1>8. ASSUME ~together' PROVE Framing'
  <2>1. Framing
    BY <1>1, <1>2, <1>8
  <2>2. Stacks(t) /\ \A q \in Procs \ {t} : mode[q] = "shell"
    BY <1>2, <2>1 DEF Framing
  <2>3. slip' = "" /\ Stacks(t)' /\ Saved(t)'
    BY <1>2, <1>5, <2>2 DEF Stacks, Saved, Single
  <2>4. \A q \in Procs : mode'[q] # "shell" => q = t
    BY <1>5, <2>2
  <2> QED BY <2>3, <2>4 DEF Framing
<1>9. Naming'
  <2> SUFFICES ASSUME NEW q \in Procs, mode'[q] = "find" PROVE Single(opened'[q]) \in kept'[q]
    BY DEF Naming, Single
  <2>1. q # t
    BY <1>5
  <2> QED BY <1>1, <1>2, <1>5, <2>1 DEF Naming
<1> QED BY <1>3, <1>4, <1>6, <1>7, <1>8, <1>9 DEF AInv, Held

\* Its turn comes again, or open() found no file.
LEMMA ResumeApp ==
  ASSUME Held, NEW t \in Procs, Resume(t) \/ OpenNone(t)
  PROVE  AInv'
<1>1. /\ AppsTypeOK /\ MemInv /\ Out /\ Keeps /\ Naming /\ Listing /\ (~together => Framing)
      /\ TypeOK
  BY DEF Held, AppsTypeOK
<1>2. /\ slip = "" /\ mode[t] # "shell"
      /\ mode' = [mode EXCEPT ![t] = "on"]
      /\ opened' = opened \/ opened' = [opened EXCEPT ![t] = 0]
      /\ frame' = [frame EXCEPT ![t] = 0]
      /\ top' = [top EXCEPT ![frame[t]] = {}]
      /\ UNCHANGED <<used, al, alp, held, inFreemem, list, tables, isp, whole, rsp0, kept, runs,
                     together, slip>>
  BY DEF Resume, OpenNone, Returns, Turn
<1>3. MemInv' /\ Out'
  BY <1>1, <1>2, QuietMem DEF Out, inFreemem
<1>4. AppsTypeOK'
  <2>1. TypeOK'
    BY <1>3 DEF MemInv
  <2>2. frame' \in [Procs -> Page] /\ top' \in [Page -> SUBSET Procs] /\ opened' \in [Procs -> Page]
    <3>1. 0 \in Page
      BY PagesAssumption
    <3> QED BY <1>1, <1>2, <3>1 DEF AppsTypeOK
  <2>3. mode' \in [Procs -> {"shell", "on", "off", "find", "found", "read"}]
    BY <1>1, <1>2 DEF AppsTypeOK
  <2> QED BY <1>1, <1>2, <2>1, <2>2, <2>3 DEF AppsTypeOK
<1>5. /\ mode'[t] = "on"
      /\ \A q \in Procs \ {t} : mode'[q] = mode[q] /\ opened'[q] = opened[q]
  BY <1>1, <1>2 DEF AppsTypeOK
<1>6. Keeps'
  BY <1>1, <1>2 DEF Keeps
<1>7. Listing'
  <2>1. \A q \in Procs : mode'[q] # "shell" => mode[q] # "shell"
    BY <1>2, <1>5
  <2> SUFFICES ASSUME NEW q \in Procs, mode'[q] # "shell" PROVE Finds(q)'
    BY DEF Listing
  <2>2. Finds(q)
    BY <1>1, <2>1 DEF Listing
  <2> QED BY <1>2, <2>2 DEF Finds, Listed
<1>8. ASSUME ~together' PROVE Framing'
  <2>1. Framing
    BY <1>1, <1>2, <1>8
  <2>2. Stacks(t) /\ \A q \in Procs \ {t} : mode[q] = "shell"
    BY <1>2, <2>1 DEF Framing
  <2>3. slip' = "" /\ Stacks(t)'
    BY <1>2, <2>2 DEF Stacks, Single
  <2>4. \A q \in Procs : mode'[q] # "shell" => q = t /\ mode'[q] = "on"
    BY <1>5, <2>2
  <2> QED BY <2>3, <2>4 DEF Framing
<1>9. Naming'
  <2> SUFFICES ASSUME NEW q \in Procs, mode'[q] = "find" PROVE Single(opened'[q]) \in kept'[q]
    BY DEF Naming, Single
  <2>1. q # t
    BY <1>5
  <2> QED BY <1>1, <1>2, <1>5, <2>1 DEF Naming
<1> QED BY <1>3, <1>4, <1>6, <1>7, <1>8, <1>9 DEF AInv, Held

\* Nothing that the last four speak of is changed.
LEMMA SamePlaces ==
  ASSUME Keeps, Naming, Listing, ~together => Framing,
         UNCHANGED <<held, mode, opened, list, tables, isp, rsp0, top, frame, kept, together, slip>>
  PROVE  Keeps' /\ Naming' /\ Listing' /\ (~together' => Framing')
<1>1. Keeps' /\ Naming'
  BY DEF Keeps, Naming, Single
<1>2. Listing'
  BY DEF Listing, Finds, Listed
<1>3. \A t \in Procs : (Stacks(t)' <=> Stacks(t)) /\ (Saved(t)' <=> Saved(t))
  BY DEF Stacks, Saved, Single
<1>4. ~together' => Framing'
  BY <1>3 DEF Framing
<1> QED BY <1>1, <1>2, <1>4

\* A terminal at its prompt asks for memory.
LEMMA SearchApp ==
  ASSUME Held, NEW t \in Procs, NEW n \in 0..MaxPages, CommandSearch(t, n)
  PROVE  AInv'
<1>1. /\ AppsTypeOK /\ MemInv /\ Out /\ Keeps /\ Naming /\ Listing /\ (~together => Framing)
      /\ TypeOK
  BY DEF Held, AppsTypeOK
<1>2. /\ slip = "" /\ mode[t] = "shell" /\ (Search(t, n) \/ SearchFails(t, n))
      /\ UNCHANGED <<mode, opened, list, tables, isp, whole, rsp0, top, frame, kept, runs, together, slip>>
  BY DEF CommandSearch, Turn, appvars
<1>3. CASE SearchFails(t, n)
  <2>1. UNCHANGED <<used, al, alp, held, freeing, pc, locals>> /\ halted' \in BOOLEAN
    BY <1>3 DEF SearchFails
  <2>2. MemInv' /\ Out' /\ TypeOK'
    BY <1>1, <2>1, StaysMem DEF Out, MemInv
  <2>3. AppsTypeOK'
    BY <1>1, <1>2, <2>2 DEF AppsTypeOK
  <2>4. UNCHANGED <<held, mode, opened, list, tables, isp, rsp0, top, frame, kept, together, slip>>
    BY <1>2, <2>1
  <2>5. Keeps' /\ Naming' /\ Listing' /\ (~together' => Framing')
    BY <1>1, <2>4, SamePlaces
  <2> QED BY <2>2, <2>3, <2>5 DEF AInv, Held
<1>4. CASE Search(t, n)
  <2>1. MemInv' /\ TypeOK'
    BY <1>1, <1>4, SearchMem DEF Out, MemInv
  <2>2. /\ pc' = pc
        /\ \A q \in Procs : held[q] \subseteq held'[q] /\ (q # t => held'[q] = held[q])
    <3>1. PICK b \in Page : held' = [held EXCEPT ![t] = @ \cup {[addr |-> b, size |-> n]}]
      BY <1>4 DEF Search
    <3> QED BY <1>1, <1>4, <3>1 DEF Search, TypeOK
  <2>3. Out' /\ AppsTypeOK'
    BY <1>1, <1>2, <2>1, <2>2 DEF AppsTypeOK, Out
  <2>4. Keeps' /\ Naming'
    BY <1>1, <1>2, <2>2 DEF Keeps, Naming, Single
  <2>5. Listing'
    <3> SUFFICES ASSUME NEW q \in Procs, mode[q] # "shell" PROVE Finds(q)'
      BY <1>2 DEF Listing
    <3>1. mode[t] = "shell" /\ Listing
      BY <1>1, <1>2
    <3>2. q # t /\ Finds(q)
      BY <3>1 DEF Listing
    <3>3. held'[q] = held[q] /\ UNCHANGED <<kept, list, tables, isp>>
      BY <1>2, <2>2, <3>2
    <3> QED BY <3>2, <3>3 DEF Finds, Listed
  <2>6. ASSUME ~together' PROVE Framing'
    <3>1. Framing
      BY <1>1, <1>2, <2>6
    <3>2. ASSUME NEW q \in Procs, mode[q] # "shell" PROVE Stacks(q)'
      <4>1. Stacks(q)
        BY <3>1, <3>2 DEF Framing
      <4> QED BY <1>2, <2>2, <4>1 DEF Stacks, Single
    <3> QED BY <1>2, <3>1, <3>2 DEF Framing, Saved
  <2> QED BY <2>1, <2>3, <2>4, <2>5, <2>6 DEF AInv, Held
<1> QED BY <1>2, <1>3, <1>4

\* It returns a block that it is not to keep.
LEMMA FreesCommand ==
  ASSUME Held, NEW t \in Procs, NEW x \in held[t], CommandFree(t, x)
  PROVE  AInv'
<1>1. /\ AppsTypeOK /\ MemInv /\ Out /\ Keeps /\ Naming /\ Listing /\ (~together => Framing)
      /\ TypeOK
  BY DEF Held, AppsTypeOK
<1>2. /\ slip = "" /\ mode[t] = "shell" /\ x \in held[t] /\ x \notin kept[t]
      /\ Release({x.addr})
      /\ held' = [held EXCEPT ![t] = @ \ {x}]
      /\ UNCHANGED inFreemem
      /\ UNCHANGED <<mode, opened, list, tables, isp, whole, rsp0, top, frame, kept, runs, together, slip>>
  BY DEF CommandFree, Turn, appvars
<1>3. Released({x.addr}) = {x}
  <2>1. \A d : d \in Released({x.addr}) <=> d.addr = x.addr /\ \E q \in Procs : d \in held[q]
    BY <1>1, ReleasedIs
  <2>2. \A q \in Procs : \A d \in held[q] : d.addr = x.addr => d = x
    BY <1>1, <1>2, SameBlock
  <2> QED BY <1>2, <2>1, <2>2
<1>4. MemInv' /\ TypeOK'
  <2>1. {x} \subseteq held[t]
    BY <1>2
  <2>2. MemInv'
    BY <1>1, <1>2, <1>3, <2>1, ReleaseMem DEF Out
  <2> QED BY <2>2 DEF MemInv
<1>5. /\ held'[t] = held[t] \ {x} /\ \A q \in Procs \ {t} : held'[q] = held[q]
  BY <1>1, <1>2 DEF TypeOK
<1>6. Out' /\ AppsTypeOK'
  BY <1>1, <1>2, <1>4 DEF AppsTypeOK, Out, inFreemem
<1>7. Keeps' /\ Naming'
  BY <1>1, <1>2, <1>5 DEF Keeps, Naming, Single
<1>8. Listing'
  <2> SUFFICES ASSUME NEW q \in Procs, mode[q] # "shell" PROVE Finds(q)'
    BY <1>2 DEF Listing
  <2>1. q # t /\ Finds(q)
    BY <1>1, <1>2 DEF Listing
  <2> QED BY <1>2, <1>5, <2>1 DEF Finds, Listed
<1>9. ASSUME ~together' PROVE Framing'
  <2>1. Framing
    BY <1>1, <1>2, <1>9
  <2>2. ASSUME NEW q \in Procs, mode[q] # "shell" PROVE Stacks(q)'
    <3>1. q # t /\ Stacks(q)
      BY <1>2, <2>1, <2>2 DEF Framing
    <3> QED BY <1>2, <1>5, <3>1 DEF Stacks, Single
  <2> QED BY <1>2, <2>1, <2>2 DEF Framing, Saved
<1> QED BY <1>4, <1>6, <1>7, <1>8, <1>9 DEF AInv, Held

\* The inductive invariant holds at first.
LEMMA InitApps == AppsInit => AInv
<1> SUFFICES ASSUME AppsInit PROVE Held
  BY DEF AInv
<1>1. MemInv /\ Init
  BY InitMem DEF AppsInit
<1>2. Out /\ \A t \in Procs : mode[t] = "shell" /\ kept[t] = {}
  BY <1>1 DEF Out, Init, AppsInit
<1>3. AppsTypeOK
  <2>1. 0 \in Page /\ <<>> \in Seq(Page) /\ MaxRuns \in Nat
    BY PagesAssumption, AppsAssumption
  <2>2. /\ list \in [Procs -> Seq(Page)] /\ isp \in [Procs -> Page] /\ frame \in [Procs -> Page]
        /\ opened \in [Procs -> Page]
    BY <2>1 DEF AppsInit
  <2>3. /\ tables \in [Procs -> SUBSET Page] /\ whole \in [Procs -> SUBSET Large]
        /\ kept \in [Procs -> SUBSET Block] /\ top \in [Page -> SUBSET Procs]
    BY DEF AppsInit
  <2>4. mode \in [Procs -> {"shell", "on", "off", "find", "found", "read"}]
    BY DEF AppsInit
  <2>5. runs \in 0..MaxRuns /\ rsp0 \in Page /\ together \in BOOLEAN /\ slip = ""
    <3>1. 0 \in 0..MaxRuns
      BY <2>1
    <3>2. runs = 0 /\ rsp0 = 0 /\ together = FALSE /\ slip = ""
      BY DEF AppsInit
    <3> QED BY <2>1, <3>1, <3>2
  <2>6. TypeOK
    BY <1>1 DEF MemInv
  <2> QED BY <2>2, <2>3, <2>4, <2>5, <2>6 DEF AppsTypeOK
<1>4. Keeps /\ Naming /\ Listing /\ Framing
  BY <1>2 DEF Keeps, Naming, Listing, Framing, AppsInit
<1> QED BY <1>1, <1>2, <1>3, <1>4 DEF Held

\* The inductive invariant is kept by every step.
LEMMA StepApps == AInv /\ [AppsNext]_<<vars, appvars>> => AInv'
<1> SUFFICES ASSUME AInv, [AppsNext]_<<vars, appvars>> PROVE AInv'
  OBVIOUS
<1>1. ASSUME NEW t \in Procs, Turn(t) PROVE Held
  BY <1>1 DEF Turn, AInv
<1>2. ASSUME NEW t \in Procs, NEW n \in 0..MaxPages, CommandSearch(t, n) PROVE AInv'
  BY <1>1, <1>2, SearchApp DEF CommandSearch
<1>3. ASSUME NEW t \in Procs, NEW x \in held[t], CommandFree(t, x) PROVE AInv'
  BY <1>1, <1>3, FreesCommand DEF CommandFree
<1>4. ASSUME NEW t \in Procs, NEW r \in Large, Start(t, r) PROVE AInv'
  <2>1. Turn(t)
    BY <1>4 DEF Start
  <2> QED BY <1>1, <1>4, <2>1, StartApp
<1>5. ASSUME NEW t \in Procs, Malloc(t) PROVE AInv'
  <2>1. Turn(t)
    BY <1>5 DEF Malloc, Calls
  <2> QED BY <1>1, <1>5, <2>1, MallocApp
<1>6. ASSUME NEW t \in Procs, FreeApp(t) PROVE AInv'
  <2>1. Turn(t)
    BY <1>6 DEF FreeApp, Calls
  <2> QED BY <1>1, <1>6, <2>1, FreesApp
<1>7. ASSUME NEW t \in Procs, OpenName(t) \/ OpenFind(t) \/ OpenTake(t) \/ OpenMap(t) PROVE AInv'
  <2>1. Turn(t)
    BY <1>7 DEF OpenName, OpenFind, OpenTake, OpenMap, Calls
  <2> QED BY <1>1, <1>7, <2>1, NameApp, FindApp, TakeApp, MapApp
<1>8. ASSUME NEW t \in Procs, Exit(t) PROVE AInv'
  <2>1. Turn(t)
    BY <1>8 DEF Exit, Calls
  <2> QED BY <1>1, <1>8, <2>1, ExitApp
<1>9. ASSUME NEW t \in Procs, Interrupt(t) \/ Resume(t) \/ OpenNone(t) \/ CallAstray(t) PROVE AInv'
  <2>1. Turn(t)
    BY <1>9 DEF Interrupt, Resume, OpenNone, CallAstray
  <2> QED BY <1>1, <1>9, <2>1, InterruptApp, ResumeApp, AstrayApp
<1>10. CASE UNCHANGED <<vars, appvars>>
  <2>1. /\ UNCHANGED <<used, al, alp, held, freeing, pc, locals, halted>>
        /\ UNCHANGED <<mode, opened, list, tables, isp, whole, rsp0, top, frame, kept, runs, together, slip>>
    BY <1>10 DEF vars, appvars
  <2> SUFFICES ASSUME Held PROVE Held'
    BY <2>1 DEF AInv
  <2>2. AppsTypeOK /\ MemInv /\ Out /\ Keeps /\ Naming /\ Listing /\ (~together => Framing)
    BY DEF Held
  <2>3. halted' \in BOOLEAN
    BY <2>1, <2>2 DEF MemInv, TypeOK
  <2>4. MemInv' /\ TypeOK'
    BY <2>1, <2>2, <2>3, StaysMem DEF MemInv
  <2>5. AppsTypeOK' /\ Out'
    BY <2>1, <2>2, <2>4 DEF AppsTypeOK, Out
  <2>6. Keeps' /\ Naming' /\ Listing' /\ (~together' => Framing')
    BY <2>1, <2>2, SamePlaces
  <2> QED BY <2>4, <2>5, <2>6 DEF Held
<1> QED BY <1>2, <1>3, <1>4, <1>5, <1>6, <1>7, <1>8, <1>9, <1>10 DEF AppsNext

\* For every number of tasks, pages, applications and entries of their lists, and
\* for applications that call free() with any address: one that starts, calls, opens
\* files and exits leaves to each task what is its own, and nothing stays in use that
\* nobody has, unless slip names the free() or the exit() after which it is not so
\* (terminal.cpp:228-262, api.cpp:14-59, x64.cpp:54-125).
THEOREM AppsOwned == AppsSpec => []AppsOwn
<1>1. AInv => AppsOwn
  BY OwnedMem DEF AInv, Held, AppsOwn
<1>2. AInv /\ [AppsNext]_<<vars, appvars>> => AInv'
  BY StepApps
<1> QED BY <1>1, <1>2, InitApps, PTL DEF AppsSpec

\* While one application runs at a time, and frees what it has, the frame of one that
\* is interrupted or in open() is on top of a stack its terminal holds
\* (terminal.cpp:256-258).
THEOREM FrameOwned == AppsSpec => []FrameOwn
<1>1. AInv => FrameOwn
  <2> SUFFICES ASSUME AInv, ~together, slip \notin {"stray", "stale", "large"}
               PROVE  /\ AppsTypeOK
                      /\ slip # "stack"
                      /\ \A t \in Procs : mode[t] \notin {"shell", "on"} =>
                           /\ top[frame[t]] = {t}
                           /\ Single(frame[t]) \in held[t]
    BY DEF FrameOwn
  <2>1. AppsTypeOK /\ Framing
    BY DEF AInv, Held
  <2>2. \A t \in Procs : mode[t] \notin {"shell", "on"} => Stacks(t) /\ Saved(t)
    BY <2>1 DEF Framing
  <2> QED BY <2>1, <2>2 DEF Framing, Stacks, Saved
<1>2. AInv /\ [AppsNext]_<<vars, appvars>> => AInv'
  BY StepApps
<1> QED BY <1>1, <1>2, InitApps, PTL DEF AppsSpec

-------------------------------------------------------------------------------
(* Boot: the inductive invariant, what is known at each place               *)

\* The places at which IRQ n has not been opened
Until8 == {"tables", "pci", "pic", "rtcgate", "rtc"}
Until1 == Until8 \cup {"drvd", "ide0", "cd0", "ide1", "cd1", "sata", "keygate", "mousegate", "key"}
Until12 == Until1 \cup {"mouse"}
Until0 == Until12 \cup {"taskb", "timergate", "timer"}
Until11 == Until0 \cup {"mtask", "task0", "screen", "xhcigate", "xhci", "xhciirq"}
Places == Until11 \cup {"xhcimsi", "xhciregs", "xhcirun", "form", "loop", "lost"}

Opened(n) == \/ n = 8 /\ place \notin Until8
             \/ n = 1 /\ place \notin Until1
             \/ n = 12 /\ place \notin Until12
             \/ n = 0 /\ place \notin Until0
             \/ n = 11 /\ place \notin Until11 /\ Has("xhc")

\* The controllers mask what is not opened; pic.cpp's mpb has 2 for longer.
MasksMatch == IF place \in {"tables", "pci", "pic"} THEN mask = Master \cup Slave
          ELSE /\ \A n \in Master \cup Slave : n \in mask <=> n # 2 /\ ~Opened(n)
               /\ \A n \in Master : n \in mpb <=> ~Opened(n) /\ (n # 2 \/ place \in {"rtcgate", "rtc"})
               /\ \A n \in Slave : n \in spb <=> ~Opened(n)

Gated == /\ place \notin Until8 \ {"rtc"} => 8 \in gates
         /\ place \notin Until1 \ {"mousegate", "key"} => 1 \in gates
         /\ place \notin Until12 \ {"key", "mouse"} => 12 \in gates
         /\ place \notin Until0 \ {"timer"} => 0 \in gates
         /\ place \notin Until11 \ {"xhci", "xhciirq"} => 11 \in gates

Made == /\ place # "tables" => "kernelbuf" \in made
        /\ place \in Until0 \cup {"mtask"} => "mt" \notin made
        /\ place \notin Until0 \cup {"mtask"} => "tasks" \in made
        /\ place \notin Until0 \cup {"mtask", "task0"} => "current" \in made
        /\ place \in {"xhcirun", "form", "loop", "lost"} /\ Has("xhc") => "xhc" \in made
        /\ place \in {"xhciirq", "xhcimsi", "xhciregs", "xhcirun"} => Has("xhc")
        /\ msip => place \notin Until11 \cup {"xhcimsi"} /\ Has("xhc")

\* While the scheduler, its first task and the xHC are made, and before the
\* first controller is set up, nothing can come.
Quiet == on => place \notin Until8 \cup {"drvd", "ide0", "timergate", "timer", "mtask", "task0",
                                      "screen", "xhcigate", "xhci", "xhciirq", "xhcimsi",
                                      "xhciregs", "xhcirun"}

\* The places at which address a has not been asked, or not to its end
Unseen(a) == Until8 \cup {"drvd", "ide0", "cd0"} \cup IF a = 0 THEN {} ELSE {"ide1", "cd1"}

Registered(a) == hw.ide[a] \in {"disk", "cd"} /\ hw.boot = Drive(a)

Found == /\ bdl # 0 => bdl \in DOMAIN drvs /\ drvs[bdl] = hw.boot
         /\ place \in Until8 \cup {"drvd"} => bdl = 0
         /\ place \in Until0 \cup {"mtask"} => "drive" \notin low
         /\ \A a \in Addr : place = CdAt(a) => hw.ide[a] = "cd"
         /\ \A a \in Addr : Registered(a) => /\ place \notin Unseen(a) => bdl # 0
                                             /\ "drive" \notin low

BInv == BootTypeOK /\ place \in Places /\ MasksMatch /\ Gated /\ Made /\ Quiet /\ Found

\* The names of the drives.
LEMMA Names == /\ Drive(0) = "ide0" /\ Drive(1) = "ide1"
               /\ Behind(0) = "ide1" /\ Behind(1) = "sata"
               /\ CdAt(0) = "cd0" /\ CdAt(1) = "cd1"
               /\ Addr = {0, 1}
  BY DEF Drive, Behind, CdAt, Addr

\* The inductive invariant holds at first.
LEMMA BInvInit == BootInit => BInv
<1> SUFFICES ASSUME BootInit PROVE BInv
  OBVIOUS
<1> USE DEF BootInit
<1>1. BootTypeOK
  <2>1. <<>> \in Seq({"ide0", "ide1", "usb"})
    OBVIOUS
  <2> QED
    BY <2>1 DEF BootTypeOK
<1> USE DEF Until8, Until1, Until12, Until0, Until11
<1>2. place \in Places /\ MasksMatch /\ Quiet
  BY DEF Places, MasksMatch, Quiet
<1>4. Gated
  BY DEF Gated
<1>5. Made
  BY DEF Made
<1>3. Found
  BY Names DEF Until8, Until1, Until12, Until0, Found, Registered, Unseen
<1> QED
  BY <1>1, <1>2, <1>3, <1>4, <1>5 DEF BInv

\* The types behind a registration.
LEMMA RegisterType ==
  ASSUME BInv, NEW d \in {"ide0", "ide1", "usb"}, Register(d)
  PROVE  drvs' \in Seq({"ide0", "ide1", "usb"}) /\ bdl' \in Nat /\ low' \subseteq {"current", "drive"}
<1>1. drvs \in Seq({"ide0", "ide1", "usb"}) /\ bdl \in Nat /\ low \subseteq {"current", "drive"}
  BY DEF BInv, BootTypeOK
<1>2. Letter(drvs) \in Nat
  BY <1>1 DEF Letter
<1> QED
  BY <1>1, <1>2 DEF Register, Recognize

\* The parts of the inductive invariant, each kept by every step.
LEMMA TypeNext == BInv /\ [BootNext]_bootvars => BootTypeOK'
<1> SUFFICES ASSUME BInv, [BootNext]_bootvars PROVE BootTypeOK'
  OBVIOUS
<1> USE Names, HardwareAssumption DEF BInv, Step, Off, Same, pic, drives, Until8, Until1, Until12, Until0, Until11
<1>1. CASE Tables \/ Pci \/ PicInit \/ DrvInit
  <2>1. <<>> \in Seq({"ide0", "ide1", "usb"})
    OBVIOUS
  <2>2. hw' = hw /\ on' \in BOOLEAN /\ pcis' \subseteq hw.pci /\ UNCHANGED <<gates, msip, bdl, low>>
    BY <1>1 DEF BootTypeOK, Tables, Pci, PicInit, DrvInit
  <2>3. mpb' \subseteq Master /\ spb' \subseteq Slave /\ mask' \subseteq Master \cup Slave
    BY <1>1 DEF BootTypeOK, Tables, Pci, PicInit, DrvInit
  <2>4. drvs' \in {drvs, <<>>} /\ made' \subseteq made \cup {"kernelbuf"}
    BY <1>1 DEF Tables, Pci, PicInit, DrvInit
  <2>5. drvs' \in Seq({"ide0", "ide1", "usb"})
    BY <2>1, <2>4 DEF BootTypeOK
  <2> QED
    BY <2>2, <2>3, <2>4, <2>5 DEF BootTypeOK
<1>2. CASE \/ Rtc \/ Ps2 \/ Timer
              \/ Gate("xhcigate", "xhci", 11) \/ Open("xhciirq", "xhcimsi", 11)
  BY <1>2 DEF BootTypeOK, IRQ, Master, Slave, Rtc, Ps2, Timer, Gate, Open, SetIdt, OpenIrq
<1>3. CASE \E a \in Addr : DetectNone(a) \/ DetectDisk(a) \/ ReadCd(a) \/ DetectCd(a)
  <2>1. PICK a \in Addr : DetectNone(a) \/ DetectDisk(a) \/ ReadCd(a) \/ DetectCd(a)
    BY <1>3
  <2>2. Register(Drive(a)) \/ UNCHANGED drives
    BY <2>1 DEF DetectNone, DetectDisk, ReadCd, DetectCd
  <2>3. drvs' \in Seq({"ide0", "ide1", "usb"}) /\ bdl' \in Nat /\ low' \subseteq {"current", "drive"}
    BY <2>1, <2>2, RegisterType DEF BootTypeOK, DetectNone, DetectDisk, ReadCd, DetectCd
  <2> QED
    BY <2>1, <2>3 DEF BootTypeOK, DetectNone, DetectDisk, ReadCd, DetectCd
<1>4. CASE Sata \/ Taskb \/ Screen \/ Form \/ Idle
  BY <1>4 DEF BootTypeOK, IRQ, Master, Slave, Sata, Taskb, Screen, Form, Idle
<1>5. CASE Mtask
  BY <1>5 DEF BootTypeOK, IRQ, Master, Slave, Mtask, Construct
<1>6. CASE XhciFind \/ XhciMsi \/ XhciRegs \/ XhciRun
  BY <1>6 DEF BootTypeOK, IRQ, Master, Slave, XhciFind, XhciMsi, XhciRegs, XhciRun
<1>7. CASE RegisterUsb \/ Login
  <2>1. drvs' \in Seq({"ide0", "ide1", "usb"}) /\ bdl' \in Nat /\ low' \subseteq {"current", "drive"}
    BY <1>7, RegisterType DEF BootTypeOK, RegisterUsb, Login, Construct
  <2> QED
    BY <1>7, <2>1 DEF BootTypeOK, RegisterUsb, Login
<1>8. CASE UNCHANGED bootvars
  BY <1>8 DEF BootTypeOK, IRQ, Master, Slave, bootvars
<1> QED
  BY <1>1, <1>2, <1>3, <1>4, <1>5, <1>6, <1>7, <1>8 DEF BootNext, Xhci

\* What open_irq(n) leaves masked
LEMMA Opening ==
  ASSUME BInv, NEW n \in IRQ, OpenIrq(n), place \notin {"tables", "pci", "pic", "rtcgate"},
         n = 8 \/ place # "rtc"
  PROVE  /\ \A k \in Master \cup Slave : k \in mask' <=> k # 2 /\ ~Opened(k) /\ k # n
         /\ \A k \in Master : k \in mpb' <=> k # 2 /\ ~Opened(k) /\ k # n
         /\ \A k \in Slave : k \in spb' <=> ~Opened(k) /\ k # n
<1> USE DEF IRQ, Master, Slave
<1>1. /\ \A k \in Master \cup Slave : k \in mask <=> k # 2 /\ ~Opened(k)
      /\ \A k \in Master : k \in mpb <=> ~Opened(k) /\ (k # 2 \/ place = "rtc")
      /\ \A k \in Slave : k \in spb <=> ~Opened(k)
      /\ mpb \subseteq Master /\ spb \subseteq Slave
  BY DEF BInv, MasksMatch, BootTypeOK
<1>2. CASE n < 8
  BY <1>1, <1>2 DEF OpenIrq
<1>3. CASE n >= 8
  BY <1>1, <1>3 DEF OpenIrq
<1> QED
  BY <1>2, <1>3

\* A step that leaves the masks alone and passes no place where one is opened
LEMMA Still ==
  ASSUME MasksMatch, UNCHANGED <<mpb, spb, mask, pcis>>,
         \/ place = "sata" /\ place' = "keygate"
         \/ place = "taskb" /\ place' = "timergate"
         \/ place = "screen" /\ place' = "xhcigate"
         \/ place = "form" /\ place' = "loop"
         \/ place = "loop" /\ place' \in {"loop", "lost"}
         \/ place = "mtask" /\ place' = "task0"
         \/ place = "task0" /\ place' = "screen"
         \/ place = "xhci" /\ Has("xhc") /\ place' = "xhciirq"
         \/ place = "xhci" /\ ~Has("xhc") /\ place' = "form"
         \/ place = "xhcimsi" /\ place' = "xhciregs"
         \/ place = "xhciregs" /\ place' \in {"xhcirun", "form"}
         \/ place = "xhcirun" /\ place' = "form"
  PROVE  place' \in Places /\ MasksMatch'
<1> USE DEF Until8, Until1, Until12, Until0, Until11
<1>1. Has("xhc")' <=> Has("xhc")
  BY DEF Has
<1>2. \A k : Opened(k)' <=> Opened(k)
  BY <1>1 DEF Opened
<1>3. /\ place \notin {"tables", "pci", "pic", "rtcgate", "rtc"}
      /\ place' \notin {"tables", "pci", "pic", "rtcgate", "rtc"}
      /\ place' \in Places
  BY DEF Places
<1> QED
  BY <1>2, <1>3 DEF MasksMatch

LEMMA MaskedNext == BInv /\ [BootNext]_bootvars => place' \in Places /\ MasksMatch'
<1> SUFFICES ASSUME BInv, [BootNext]_bootvars PROVE place' \in Places /\ MasksMatch'
  OBVIOUS
<1> USE Names, HardwareAssumption DEF BInv, Step, Off, Same, pic, drives, Until8, Until1, Until12, Until0, Until11
<1>1. CASE Tables \/ Pci \/ PicInit \/ DrvInit
  <2>1. CASE Tables
    BY <2>1 DEF Places, MasksMatch, Opened, Has, Tables
  <2>2. CASE Pci
    BY <2>2 DEF Places, MasksMatch, Opened, Has, Pci
  <2>3. CASE PicInit
    BY <2>3 DEF Places, MasksMatch, Opened, Has, BootTypeOK, Master, Slave, IRQ, PicInit
  <2>4. CASE DrvInit
    BY <2>4 DEF Places, MasksMatch, Opened, Has, DrvInit
  <2> QED BY <1>1, <2>1, <2>2, <2>3, <2>4
<1>2. CASE \/ Rtc \/ Ps2 \/ Timer
              \/ Gate("xhcigate", "xhci", 11) \/ Open("xhciirq", "xhcimsi", 11)
  <2> USE DEF Places, Has, MasksMatch
  <2>1. CASE \/ Gate("rtcgate", "rtc", 8) \/ Gate("keygate", "mousegate", 1)
             \/ Gate("mousegate", "key", 12) \/ Gate("timergate", "timer", 0)
             \/ Gate("xhcigate", "xhci", 11)
    BY <2>1 DEF Gate, SetIdt, Opened, Master, Slave
  <2>2. CASE Open("rtc", "drvd", 8)
    <3>1. place = "rtc" /\ place' = "drvd" /\ OpenIrq(8) /\ 8 \in IRQ /\ \A k : Opened(k)' <=> Opened(k) \/ k = 8
      BY <2>2 DEF Open, Opened, IRQ
    <3> QED
      BY <3>1, Opening
  <2>3. CASE Open("key", "mouse", 1)
    <3>1. place = "key" /\ place' = "mouse" /\ OpenIrq(1) /\ 1 \in IRQ /\ \A k : Opened(k)' <=> Opened(k) \/ k = 1
      BY <2>3 DEF Open, Opened, IRQ
    <3> QED
      BY <3>1, Opening
  <2>4. CASE Open("mouse", "taskb", 12)
    <3>1. place = "mouse" /\ place' = "taskb" /\ OpenIrq(12) /\ 12 \in IRQ /\ \A k : Opened(k)' <=> Opened(k) \/ k = 12
      BY <2>4 DEF Open, Opened, IRQ
    <3> QED
      BY <3>1, Opening
  <2>5. CASE Open("timer", "mtask", 0)
    <3>1. place = "timer" /\ place' = "mtask" /\ OpenIrq(0) /\ 0 \in IRQ /\ \A k : Opened(k)' <=> Opened(k) \/ k = 0
      BY <2>5 DEF Open, Opened, IRQ
    <3> QED
      BY <3>1, Opening
  <2>6. CASE Open("xhciirq", "xhcimsi", 11)
    <3>1. Has("xhc") /\ pcis' = pcis
      BY <2>6 DEF Open, Made
    <3>2. place = "xhciirq" /\ place' = "xhcimsi" /\ OpenIrq(11) /\ 11 \in IRQ /\ \A k : Opened(k)' <=> Opened(k) \/ k = 11
      BY <2>6, <3>1 DEF Open, Opened, IRQ
    <3> QED
      BY <3>2, Opening
  <2> QED
    BY <1>2, <2>1, <2>2, <2>3, <2>4, <2>5, <2>6 DEF Rtc, Ps2, Timer
<1>3. CASE \E a \in Addr : DetectNone(a) \/ DetectDisk(a) \/ ReadCd(a) \/ DetectCd(a)
  <2>1. PICK a \in Addr : DetectNone(a) \/ DetectDisk(a) \/ ReadCd(a) \/ DetectCd(a)
    BY <1>3
  <2>2. UNCHANGED <<mpb, spb, mask, pcis>>
    BY <2>1 DEF DetectNone, DetectDisk, ReadCd, DetectCd
  <2>3. place \in {"ide0", "cd0", "ide1", "cd1"} /\ place' \in {"cd0", "ide1", "cd1", "sata"}
    BY <2>1 DEF DetectNone, DetectDisk, ReadCd, DetectCd
  <2>4. \A k : Opened(k)' <=> Opened(k)
    BY <2>2, <2>3 DEF Opened, Has
  <2> QED
    BY <2>2, <2>3, <2>4 DEF MasksMatch, Places
<1>4. CASE Sata \/ Taskb \/ Screen \/ Form \/ Idle
  <2>1. /\ UNCHANGED <<mpb, spb, mask, pcis>>
        /\ \/ place = "sata" /\ place' = "keygate"
           \/ place = "taskb" /\ place' = "timergate"
           \/ place = "screen" /\ place' = "xhcigate"
           \/ place = "form" /\ place' = "loop"
           \/ place = "loop" /\ place' = "loop"
    BY <1>4 DEF Sata, Taskb, Screen, Form, Idle
  <2> QED
    BY <2>1, Still
<1>5. CASE Mtask
  <2>1. /\ UNCHANGED <<mpb, spb, mask, pcis>>
        /\ \/ place = "mtask" /\ place' = "task0"
           \/ place = "task0" /\ place' = "screen"
    BY <1>5 DEF Mtask, Construct
  <2> QED
    BY <2>1, Still
<1>6. CASE XhciFind \/ XhciMsi \/ XhciRegs \/ XhciRun
  <2>1. UNCHANGED <<mpb, spb, mask, pcis>>
    BY <1>6 DEF XhciFind, XhciMsi, XhciRegs, XhciRun
  <2>2. \/ place = "xhci" /\ Has("xhc") /\ place' = "xhciirq"
        \/ place = "xhci" /\ ~Has("xhc") /\ place' = "form"
        \/ place = "xhcimsi" /\ place' = "xhciregs"
        \/ place = "xhciregs" /\ place' \in {"xhcirun", "form"}
        \/ place = "xhcirun" /\ place' = "form"
    BY <1>6 DEF XhciFind, XhciMsi, XhciRegs, XhciRun
  <2> QED
    BY <2>1, <2>2, Still
<1>7. CASE RegisterUsb \/ Login
  <2>1. /\ UNCHANGED <<mpb, spb, mask, pcis>>
        /\ place = "loop" /\ place' \in {"loop", "lost"}
    BY <1>7 DEF RegisterUsb, Login, Register, Recognize, Letter, Construct
  <2> QED
    BY <2>1, Still
<1>8. CASE UNCHANGED bootvars
  <2>1. UNCHANGED <<place, mpb, spb, mask, pcis>>
    BY <1>8 DEF bootvars
  <2> QED
    BY <2>1 DEF MasksMatch, Opened, Has
<1> QED
  BY <1>1, <1>2, <1>3, <1>4, <1>5, <1>6, <1>7, <1>8 DEF BootNext, Xhci

LEMMA GatedNext == BInv /\ [BootNext]_bootvars => Gated'
<1> SUFFICES ASSUME BInv, [BootNext]_bootvars PROVE Gated'
  OBVIOUS
<1> USE Names, HardwareAssumption DEF BInv, Step, Off, Same, pic, drives, Until8, Until1, Until12, Until0, Until11
<1>1. CASE Tables \/ Pci \/ PicInit \/ DrvInit
  BY <1>1 DEF Gated, Tables, Pci, PicInit, DrvInit
<1>2. CASE \/ Rtc \/ Ps2 \/ Timer
              \/ Gate("xhcigate", "xhci", 11) \/ Open("xhciirq", "xhcimsi", 11)
  BY <1>2 DEF Gated, Rtc, Ps2, Timer, Gate, Open, SetIdt, OpenIrq
<1>3. CASE \E a \in Addr : DetectNone(a) \/ DetectDisk(a) \/ ReadCd(a) \/ DetectCd(a)
  BY <1>3 DEF Gated, DetectNone, DetectDisk, ReadCd, DetectCd, Register, Recognize, Letter
<1>4. CASE Sata \/ Taskb \/ Screen \/ Form \/ Idle
  BY <1>4 DEF Gated, Sata, Taskb, Screen, Form, Idle
<1>5. CASE Mtask
  BY <1>5 DEF Gated, Mtask, Construct
<1>6. CASE XhciFind \/ XhciMsi \/ XhciRegs \/ XhciRun
  BY <1>6 DEF Gated, XhciFind, XhciMsi, XhciRegs, XhciRun
<1>7. CASE RegisterUsb \/ Login
  BY <1>7 DEF Gated, RegisterUsb, Login, Register, Recognize, Letter, Construct
<1>8. CASE UNCHANGED bootvars
  BY <1>8 DEF Gated, bootvars
<1> QED
  BY <1>1, <1>2, <1>3, <1>4, <1>5, <1>6, <1>7, <1>8 DEF BootNext, Xhci

LEMMA MadeNext == BInv /\ [BootNext]_bootvars => Made'
<1> SUFFICES ASSUME BInv, [BootNext]_bootvars PROVE Made'
  OBVIOUS
<1> USE Names, HardwareAssumption DEF BInv, Step, Off, Same, pic, drives, Until8, Until1, Until12, Until0, Until11
<1>1. CASE Tables \/ Pci \/ PicInit \/ DrvInit
  BY <1>1 DEF Made, Has, Tables, Pci, PicInit, DrvInit
<1>2. CASE \/ Rtc \/ Ps2 \/ Timer
              \/ Gate("xhcigate", "xhci", 11) \/ Open("xhciirq", "xhcimsi", 11)
  BY <1>2 DEF Made, Has, Rtc, Ps2, Timer, Gate, Open, SetIdt, OpenIrq
<1>3. CASE \E a \in Addr : DetectNone(a) \/ DetectDisk(a) \/ ReadCd(a) \/ DetectCd(a)
  BY <1>3 DEF Made, Has, DetectNone, DetectDisk, ReadCd, DetectCd, Register, Recognize, Letter
<1>4. CASE Sata \/ Taskb \/ Screen \/ Form \/ Idle
  BY <1>4 DEF Made, Has, Sata, Taskb, Screen, Form, Idle
<1>5. CASE Mtask
  BY <1>5 DEF Made, Has, Mtask, Construct
<1>6. CASE XhciFind \/ XhciMsi \/ XhciRegs \/ XhciRun
  BY <1>6 DEF Made, Has, XhciFind, XhciMsi, XhciRegs, XhciRun
<1>7. CASE RegisterUsb \/ Login
  BY <1>7 DEF Made, Has, RegisterUsb, Login, Register, Recognize, Letter, Construct
<1>8. CASE UNCHANGED bootvars
  BY <1>8 DEF Made, Has, bootvars
<1> QED
  BY <1>1, <1>2, <1>3, <1>4, <1>5, <1>6, <1>7, <1>8 DEF BootNext, Xhci

LEMMA QuietNext == BInv /\ [BootNext]_bootvars => Quiet'
<1> SUFFICES ASSUME BInv, [BootNext]_bootvars PROVE Quiet'
  OBVIOUS
<1> USE Names, HardwareAssumption DEF BInv, Step, Off, Same, pic, drives, Until8, Until1, Until12, Until0, Until11
<1>1. CASE Tables \/ Pci \/ PicInit \/ DrvInit
  BY <1>1 DEF Quiet, Made, Tables, Pci, PicInit, DrvInit
<1>2. CASE \/ Rtc \/ Ps2 \/ Timer
              \/ Gate("xhcigate", "xhci", 11) \/ Open("xhciirq", "xhcimsi", 11)
  BY <1>2 DEF Quiet, Made, Rtc, Ps2, Timer, Gate, Open, SetIdt, OpenIrq
<1>3. CASE \E a \in Addr : DetectNone(a) \/ DetectDisk(a) \/ ReadCd(a) \/ DetectCd(a)
  BY <1>3 DEF Quiet, Made, DetectNone, DetectDisk, ReadCd, DetectCd, Register, Recognize, Letter
<1>4. CASE Sata \/ Taskb \/ Screen \/ Form \/ Idle
  BY <1>4 DEF Quiet, Made, Sata, Taskb, Screen, Form, Idle
<1>5. CASE Mtask
  BY <1>5 DEF Quiet, Made, Mtask, Construct
<1>6. CASE XhciFind \/ XhciMsi \/ XhciRegs \/ XhciRun
  BY <1>6 DEF Quiet, Made, XhciFind, XhciMsi, XhciRegs, XhciRun
<1>7. CASE RegisterUsb \/ Login
  BY <1>7 DEF Quiet, Made, RegisterUsb, Login, Register, Recognize, Letter, Construct
<1>8. CASE UNCHANGED bootvars
  BY <1>8 DEF Quiet, Made, bootvars
<1> QED
  BY <1>1, <1>2, <1>3, <1>4, <1>5, <1>6, <1>7, <1>8 DEF BootNext, Xhci

LEMMA FoundNext == BInv /\ [BootNext]_bootvars => Found'
<1> SUFFICES ASSUME BInv, [BootNext]_bootvars PROVE Found'
  OBVIOUS
<1> USE Names, HardwareAssumption DEF BInv, Step, Off, Same, pic, drives, Until8, Until1, Until12, Until0, Until11
<1>1. CASE Tables \/ Pci \/ PicInit \/ DrvInit
  BY <1>1 DEF Found, Registered, Unseen, BootTypeOK, Tables, Pci, PicInit, DrvInit
<1>2. CASE \/ Rtc \/ Ps2 \/ Timer
              \/ Gate("xhcigate", "xhci", 11) \/ Open("xhciirq", "xhcimsi", 11)
  BY <1>2 DEF Found, Registered, Unseen, BootTypeOK, Rtc, Ps2, Timer, Gate, Open, SetIdt, OpenIrq
<1>3. CASE \E a \in Addr : DetectNone(a) \/ DetectDisk(a) \/ ReadCd(a) \/ DetectCd(a)
  BY <1>3 DEF Found, Registered, Unseen, BootTypeOK, DetectNone, DetectDisk, ReadCd, DetectCd, Register, Recognize, Letter
<1>4. CASE Sata \/ Taskb \/ Screen \/ Form \/ Idle
  BY <1>4 DEF Found, Registered, Unseen, BootTypeOK, Sata, Taskb, Screen, Form, Idle
<1>5. CASE Mtask
  BY <1>5 DEF Found, Registered, Unseen, BootTypeOK, Mtask, Construct
<1>6. CASE XhciFind \/ XhciMsi \/ XhciRegs \/ XhciRun
  BY <1>6 DEF Found, Registered, Unseen, BootTypeOK, XhciFind, XhciMsi, XhciRegs, XhciRun
<1>7. CASE RegisterUsb \/ Login
  BY <1>7 DEF Found, Registered, Unseen, BootTypeOK, RegisterUsb, Login, Register, Recognize, Letter, Construct
<1>8. CASE UNCHANGED bootvars
  BY <1>8 DEF Found, Registered, Unseen, BootTypeOK, bootvars
<1> QED
  BY <1>1, <1>2, <1>3, <1>4, <1>5, <1>6, <1>7, <1>8 DEF BootNext, Xhci

\* The invariant is kept.
THEOREM BootInductive == BootSpec => []BInv
<1>1. BInv /\ [BootNext]_bootvars => BInv'
  BY TypeNext, MaskedNext, GatedNext, MadeNext, QuietNext, FoundNext DEF BInv
<1> QED
  BY <1>1, BInvInit, PTL DEF BootSpec

-------------------------------------------------------------------------------
(* The properties *)

LEMMA NeedsOf == /\ Needs(0) \subseteq {"tasks", "current"}
                 /\ Needs(11) = {"kernelbuf", "xhc"}
                 /\ \A n : n # 0 /\ n # 11 => Needs(n) = {"kernelbuf"}
  BY DEF Needs

\* On every machine, an interrupt that comes finds its gate and what its handler
\* follows, and at the event loop those of all devices that were set up come.
THEOREM InterruptsFind == BootSpec => []Interrupts
<1>1. BInv => Interrupts
  <2> SUFFICES ASSUME BInv PROVE Interrupts
    OBVIOUS
  <2> USE DEF BInv, Until8, Until1, Until12, Until0, Until11, Places
  <2>1. CASE place \in {"tables", "pci", "pic"}
    BY <2>1 DEF Interrupts, Quiet
  <2>2. CASE place \notin {"tables", "pci", "pic"}
    <3>1. \A n \in IRQ : n \in mask <=> ~Opened(n)
      BY <2>2 DEF MasksMatch, IRQ, Master, Slave
    <3>2. 2 \notin mask
      BY <2>2 DEF MasksMatch, Master, Slave
    <3>3. \A n \in IRQ : n \in Passes <=> Opened(n) \/ (n = 11 /\ msip)
      BY <3>1, <3>2 DEF Passes
    <3>4. ASSUME on, NEW n \in Passes
          PROVE  n \in gates /\ Needs(n) \subseteq made
      <4>1. Opened(n) \/ (n = 11 /\ msip)
        BY <3>3, <3>4 DEF Passes
      <4>2. n \in gates
        BY <4>1 DEF Opened, Gated, Made
      <4>3. "kernelbuf" \in made
        BY <2>2 DEF Made
      <4>4. CASE n = 0
        <5>1. "tasks" \in made /\ "current" \in made
          BY <3>4, <4>1, <4>4 DEF Opened, Made, Quiet
        <5> QED
          BY <4>2, <4>4, <5>1, NeedsOf
      <4>5. CASE n = 11
        <5>1. "xhc" \in made
          BY <3>4, <4>1, <4>5 DEF Opened, Made, Quiet
        <5> QED
          BY <4>2, <4>3, <4>5, <5>1, NeedsOf
      <4>6. CASE n # 0 /\ n # 11
        BY <4>2, <4>3, <4>6, NeedsOf
      <4> QED
        BY <4>2, <4>4, <4>5, <4>6
    <3>5. place = "loop" => {0, 1, 8, 12} \cup (IF Has("xhc") THEN {11} ELSE {}) \subseteq Passes
      BY <3>3 DEF Opened, IRQ
    <3> QED
      BY <3>4, <3>5 DEF Interrupts
  <2> QED
    BY <2>1, <2>2
<1> QED
  BY <1>1, BootInductive, PTL

\* bdl names the boot drive if it names one, and a login or a task finds it if
\* it is an IDE drive.
THEOREM BootDrive == BootSpec => []DriveKnown
<1>1. BInv => DriveKnown
  BY DEF BInv, Found, DriveKnown, Registered
<1> QED
  BY <1>1, BootInductive, PTL

-------------------------------------------------------------------------------
(* Ide: the inductive invariant                                             *)

\* t's call counts: no other one came in between, the drive took its command,
\* and its sectors have the same high bits.  A write that has written its last
\* word cannot be crossed any more.
Uncrossed(t) == /\ InCall(t) /\ ~bad[t]
              /\ ~(step[t] = "end" /\ request[t].op = "write")

OneCall == \A t, u \in Users : Uncrossed(t) /\ Uncrossed(u) => t = u

Value == {Junk} \cup ({"cd", "disk", "new"} \X Nat)
Steps == {"head", "low", "command", "packet", "data", "end"}

IdeTypeOK ==
  /\ request \in [Users -> Request \cup {[op |-> "none"]}]
  /\ step \in [Users -> Steps \cup {"out"}]
  /\ \A t \in Users : InCall(t) <=> request[t] \in Request
  /\ sector \in [Users -> Nat]
  /\ words \in [Users -> Seq(Value)]
  /\ buf = [t \in Users |-> buf[t]]
  /\ regs \in [drive : {Disk, Cd}, high : 0..(High - 1), low : 0..(Low - 1)]
  /\ dev \in [op : {"idle", "in", "out", "packet"}, at : Sector, data : Seq(Value)]
  /\ platter \in [Sector -> Seq(Value)]
  /\ want \in [Sector -> Seq(Value)]
  /\ bad \in [Users -> BOOLEAN]
  /\ spoiled \in BOOLEAN
  /\ calls \in Nat /\ errors \in Nat

\* What a sector of r's drive has now.
Now(r, s) == IF r.drive = Cd THEN CdWords(s) ELSE platter[s]

\* The words of the transfer that the call makes for its sector k.
Whole(r, k) == IF r.drive = Cd THEN BlockWords(BlockOf(r, k)) ELSE platter[r.at + k]

\* Where the loop over the sectors is.
Looped(t) == /\ step[t] \in Steps \ {"end"} => sector[t] < request[t].cnt
             /\ step[t] = "end" => sector[t] = request[t].cnt
             /\ step[t] \in Steps \ {"data", "end"} => words[t] = <<>>
             /\ step[t] = "packet" => request[t].drive = Cd /\ dev.op = "packet"

\* The registers say where the sector is.
Selected(t) ==
  LET r == request[t]
  IN  /\ step[t] \in {"low", "command"} =>
           regs.drive = r.drive /\ (r.drive = Disk => regs.high = r.at \div Low)
      /\ step[t] = "command" => (r.drive = Disk => regs.low = LowOf(r, sector[t]))

\* A read: the words that came and those to come are the transfer.
Coming(t) ==
  LET r == request[t]
      all == Whole(r, sector[t])
  IN  step[t] = "data" /\ r.op = "read" =>
        /\ dev.op = "in" /\ Len(dev.data) > 0
        /\ Len(words[t]) + Len(dev.data) = Transfer(r)
        /\ \A j \in 1..Len(words[t]) : words[t][j] = all[j]
        /\ \A j \in 1..Len(dev.data) : dev.data[j] = all[Len(words[t]) + j]

\* A write: the drive has the words that were given.
Going(t) ==
  LET r == request[t]
  IN  step[t] = "data" /\ r.op = "write" =>
        /\ dev.op = "out" /\ dev.at = r.at + sector[t]
        /\ dev.data = words[t] /\ Len(words[t]) < W
        /\ \A j \in 1..Len(words[t]) : words[t][j] = <<"new", r.at>>

\* What a read has so far, and what a write is to leave.
ReadSoFar(t) == request[t].op = "read" =>
  buf[t] = [k \in 1..sector[t] |-> Now(request[t], request[t].at + k - 1)]
Wanted(t) == LET r == request[t]
             IN  r.op = "write" => \A s \in r.at..(r.at + r.cnt - 1) : want[s] = Written(r)

Straight(t) == /\ InRange(request[t])
               /\ Looped(t) /\ Selected(t) /\ Coming(t) /\ Going(t)
               /\ ReadSoFar(t) /\ Wanted(t)

\* A write that may still change sectors.
Writes(t) == InCall(t) /\ request[t].op = "write" /\ step[t] # "end"
Left(t) == (request[t].at + sector[t])..(request[t].at + request[t].cnt - 1)

\* The disk is as it should be but for what a write has left to do.
DiskInv == ~spoiled =>
  /\ \A t \in Users : Writes(t) => ~bad[t]
  /\ \A s \in Sector : platter[s] = want[s] \/ \E t \in Users : Writes(t) /\ s \in Left(t)

Undisturbed == \A t \in Users : InCall(t) /\ request[t].masked /\ bad[t]
                                  => ~InRange(request[t]) \/ errors > 0

\* The drive's sectors are whole.
WholeSectors == \A s \in Sector : Len(platter[s]) = W

IdeInv == /\ IdeTypeOK /\ OneCall /\ WholeSectors
          /\ \A t \in Users : Uncrossed(t) => Straight(t)
          /\ DiskInv /\ Undisturbed

-------------------------------------------------------------------------------
\* The sizes are positive numbers.
LEMMA Sizes == /\ Low \in Nat \ {0} /\ High \in Nat \ {0} /\ Blocks \in Nat \ {0}
               /\ Per \in Nat \ {0} /\ Span \in Nat \ {0} /\ W \in Nat \ {0}
  BY IdeAssumption

\* Quotient and remainder.
LEMMA Divided ==
  ASSUME NEW a \in Nat, NEW n \in Nat \ {0}
  PROVE  /\ a \div n \in Nat /\ a % n \in 0..(n - 1)
         /\ a = n * (a \div n) + (a % n)
<1>1. a \div n \in Nat
  OBVIOUS
<1>2. a % n \in 0..(n - 1)
  OBVIOUS
<1>3. a = n * (a \div n) + (a % n)
  OBVIOUS
<1> QED  BY <1>1, <1>2, <1>3

\* The quotient is the number it lies in.
LEMMA Quotient ==
  ASSUME NEW n \in Nat \ {0}, NEW q \in Nat, NEW p \in 0..(n - 1)
  PROVE  (n * q + p) \div n = q /\ (n * q + p) % n = p
<1> DEFINE a == n * q + p
           d == a \div n
           m == a % n
<1>1. a \in Nat /\ d \in Nat /\ m \in 0..(n - 1) /\ n * q + p = n * d + m
  <2>1. a \in Nat
    <3>1. n * q \in Nat
      OBVIOUS
    <3> QED  BY <3>1
  <2> HIDE DEF a
  <2>2. d \in Nat /\ m \in 0..(n - 1) /\ a = n * d + m
    BY <2>1, Divided
  <2> QED  BY <2>1, <2>2 DEF a
<1> HIDE DEF d, m, a
<1>2. ~(d < q)
  <2>1. SUFFICES ASSUME d < q PROVE FALSE
    OBVIOUS
  <2>2. n * q = n * (d + 1) + n * (q - d - 1)
    BY <1>1
  <2>3. n * (q - d - 1) >= 0 /\ n * (d + 1) = n * d + n
    BY <1>1, <2>1
  <2> QED  BY <1>1, <2>2, <2>3
<1>3. ~(q < d)
  <2>1. SUFFICES ASSUME q < d PROVE FALSE
    OBVIOUS
  <2>2. n * d = n * (q + 1) + n * (d - q - 1)
    BY <1>1
  <2>3. n * (d - q - 1) >= 0 /\ n * (q + 1) = n * q + n
    BY <1>1, <2>1
  <2> QED  BY <1>1, <2>2, <2>3
<1>4. d = q
  BY <1>1, <1>2, <1>3
<1>5. m = p
  BY <1>1, <1>4
<1> QED  BY <1>4, <1>5 DEF d, m, a

\* Sectors between two with the same high bits have them too: high and low bits
\* together are the sector.
LEMMA SameHigh ==
  ASSUME NEW a \in Nat, NEW c \in Nat, NEW k \in 0..c, NEW n \in Nat \ {0},
         a \div n = (a + c) \div n
  PROVE  (a \div n) * n + ((a + k) % n) = a + k
<1> DEFINE q == a \div n
           e == (a + c) % n
           p == a % n
<1>1. q \in Nat /\ p \in 0..(n - 1) /\ e \in 0..(n - 1) /\ a = n * q + p /\ a + c = n * q + e
  BY Divided, a + c \in Nat
<1> HIDE DEF q, e, p
<1>2. n * q \in Nat /\ p + k \in 0..(n - 1) /\ a + k = n * q + (p + k)
  BY <1>1
<1>3. (a + k) % n = p + k
  <2>1. (n * q + (p + k)) % n = p + k
    BY <1>1, <1>2, Quotient
  <2> QED  BY <1>2, <2>1
<1>4. q * n = n * q
  BY <1>1
<1>5. q * n + (p + k) = a + k
  BY <1>2, <1>4
<1> QED  BY <1>3, <1>5 DEF q

\* Sectors are numbers without gaps.
LEMMA SectorNat == /\ Low * High \in Nat \ {0} /\ 0 \in Sector /\ Sector \subseteq Nat
                   /\ \A a, b \in Sector : a..b \subseteq Sector
<1>1. Low * High \in Nat \ {0}
  BY Sizes
<1> QED  BY <1>1 DEF Sector

\* The high bits of a sector fit the register.
LEMMA HighBits ==
  ASSUME NEW a \in Sector
  PROVE  a \div Low \in 0..(High - 1)
<1>1. a \in Nat /\ a < Low * High /\ Low \in Nat \ {0} /\ High \in Nat \ {0}
  BY SectorNat, Sizes DEF Sector
<1> DEFINE q == a \div Low
           p == a % Low
<1>2. q \in Nat /\ p \in Nat /\ a = Low * q + p
  BY <1>1, Divided
<1> HIDE DEF q, p
<1>3. ~(q >= High)
  <2>1. SUFFICES ASSUME q >= High PROVE FALSE
    OBVIOUS
  <2>2. Low * q = Low * High + Low * (q - High)
    BY <1>1, <1>2
  <2>3. Low * (q - High) >= 0
    BY <1>1, <1>2, <2>1
  <2>4. Low * q \in Nat /\ Low * High \in Nat
    BY <1>1, <1>2
  <2> QED  BY <1>1, <1>2, <2>2, <2>3, <2>4
<1> QED  BY <1>1, <1>2, <1>3 DEF q

\* High and low bits name a sector.
LEMMA AddressedSector ==
  ASSUME NEW h \in 0..(High - 1), NEW l \in 0..(Low - 1)
  PROVE  h * Low + l \in Sector
<1>1. Low * High = h * Low + Low + Low * (High - 1 - h)
  BY Sizes
<1>2. Low * (High - 1 - h) >= 0 /\ h * Low \in Nat /\ Low * (High - 1 - h) \in Int
  BY Sizes
<1> QED  BY <1>1, <1>2, Sizes DEF Sector

-------------------------------------------------------------------------------
(* Requests and words                                                       *)

\* The fields of a record are in their sets.
LEMMA Fields ==
  ASSUME NEW O, NEW D, NEW S, NEW N, NEW M,
         NEW r \in [op : O, drive : D, at : S, cnt : N, masked : M]
  PROVE  r.op \in O /\ r.drive \in D /\ r.at \in S /\ r.cnt \in N /\ r.masked \in M
  OBVIOUS

\* What is known of a request.
LEMMA RequestType ==
  ASSUME NEW r \in Request
  PROVE  /\ r.op \in {"read", "write"} /\ r.drive \in {Disk, Cd} /\ r.at \in Nat
         /\ r.cnt \in Nat \ {0} /\ r.masked \in BOOLEAN
         /\ r.drive = Disk => r.at \in Sector
         /\ r.drive = Cd => r.op = "read" /\ ~r.masked
<1>1. Sector \subseteq Nat /\ MaxCnt \in Nat
  BY SectorNat, IdeAssumption
<1>2. CdSector \subseteq Nat
  BY DEF CdSector
<1> DEFINE N == 1..MaxCnt
<1>3. N \subseteq Nat \ {0}
  BY <1>1
<1>0. Disk # Cd
  BY DEF Disk, Cd
<1> HIDE DEF N
<1>4. CASE r \in [op : {"read"}, drive : {Disk}, at : Sector, cnt : N, masked : BOOLEAN]
  <2>1. r.op \in {"read"} /\ r.drive \in {Disk} /\ r.at \in Sector /\ r.cnt \in N
        /\ r.masked \in BOOLEAN
    BY ONLY <1>4, Fields, Zenon
  <2> QED  BY ONLY <1>0, <1>1, <1>3, <2>1, Zenon
<1>5. CASE r \in [op : {"write"}, drive : {Disk}, at : Sector, cnt : N, masked : BOOLEAN]
  <2>1. r.op \in {"write"} /\ r.drive \in {Disk} /\ r.at \in Sector /\ r.cnt \in N
        /\ r.masked \in BOOLEAN
    BY ONLY <1>5, Fields, Zenon
  <2> QED  BY ONLY <1>0, <1>1, <1>3, <2>1, Zenon
<1>6. CASE r \in [op : {"read"}, drive : {Cd}, at : CdSector, cnt : N, masked : {FALSE}]
  <2>1. r.op \in {"read"} /\ r.drive \in {Cd} /\ r.at \in CdSector /\ r.cnt \in N
        /\ r.masked \in {FALSE}
    BY ONLY <1>6, Fields, Zenon
  <2> QED  BY ONLY <1>0, <1>2, <1>3, <2>1, Zenon
<1> QED  BY <1>4, <1>5, <1>6, Zenon DEF Request, N

\* No call is not a call.
LEMMA NoneNoRequest == [op |-> "none"] \notin Request
<1>1. \A r \in Request : r.op # "none"
  <2>1. SUFFICES ASSUME NEW r \in Request PROVE r.op # "none"
    OBVIOUS
  <2>2. r.op \in {"read", "write"}
    BY RequestType
  <2> QED  BY <2>2
<1>2. [op |-> "none"].op = "none"
  OBVIOUS
<1> QED  BY <1>1, <1>2, Zenon

\* The sectors of a call that stays in its range are addressed as they are.
LEMMA RangeSectors ==
  ASSUME NEW r \in Request, InRange(r), r.drive = Disk, NEW k \in Nat, k < r.cnt
  PROVE  /\ r.at + k \in Sector
         /\ r.at \div Low \in 0..(High - 1) /\ LowOf(r, k) \in 0..(Low - 1)
         /\ (r.at \div Low) * Low + LowOf(r, k) = r.at + k
<1> DEFINE a == r.at
           c == r.cnt - 1
<1>1. a \in Sector /\ a \in Nat /\ c \in Nat /\ k \in 0..c /\ Low \in Nat \ {0}
  BY RequestType, SectorNat, Sizes
<1>2. a + c \in Sector /\ a \div Low = (a + c) \div Low
  BY <1>1 DEF InRange, Disk, Cd
<1>3. a + k \in Sector
  <2>1. a..(a + c) \subseteq Sector
    BY <1>1, <1>2, SectorNat
  <2> QED  BY <1>1, <2>1
<1>4. (a \div Low) * Low + ((a + k) % Low) = a + k
  BY <1>1, <1>2, SameHigh
<1>5. (a + k) % Low \in 0..(Low - 1)
  BY <1>1
<1>6. a \div Low \in 0..(High - 1)
  BY <1>1, HighBits
<1> QED  BY <1>3, <1>4, <1>5, <1>6 DEF LowOf

\* A sector full of one word.
LEMMA FullWords ==
  ASSUME NEW v \in Value
  PROVE  Full(v) \in Seq(Value) /\ Len(Full(v)) = W
  BY Sizes DEF Full

\* The words of a block.
LEMMA CdBlock ==
  ASSUME NEW b \in Nat
  PROVE  /\ BlockWords(b) \in Seq(Value)
         /\ Len(BlockWords(b)) = W * Per
<1>1. W * Per \in Nat
  BY Sizes
<1>2. \A k \in 1..(W * Per) : b * Per + ((k - 1) \div W) \in Nat
  <2>1. SUFFICES ASSUME NEW k \in 1..(W * Per) PROVE b * Per + ((k - 1) \div W) \in Nat
    OBVIOUS
  <2>2. b * Per \in Nat
    BY Sizes
  <2>3. k - 1 \in Nat
    BY <1>1
  <2>4. (k - 1) \div W \in Nat
    BY <2>3, Sizes, Divided
  <2> QED  BY <2>2, <2>4
<1>3. \A k \in 1..(W * Per) : CdWord(b * Per + ((k - 1) \div W)) \in Value
  BY <1>2 DEF CdWord, Value
<1> QED  BY <1>1, <1>3 DEF BlockWords

\* The block of a sector has a number.
LEMMA BlockNat ==
  ASSUME NEW r \in Request, NEW k \in Nat
  PROVE  BlockOf(r, k) \in Nat
<1>1. r.at + k \in Nat
  BY RequestType
<1>2. (r.at + k) % Span \in Nat
  BY <1>1, Sizes
<1>3. ((r.at + k) % Span) \div Per \in Nat
  BY <1>2, Sizes, Divided
<1> QED  BY <1>3 DEF BlockOf

\* A sequence is a function of its places.
LEMMA AsFunction ==
  ASSUME NEW S, NEW s \in Seq(S), NEW n \in Nat, Len(s) = n
  PROVE  s = [j \in 1..n |-> s[j]]
  OBVIOUS

\* The part that is cut out of the block is the sector.
LEMMA CutSector ==
  ASSUME NEW r \in Request, r.drive = Cd, NEW k \in Nat, r.at + k < Span,
         NEW ws \in Seq(Value), Len(ws) = W * Per,
         \A j \in 1..(W * Per) : ws[j] = BlockWords(BlockOf(r, k))[j]
  PROVE  CutOut(r, k, ws) = CdWords(r.at + k)
<1> DEFINE x == r.at + k
           b == x \div Per
           p == x % Per
           off == p * W
<1>1. x \in Nat /\ x % Span = x
  <2>1. x \in Nat
    BY RequestType
  <2> HIDE DEF x
  <2>2. Span * 0 + x = x
    BY <2>1, Sizes
  <2>3. x \in 0..(Span - 1)
    BY <2>1, Sizes DEF x
  <2>4. (Span * 0 + x) % Span = x
    BY <2>3, Sizes, Quotient
  <2> QED  BY <2>1, <2>2, <2>4
<1>2. BlockOf(r, k) = b
  BY <1>1 DEF BlockOf
<1> HIDE DEF x
<1>3. b \in Nat /\ p \in 0..(Per - 1) /\ x = Per * b + p
  BY <1>1, Sizes, Divided
<1> HIDE DEF b, p
<1>4. off \in Nat /\ off + W <= W * Per
  <2>1. W * Per = p * W + W + (Per - 1 - p) * W
    BY <1>3, Sizes
  <2>2. (Per - 1 - p) * W >= 0 /\ p * W \in Nat /\ (Per - 1 - p) * W \in Int /\ W * Per \in Int
    BY <1>3, Sizes
  <2>3. off + W <= W * Per
    BY <2>1, <2>2, Sizes
  <2> QED  BY <2>2, <2>3
<1>5. \A j \in 1..W : BlockWords(b)[off + j] = CdWord(x)
  <2>1. SUFFICES ASSUME NEW j \in 1..W PROVE BlockWords(b)[off + j] = CdWord(x)
    OBVIOUS
  <2>2. off + j \in 1..(W * Per)
    BY <1>4, Sizes
  <2>3. BlockWords(b)[off + j] = CdWord(b * Per + (((off + j) - 1) \div W))
    BY <2>2 DEF BlockWords
  <2>4. (off + j) - 1 = W * p + (j - 1)
    BY <1>3, <1>4, Sizes
  <2>5. (W * p + (j - 1)) \div W = p
    <3>1. j - 1 \in 0..(W - 1)
      BY Sizes
    <3>2. p \in Nat /\ W \in Nat \ {0}
      BY <1>3, Sizes
    <3> HIDE DEF off
    <3> QED  BY ONLY <3>1, <3>2, Quotient
  <2>6. b * Per + p = x
    BY <1>3, Sizes
  <2> QED  BY <2>3, <2>4, <2>5, <2>6
<1>6. \A j \in 1..W : ws[off + j] = CdWord(x)
  <2>1. SUFFICES ASSUME NEW j \in 1..W PROVE ws[off + j] = CdWord(x)
    OBVIOUS
  <2>2. off + j \in 1..(W * Per)
    BY <1>4, Sizes
  <2> QED  BY <1>2, <1>5, <2>2
<1>7. CutOut(r, k, ws) = SubSeq(ws, off + 1, off + W)
  BY <1>1 DEF CutOut, x, p
<1> HIDE DEF off
<1>8. SubSeq(ws, off + 1, off + W) = [j \in 1..W |-> CdWord(x)]
  <2>1. W \in Nat \ {0} /\ W * Per \in Nat
    BY Sizes
  <2>2. Len(SubSeq(ws, off + 1, off + W)) = W
    BY <1>4, <2>1
  <2>3. SubSeq(ws, off + 1, off + W) \in Seq(Value)
    BY <1>4, <2>1
  <2>4. \A j \in 1..W : SubSeq(ws, off + 1, off + W)[j] = ws[off + j]
    BY <1>4, <2>1
  <2>5. SubSeq(ws, off + 1, off + W) = [j \in 1..W |-> SubSeq(ws, off + 1, off + W)[j]]
    BY ONLY <2>1, <2>2, <2>3, AsFunction
  <2>6. \A j \in 1..W : SubSeq(ws, off + 1, off + W)[j] = CdWord(x)
    BY <1>6, <2>4
  <2> QED  BY ONLY <2>5, <2>6, Zenon
<1> QED  BY <1>7, <1>8 DEF CdWords, Full, x

-------------------------------------------------------------------------------
(* Types                                                                    *)

\* The types of the initial state.
LEMMA IdeInitType ==
  ASSUME IdeInit
  PROVE  IdeTypeOK
<1>1. 0 \in Sector /\ Sector \subseteq Nat /\ High \in Nat \ {0} /\ Low \in Nat \ {0}
  BY SectorNat, Sizes
<1>2. [op |-> "none"] \notin Request
  BY Zenon, NoneNoRequest
<1>3. \A s \in Sector : Full(<<"disk", s>>) \in Seq(Value)
  BY <1>1, FullWords DEF Value
<1>4. platter \in [Sector -> Seq(Value)]
  BY <1>3 DEF IdeInit
<1>5. dev \in [op : {"idle", "in", "out", "packet"}, at : Sector, data : Seq(Value)]
  BY <1>1 DEF IdeInit, IdleDev
<1>6. regs \in [drive : {Disk, Cd}, high : 0..(High - 1), low : 0..(Low - 1)]
  BY <1>1 DEF IdeInit
<1>7. want \in [Sector -> Seq(Value)]
  BY <1>4 DEF IdeInit
<1>8. /\ request \in [Users -> Request \cup {[op |-> "none"]}]
      /\ step \in [Users -> Steps \cup {"out"}]
      /\ \A t \in Users : InCall(t) <=> request[t] \in Request
  BY <1>2 DEF IdeInit, InCall
<1>9. /\ sector \in [Users -> Nat]
      /\ words \in [Users -> Seq(Value)]
      /\ buf = [t \in Users |-> buf[t]]
      /\ calls \in Nat /\ errors \in Nat
  BY DEF IdeInit
<1>10. bad \in [Users -> BOOLEAN] /\ spoiled \in BOOLEAN
  BY Zenon DEF IdeInit
<1> QED  BY <1>4, <1>5, <1>6, <1>7, <1>8, <1>9, <1>10, Zenon DEF IdeTypeOK

\* What is spoiled behind a step.
LEMMA SpoilsType ==
  ASSUME IdeTypeOK, NEW hit \in SUBSET Users, Spoils(hit)
  PROVE  /\ bad' \in [Users -> BOOLEAN] /\ spoiled' \in BOOLEAN
         /\ \A o \in Users : bad'[o] <=> bad[o] \/ o \in hit
         /\ ~spoiled' => ~spoiled /\ \A o \in hit : request[o].op # "write"
<1>1. bad' = [o \in Users |-> bad[o] \/ o \in hit]
  BY Zenon DEF Spoils
<1>2. \A o \in Users : (bad[o] \/ o \in hit) \in BOOLEAN
  OBVIOUS
<1>3. bad' \in [Users -> BOOLEAN]
  BY ONLY <1>1, <1>2, Zenon
<1>4. \A o \in Users : bad'[o] <=> bad[o] \/ o \in hit
  BY ONLY <1>1, Zenon
<1>5. spoiled' = (spoiled \/ \E o \in hit : request[o].op = "write")
  BY Zenon DEF Spoils
<1>6. spoiled' \in BOOLEAN
  BY ONLY <1>5, Zenon
<1>7. ~spoiled' => ~spoiled /\ \A o \in hit : request[o].op # "write"
  BY ONLY <1>5, Zenon
<1> QED  BY <1>3, <1>4, <1>6, <1>7

\* What is said of the calls by themselves.
CallsType ==
  /\ request \in [Users -> Request \cup {[op |-> "none"]}]
  /\ step \in [Users -> Steps \cup {"out"}]
  /\ \A t \in Users : InCall(t) <=> request[t] \in Request

\* A call that goes on to step x stays a call.
LEMMA GoingOn ==
  ASSUME IdeTypeOK, NEW t \in Users, InCall(t), NEW x \in Steps,
         Goto(t, x), request' = request
  PROVE  /\ CallsType' /\ step'[t] = x
         /\ \A u \in Users \ {t} : step'[u] = step[u]
<1>1. /\ request \in [Users -> Request \cup {[op |-> "none"]}]
      /\ step \in [Users -> Steps \cup {"out"}]
      /\ \A u \in Users : InCall(u) <=> request[u] \in Request
  BY Zenon DEF IdeTypeOK
<1>2. step' = [step EXCEPT ![t] = x]
  BY Zenon DEF Goto
<1>3. step' \in [Users -> Steps \cup {"out"}]
  BY ONLY <1>1, <1>2, Zenon
<1>4. step'[t] = x /\ \A u \in Users \ {t} : step'[u] = step[u]
  BY ONLY <1>1, <1>2, Zenon
<1>5. x # "out"
  BY DEF Steps
<1>6. \A u \in Users : InCall(u)' <=> InCall(u)
  BY <1>4, <1>5, Zenon DEF InCall
<1> QED  BY <1>1, <1>3, <1>4, <1>6, Zenon DEF CallsType

\* The calls that a step of t interrupts are others, and in the call whose step
\* it is nothing is spoiled unless it fails.
LEMMA CrossesType ==
  ASSUME IdeTypeOK, NEW t \in Users, Crosses(t)
  PROVE  /\ bad' \in [Users -> BOOLEAN] /\ spoiled' \in BOOLEAN
         /\ bad'[t] <=> bad[t]
         /\ \A o \in Interrupted(t) : bad'[o] = TRUE
         /\ ~spoiled' => ~spoiled /\ \A o \in Interrupted(t) : request[o].op # "write"
<1>1. Interrupted(t) \in SUBSET Users /\ t \notin Interrupted(t)
  BY Zenon DEF Interrupted
<1>2. Spoils(Interrupted(t))
  BY Zenon DEF Crosses
<1>3. /\ bad' \in [Users -> BOOLEAN] /\ spoiled' \in BOOLEAN
      /\ \A o \in Users : bad'[o] <=> bad[o] \/ o \in Interrupted(t)
      /\ ~spoiled' => ~spoiled /\ \A o \in Interrupted(t) : request[o].op # "write"
  BY <1>1, <1>2, SpoilsType
<1> QED  BY <1>1, <1>3, Zenon

\* A call has a request.
LEMMA InCallRequest ==
  ASSUME IdeTypeOK, NEW t \in Users, InCall(t)
  PROVE  request[t] \in Request
  BY Zenon DEF IdeTypeOK

\* The types behind each action.
LEMMA PutHeadType ==
  ASSUME IdeTypeOK, NEW t \in Users, PutHead(t)
  PROVE  IdeTypeOK'
<1>1. InCall(t) /\ "low" \in Steps
  BY DEF PutHead, At, InCall, Steps
<1>2. CallsType'
  BY <1>1, GoingOn, Zenon DEF PutHead, Rest
<1>3. bad' \in [Users -> BOOLEAN] /\ spoiled' \in BOOLEAN
  BY CrossesType, Zenon DEF PutHead
<1>4. request[t].drive \in {Disk, Cd} /\ (request[t].drive = Disk => request[t].at \div Low \in 0..(High - 1))
  BY <1>1, InCallRequest, RequestType, HighBits
<1>5. 0 \in 0..(High - 1)
  BY Sizes
<1>6. regs' \in [drive : {Disk, Cd}, high : 0..(High - 1), low : 0..(Low - 1)]
  <2>1. (IF request[t].drive = Cd THEN 0 ELSE request[t].at \div Low) \in 0..(High - 1)
    BY <1>4, <1>5
  <2> DEFINE H == 0..(High - 1)
             L == 0..(Low - 1)
             h == IF request[t].drive = Cd THEN 0 ELSE request[t].at \div Low
             d == request[t].drive
             D == {Disk, Cd}
  <2>2. h \in H /\ d \in D /\ regs \in [drive : D, high : H, low : L]
    BY <1>4, <2>1, Zenon DEF IdeTypeOK
  <2>3. regs' = [regs EXCEPT !.drive = d, !.high = h]
    BY Zenon DEF PutHead
  <2> HIDE DEF h, H, L, d, D
  <2>4. regs' \in [drive : D, high : H, low : L]
    BY ONLY <2>2, <2>3
  <2> QED  BY <2>4 DEF H, L, D
<1> QED  BY <1>2, <1>3, <1>6, Zenon DEF PutHead, Rest, IdeTypeOK, CallsType, InCall

LEMMA PutLowType ==
  ASSUME IdeTypeOK, NEW t \in Users, PutLow(t)
  PROVE  IdeTypeOK'
<1>1. InCall(t) /\ "command" \in Steps
  BY DEF PutLow, At, InCall, Steps
<1>2. CallsType'
  BY <1>1, GoingOn, Zenon DEF PutLow, Rest
<1>3. bad' \in [Users -> BOOLEAN] /\ spoiled' \in BOOLEAN
  BY CrossesType, Zenon DEF PutLow
<1>4. request[t].at \in Nat /\ sector[t] \in Nat /\ Low \in Nat \ {0}
  BY <1>1, InCallRequest, RequestType, Sizes DEF IdeTypeOK
<1>5. 0 \in 0..(Low - 1) /\ LowOf(request[t], sector[t]) \in 0..(Low - 1)
  BY <1>4 DEF LowOf
<1>6. regs' \in [drive : {Disk, Cd}, high : 0..(High - 1), low : 0..(Low - 1)]
  <2> DEFINE H == 0..(High - 1)
             L == 0..(Low - 1)
             l == IF request[t].drive = Cd THEN 0 ELSE LowOf(request[t], sector[t])
             D == {Disk, Cd}
  <2>1. l \in L /\ regs \in [drive : D, high : H, low : L]
    BY <1>5, Zenon DEF IdeTypeOK
  <2>2. regs' = [regs EXCEPT !.low = l]
    BY Zenon DEF PutLow
  <2> HIDE DEF l, H, L, D
  <2>3. regs' \in [drive : D, high : H, low : L]
    BY ONLY <2>1, <2>2
  <2> QED  BY <2>3 DEF H, L, D
<1> QED  BY <1>2, <1>3, <1>6, Zenon DEF PutLow, Rest, IdeTypeOK, CallsType, InCall

\* The idle drive has the type of the drives.
LEMMA IdleType == IdleDev \in [op : {"idle", "in", "out", "packet"}, at : Sector, data : Seq(Value)]
  BY SectorNat DEF IdleDev

\* A record with the fields of a drive.
LEMMA DevTyped ==
  ASSUME NEW o \in {"idle", "in", "out", "packet"}, NEW a \in Sector, NEW d \in Seq(Value)
  PROVE  [op |-> o, at |-> a, data |-> d]
           \in [op : {"idle", "in", "out", "packet"}, at : Sector, data : Seq(Value)]
  OBVIOUS

\* What the drive makes of a command.
LEMMA PutCommandDev ==
  ASSUME NEW t \in Users, PutCommand(t)
  PROVE  dev' = IF request[t].drive = Cd THEN [op |-> "packet", at |-> 0, data |-> <<>>]
                ELSE IF request[t].op = "read"
                     THEN [op |-> "in", at |-> Addressed, data |-> platter[Addressed]]
                     ELSE [op |-> "out", at |-> Addressed, data |-> <<>>]
  BY Zenon DEF PutCommand, Executes

LEMMA PutCommandType ==
  ASSUME IdeTypeOK, NEW t \in Users, PutCommand(t)
  PROVE  IdeTypeOK'
<1>1. InCall(t) /\ "packet" \in Steps /\ "data" \in Steps
  BY DEF PutCommand, At, InCall, Steps
<1>2. CallsType'
  <2>1. PICK x \in Steps : Goto(t, x)
    BY <1>1, Zenon DEF PutCommand
  <2> QED  BY <1>1, <2>1, GoingOn, Zenon DEF PutCommand, Rest
<1>3. bad' \in [Users -> BOOLEAN] /\ spoiled' \in BOOLEAN
  BY CrossesType, Zenon DEF PutCommand
<1>4. Addressed \in Sector
  <2>1. regs.high \in 0..(High - 1) /\ regs.low \in 0..(Low - 1)
    BY DEF IdeTypeOK
  <2> QED  BY <2>1, AddressedSector DEF Addressed
<1>5. platter[Addressed] \in Seq(Value) /\ <<>> \in Seq(Value) /\ 0 \in Sector
  BY <1>4, SectorNat DEF IdeTypeOK
<1>6. dev' \in [op : {"idle", "in", "out", "packet"}, at : Sector, data : Seq(Value)]
  <2>1. \/ dev' = [op |-> "packet", at |-> 0, data |-> <<>>]
        \/ dev' = [op |-> "in", at |-> Addressed, data |-> platter[Addressed]]
        \/ dev' = [op |-> "out", at |-> Addressed, data |-> <<>>]
    BY PutCommandDev
  <2> DEFINE d == platter[Addressed]
             a == Addressed
  <2>2. \/ dev' = [op |-> "packet", at |-> 0, data |-> <<>>]
        \/ dev' = [op |-> "in", at |-> a, data |-> d]
        \/ dev' = [op |-> "out", at |-> a, data |-> <<>>]
    BY <2>1
  <2>3. a \in Sector /\ d \in Seq(Value)
    BY <1>4, <1>5
  <2> HIDE DEF d, a
  <2>4. CASE dev' = [op |-> "packet", at |-> 0, data |-> <<>>]
    BY <1>5, <2>4, DevTyped
  <2>5. CASE dev' = [op |-> "in", at |-> a, data |-> d]
    BY <2>3, <2>5, DevTyped
  <2>6. CASE dev' = [op |-> "out", at |-> a, data |-> <<>>]
    BY <1>5, <2>3, <2>6, DevTyped
  <2> QED  BY <2>2, <2>4, <2>5, <2>6
<1> QED  BY <1>2, <1>3, <1>6, Zenon DEF PutCommand, Rest, IdeTypeOK, CallsType, InCall

LEMMA CommandFailsType ==
  ASSUME IdeTypeOK, NEW t \in Users, CommandFails(t)
  PROVE  IdeTypeOK'
<1>1. InCall(t) /\ "packet" \in Steps /\ "end" \in Steps
  BY DEF CommandFails, At, InCall, Steps
<1>2. CallsType'
  <2>1. PICK x \in Steps : Goto(t, x)
    BY <1>1, Zenon DEF CommandFails
  <2> QED  BY <1>1, <2>1, GoingOn, Zenon DEF CommandFails, Rest
<1>3. bad' \in [Users -> BOOLEAN] /\ spoiled' \in BOOLEAN
  <2>1. {t} \cup Interrupted(t) \in SUBSET Users
    BY Zenon DEF Interrupted
  <2> QED  BY <2>1, SpoilsType, Zenon DEF CommandFails
<1>4. errors' \in Nat
  BY DEF CommandFails, IdeTypeOK
<1>5. dev' \in [op : {"idle", "in", "out", "packet"}, at : Sector, data : Seq(Value)]
  BY IdleType, Zenon DEF CommandFails
<1> QED  BY <1>2, <1>3, <1>4, <1>5, Zenon DEF CommandFails, Rest, IdeTypeOK, CallsType, InCall

LEMMA PutPacketType ==
  ASSUME IdeTypeOK, NEW t \in Users, PutPacket(t)
  PROVE  IdeTypeOK'
<1>1. InCall(t) /\ "data" \in Steps
  BY DEF PutPacket, At, InCall, Steps
<1>2. CallsType'
  BY <1>1, GoingOn, Zenon DEF PutPacket, Rest
<1>3. bad' \in [Users -> BOOLEAN] /\ spoiled' \in BOOLEAN
  BY CrossesType, Zenon DEF PutPacket
<1>4. BlockWords(BlockOf(request[t], sector[t])) \in Seq(Value) /\ 0 \in Sector
  <2>1. request[t] \in Request /\ sector[t] \in Nat
    BY <1>1, InCallRequest, Zenon DEF IdeTypeOK
  <2> QED  BY <2>1, BlockNat, CdBlock, SectorNat
<1>5. dev' \in [op : {"idle", "in", "out", "packet"}, at : Sector, data : Seq(Value)]
  <2>1. dev' = dev \/ dev' = [op |-> "in", at |-> 0, data |-> BlockWords(BlockOf(request[t], sector[t]))]
    BY Zenon DEF PutPacket
  <2>2. CASE dev' = dev
    BY <2>2, Zenon DEF IdeTypeOK
  <2>3. CASE dev' # dev
    <3> DEFINE d == BlockWords(BlockOf(request[t], sector[t]))
    <3>1. dev' = [op |-> "in", at |-> 0, data |-> d] /\ d \in Seq(Value)
      BY <1>4, <2>1, <2>3, Zenon
    <3> HIDE DEF d
    <3> QED  BY <1>4, <3>1, DevTyped
  <2> QED  BY <2>2, <2>3
<1> QED  BY <1>2, <1>3, <1>5, Zenon DEF PutPacket, Rest, IdeTypeOK, CallsType, InCall

DevType == [op : {"idle", "in", "out", "packet"}, at : Sector, data : Seq(Value)]

\* The fields of the drives' state.
LEMMA DevFields ==
  ASSUME IdeTypeOK
  PROVE  /\ dev = [op |-> dev.op, at |-> dev.at, data |-> dev.data]
         /\ dev.op \in {"idle", "in", "out", "packet"} /\ dev.at \in Sector
         /\ dev.data \in Seq(Value)
<1>1. dev \in [op : {"idle", "in", "out", "packet"}, at : Sector, data : Seq(Value)]
  BY Zenon DEF IdeTypeOK
<1> DEFINE O == {"idle", "in", "out", "packet"}
           A == Sector
           D == Seq(Value)
<1>2. dev \in [op : O, at : A, data : D]
  BY <1>1
<1> HIDE DEF O, A, D
<1>3. dev.op \in O /\ dev.at \in A /\ dev.data \in D
      /\ dev = [op |-> dev.op, at |-> dev.at, data |-> dev.data]
  BY ONLY <1>2
<1> QED  BY <1>3 DEF O, A, D

\* The data register: a word of those to come, and the rest of them.
LEMMA GivenWord ==
  ASSUME IdeTypeOK
  PROVE  /\ Word \in Value /\ Given \in DevType /\ Drained \in DevType
         /\ dev.op = "in" /\ Len(dev.data) > 0 => Word = dev.data[1]
         /\ dev.op = "in" /\ Len(dev.data) > 1 =>
              /\ Given.op = "in" /\ Len(Given.data) = Len(dev.data) - 1
              /\ \A j \in 1..Len(Given.data) : Given.data[j] = dev.data[j + 1]
<1>1. /\ dev = [op |-> dev.op, at |-> dev.at, data |-> dev.data]
      /\ dev.op \in {"idle", "in", "out", "packet"} /\ dev.at \in Sector
      /\ dev.data \in Seq(Value)
  BY DevFields
<1>2. Word \in Value /\ (dev.op = "in" /\ Len(dev.data) > 0 => Word = dev.data[1])
  <2>1. dev.data # <<>> => Head(dev.data) \in Value /\ Head(dev.data) = dev.data[1]
    BY <1>1
  <2>2. Len(dev.data) > 0 => dev.data # <<>>
    BY <1>1
  <2>3. Junk \in Value
    BY DEF Value
  <2> QED  BY ONLY <2>1, <2>2, <2>3, Zenon DEF Word
<1>3. dev \in DevType /\ IdleDev \in DevType
  BY IdleType, Zenon DEF IdeTypeOK, DevType
<1>4. CASE dev.op = "in" /\ Len(dev.data) > 1
  <2>1. Given = [op |-> dev.op, at |-> dev.at, data |-> Tail(dev.data)]
    <3>1. Given = [dev EXCEPT !.data = Tail(@)]
      BY <1>4, Zenon DEF Given
    <3> QED  BY <1>1, <3>1
  <2>2. /\ Tail(dev.data) \in Seq(Value) /\ Len(Tail(dev.data)) = Len(dev.data) - 1
        /\ \A j \in 1..(Len(dev.data) - 1) : Tail(dev.data)[j] = dev.data[j + 1]
    BY <1>1, <1>4
  <2>3. Given \in DevType
    BY <1>1, <2>1, <2>2, DevTyped, Zenon DEF DevType
  <2>4. Given.op = dev.op /\ Given.data = Tail(dev.data)
    BY <2>1
  <2>5. Drained \in DevType
    BY <1>3, <2>3, Zenon DEF Drained
  <2> QED  BY <1>2, <1>4, <2>2, <2>3, <2>4, <2>5
<1>5. CASE ~(dev.op = "in" /\ Len(dev.data) > 1)
  <2>1. Given = IdleDev \/ Given = dev
    BY <1>5, Zenon DEF Given
  <2>2. Given \in DevType /\ Drained \in DevType
    BY <1>3, <2>1, Zenon DEF Drained
  <2> QED  BY <1>2, <1>5, <2>2, Zenon
<1> QED  BY <1>4, <1>5

\* A call whose loop goes on, or to the next sector.
LEMMA LoopType ==
  ASSUME IdeTypeOK, NEW t \in Users, InCall(t), NEW ws \in Seq(Value), request' = request,
         \/ words' = [words EXCEPT ![t] = ws] /\ UNCHANGED <<sector, step>>
         \/ NextSector(t)
  PROVE  /\ CallsType' /\ sector' \in [Users -> Nat] /\ words' \in [Users -> Seq(Value)]
         /\ \A u \in Users \ {t} : step'[u] = step[u]
<1>1. sector \in [Users -> Nat] /\ words \in [Users -> Seq(Value)] /\ CallsType
  BY Zenon DEF IdeTypeOK, CallsType
<1>2. CASE words' = [words EXCEPT ![t] = ws] /\ UNCHANGED <<sector, step>>
  <2>1. words' \in [Users -> Seq(Value)] /\ sector' = sector /\ step' = step
    BY <1>1, <1>2
  <2> QED  BY <1>1, <2>1, Zenon DEF CallsType, InCall
<1>3. CASE NextSector(t)
  <2>1. words' = [words EXCEPT ![t] = <<>>] /\ sector' = [sector EXCEPT ![t] = sector[t] + 1]
    BY <1>3, Zenon DEF NextSector
  <2>2. words' \in [Users -> Seq(Value)] /\ sector' \in [Users -> Nat]
    BY <1>1, <2>1
  <2>3. PICK x \in {"head", "end"} : Goto(t, x)
    BY <1>3, Zenon DEF NextSector
  <2>4. x \in Steps
    BY DEF Steps
  <2>5. CallsType' /\ \A u \in Users \ {t} : step'[u] = step[u]
    BY <2>3, <2>4, GoingOn
  <2> QED  BY <2>2, <2>5
<1> QED  BY <1>2, <1>3

\* buf changes for the task of the step only.
LEMMA BufExcept ==
  ASSUME NEW f, NEW g, f = [o \in Users |-> f[o]], NEW t \in Users, NEW x,
         g = f \/ g = [f EXCEPT ![t] = x]
  PROVE  /\ g = [o \in Users |-> g[o]]
         /\ \A u \in Users \ {t} : g[u] = f[u]
         /\ g # f => g[t] = x
  BY Zenon

LEMMA GetWordType ==
  ASSUME IdeTypeOK, NEW t \in Users, GetWord(t)
  PROVE  IdeTypeOK'
<1> DEFINE ws == Append(words[t], Word)
<1>1. InCall(t) /\ request' = request
  BY DEF GetWord, At, InCall
<1>2. ws \in Seq(Value)
  <2>1. words[t] \in Seq(Value) /\ Word \in Value
    BY GivenWord DEF IdeTypeOK
  <2> QED  BY <2>1
<1>3. \/ words' = [words EXCEPT ![t] = ws] /\ UNCHANGED <<sector, step>>
      \/ NextSector(t)
  BY Zenon DEF GetWord
<1>4. CallsType' /\ sector' \in [Users -> Nat] /\ words' \in [Users -> Seq(Value)]
  BY <1>1, <1>2, <1>3, LoopType
<1>5. bad' \in [Users -> BOOLEAN] /\ spoiled' \in BOOLEAN
  BY CrossesType, Zenon DEF GetWord
<1>6. dev' \in DevType
  <2>1. dev' = Given \/ dev' = Drained
    BY Zenon DEF GetWord
  <2> QED  BY <2>1, GivenWord, Zenon
<1>7. buf' = [o \in Users |-> buf'[o]]
  <2>1. buf = [o \in Users |-> buf[o]]
    BY Zenon DEF IdeTypeOK
  <2>2. buf' = buf \/ \E x : buf' = [buf EXCEPT ![t] = x]
    BY Zenon DEF GetWord
  <2> QED  BY <2>1, <2>2, BufExcept
<1> QED  BY <1>4, <1>5, <1>6, <1>7, Zenon DEF GetWord, IdeTypeOK, CallsType, InCall, DevType

LEMMA PutWordType ==
  ASSUME IdeTypeOK, NEW t \in Users, PutWord(t)
  PROVE  IdeTypeOK'
<1> DEFINE v == Written(request[t])[1]
           ws == Append(words[t], v)
<1>1. InCall(t) /\ request' = request
  BY DEF PutWord, At, InCall
<1>2. v \in Value
  <2>1. request[t].at \in Nat
    BY <1>1, InCallRequest, RequestType
  <2>2. v = <<"new", request[t].at>>
    BY Sizes DEF Written, Full
  <2> QED  BY <2>1, <2>2 DEF Value
<1>3. ws \in Seq(Value)
  <2>1. words[t] \in Seq(Value)
    BY DEF IdeTypeOK
  <2> HIDE DEF v
  <2> QED  BY <1>2, <2>1
<1>4. /\ \/ words' = [words EXCEPT ![t] = ws] /\ UNCHANGED <<sector, step>>
         \/ NextSector(t)
      /\ \/ dev' = IdleDev \/ dev' = dev \/ dev' = [dev EXCEPT !.data = Append(@, v)]
      /\ platter' = platter \/ platter' = [platter EXCEPT ![dev.at] = Append(dev.data, v)]
  BY Zenon DEF PutWord
<1> HIDE DEF ws
<1>5. CallsType' /\ sector' \in [Users -> Nat] /\ words' \in [Users -> Seq(Value)]
  BY <1>1, <1>3, <1>4, LoopType
<1>6. bad' \in [Users -> BOOLEAN] /\ spoiled' \in BOOLEAN
  BY CrossesType, Zenon DEF PutWord
<1> HIDE DEF v
<1>7. /\ dev = [op |-> dev.op, at |-> dev.at, data |-> dev.data]
      /\ dev.op \in {"idle", "in", "out", "packet"} /\ dev.at \in Sector
      /\ dev.data \in Seq(Value) /\ Append(dev.data, v) \in Seq(Value)
  BY <1>2, DevFields
<1>8. dev' \in DevType
  <2>1. CASE dev' = [dev EXCEPT !.data = Append(@, v)]
    <3>1. dev' = [op |-> dev.op, at |-> dev.at, data |-> Append(dev.data, v)]
      BY <1>7, <2>1
    <3> QED  BY <1>7, <3>1, DevTyped, Zenon DEF DevType
  <2>2. dev \in DevType /\ IdleDev \in DevType
    BY IdleType, Zenon DEF IdeTypeOK, DevType
  <2> QED  BY <1>4, <2>1, <2>2, Zenon
<1>9. platter' \in [Sector -> Seq(Value)]
  <2>1. platter \in [Sector -> Seq(Value)]
    BY Zenon DEF IdeTypeOK
  <2> QED  BY <1>4, <1>7, <2>1, Zenon
<1> QED  BY <1>5, <1>6, <1>8, <1>9, Zenon DEF PutWord, IdeTypeOK, CallsType, InCall, DevType

LEMMA CallEndsType ==
  ASSUME IdeTypeOK, NEW t \in Users, CallEnds(t)
  PROVE  /\ IdeTypeOK' /\ ~InCall(t)'
         /\ \A u \in Users \ {t} : /\ request'[u] = request[u] /\ step'[u] = step[u]
                                   /\ sector'[u] = sector[u] /\ words'[u] = words[u]
                                   /\ buf'[u] = buf[u] /\ bad'[u] = bad[u]
<1>1. CallsType /\ sector \in [Users -> Nat] /\ words \in [Users -> Seq(Value)]
      /\ buf = [o \in Users |-> buf[o]] /\ bad \in [Users -> BOOLEAN]
  BY Zenon DEF IdeTypeOK, CallsType
<1>2. /\ step' = [step EXCEPT ![t] = "out"] /\ request' = [request EXCEPT ![t] = [op |-> "none"]]
      /\ sector' = [sector EXCEPT ![t] = 0] /\ words' = [words EXCEPT ![t] = <<>>]
      /\ buf' = [buf EXCEPT ![t] = <<>>] /\ bad' = [bad EXCEPT ![t] = FALSE]
  BY Zenon DEF CallEnds, Goto
<1>3. /\ step' \in [Users -> Steps \cup {"out"}]
      /\ request' \in [Users -> Request \cup {[op |-> "none"]}]
      /\ step'[t] = "out" /\ request'[t] = [op |-> "none"]
      /\ \A u \in Users \ {t} : request'[u] = request[u] /\ step'[u] = step[u]
  BY <1>1, <1>2, Zenon DEF CallsType
<1>4. CallsType' /\ ~InCall(t)'
  BY <1>1, <1>3, NoneNoRequest, Zenon DEF CallsType, InCall
<1>5. sector' \in [Users -> Nat] /\ \A u \in Users \ {t} : sector'[u] = sector[u]
  BY <1>1, <1>2
<1>6. words' \in [Users -> Seq(Value)] /\ \A u \in Users \ {t} : words'[u] = words[u]
  BY <1>1, <1>2
<1>7. bad' \in [Users -> BOOLEAN] /\ \A u \in Users \ {t} : bad'[u] = bad[u]
  BY <1>1, <1>2, Zenon
<1>8. buf' = [o \in Users |-> buf'[o]] /\ \A u \in Users \ {t} : buf'[u] = buf[u]
  BY <1>1, <1>2, BufExcept
<1> QED  BY <1>3, <1>4, <1>5, <1>6, <1>7, <1>8, Zenon DEF CallEnds, IdeTypeOK, CallsType, InCall

LEMMA BeginType ==
  ASSUME IdeTypeOK, NEW t \in Users, NEW r \in Request, Begin(t, r)
  PROVE  /\ IdeTypeOK' /\ InCall(t)' /\ ~InCall(t)
         /\ request'[t] = r /\ step'[t] = "head" /\ sector'[t] = 0
         /\ words'[t] = <<>> /\ buf'[t] = <<>> /\ (bad'[t] <=> ~InRange(r))
         /\ \A u \in Users \ {t} : /\ request'[u] = request[u] /\ step'[u] = step[u]
                                   /\ sector'[u] = sector[u] /\ words'[u] = words[u]
                                   /\ buf'[u] = buf[u]
                                   /\ bad'[u] <=> bad[u] \/ u \in Interrupted(t)
         /\ ~spoiled' => /\ ~spoiled
                         /\ \A o \in Interrupted(t) : request[o].op # "write"
                         /\ (r.op = "write" => InRange(r))
<1>1. CallsType /\ sector \in [Users -> Nat] /\ words \in [Users -> Seq(Value)]
      /\ buf = [o \in Users |-> buf[o]] /\ bad \in [Users -> BOOLEAN]
  BY Zenon DEF IdeTypeOK, CallsType
<1>2. /\ step' = [step EXCEPT ![t] = "head"] /\ request' = [request EXCEPT ![t] = r]
      /\ sector' = [sector EXCEPT ![t] = 0] /\ words' = [words EXCEPT ![t] = <<>>]
      /\ buf' = [buf EXCEPT ![t] = <<>>]
      /\ bad' = [o \in Users |-> IF o = t THEN ~InRange(r) ELSE bad[o] \/ o \in Interrupted(t)]
  BY Zenon DEF Begin, Goto
<1>3. ~InCall(t) /\ "head" \in Steps /\ "head" # "out"
  BY DEF Begin, At, InCall, Steps
<1>4. /\ step' \in [Users -> Steps \cup {"out"}]
      /\ request' \in [Users -> Request \cup {[op |-> "none"]}]
      /\ step'[t] = "head" /\ request'[t] = r
      /\ \A u \in Users \ {t} : request'[u] = request[u] /\ step'[u] = step[u]
  BY <1>1, <1>2, <1>3, Zenon DEF CallsType
<1>5. CallsType' /\ InCall(t)'
  BY <1>1, <1>3, <1>4, Zenon DEF CallsType, InCall
<1>6. sector' \in [Users -> Nat] /\ sector'[t] = 0 /\ \A u \in Users \ {t} : sector'[u] = sector[u]
  BY <1>1, <1>2
<1>7. words' \in [Users -> Seq(Value)] /\ words'[t] = <<>> /\ \A u \in Users \ {t} : words'[u] = words[u]
  BY <1>1, <1>2
<1>8. /\ bad'[t] <=> ~InRange(r)
      /\ \A u \in Users \ {t} : bad'[u] <=> bad[u] \/ u \in Interrupted(t)
      /\ bad' \in [Users -> BOOLEAN]
  <2>1. \A o \in Users : (IF o = t THEN ~InRange(r) ELSE bad[o] \/ o \in Interrupted(t)) \in BOOLEAN
    BY Zenon DEF InRange
  <2> QED  BY ONLY <1>2, <2>1, Zenon
<1>9. buf' = [o \in Users |-> buf'[o]] /\ buf'[t] = <<>> /\ \A u \in Users \ {t} : buf'[u] = buf[u]
  BY <1>1, <1>2, BufExcept
<1>10. /\ spoiled' \in BOOLEAN
       /\ ~spoiled' => /\ ~spoiled
                       /\ \A o \in Interrupted(t) : request[o].op # "write"
                       /\ (r.op = "write" => InRange(r))
  BY Zenon DEF Begin
<1>11. want' \in [Sector -> Seq(Value)]
  <2> DEFINE c(s) == IF r.op = "write" /\ s \in r.at..(r.at + r.cnt - 1) THEN Written(r) ELSE want[s]
  <2>1. Written(r) \in Seq(Value)
    <3>1. <<"new", r.at>> \in Value
      BY RequestType DEF Value
    <3> QED  BY <3>1, FullWords DEF Written
  <2>2. \A s \in Sector : want[s] \in Seq(Value)
    BY Zenon DEF IdeTypeOK
  <2>3. \A s \in Sector : c(s) \in Seq(Value)
    BY <2>1, <2>2, Zenon
  <2>4. want' = [s \in Sector |-> c(s)]
    BY Zenon DEF Begin
  <2> HIDE DEF c
  <2> QED  BY ONLY <2>3, <2>4, Zenon
<1>12. calls' \in Nat
  BY DEF Begin, IdeTypeOK
<1>13. IdeTypeOK'
  BY <1>4, <1>5, <1>6, <1>7, <1>8, <1>9, <1>10, <1>11, <1>12, Zenon
     DEF Begin, IdeTypeOK, CallsType, InCall
<1> QED  BY <1>3, <1>4, <1>5, <1>6, <1>7, <1>8, <1>9, <1>10, <1>13, Zenon

-------------------------------------------------------------------------------
(* The steps                                                                *)

\* Behind a step of t at the registers no other call counts.
LEMMA OthersCrossed ==
  ASSUME IdeTypeOK, NEW t \in Users, NEW u \in Users \ {t},
         \A o \in Interrupted(t) : bad'[o] = TRUE,
         request'[u] = request[u], step'[u] = step[u]
  PROVE  /\ ~Uncrossed(u)'
         /\ Writes(u) => u \in Interrupted(t)
         /\ Writes(u)' <=> Writes(u)
<1>1. InCall(u) => request[u].op \in {"read", "write"}
  BY InCallRequest, RequestType
<1>2. InCall(u) => request[u].op = "read" \/ request[u].op = "write"
  BY <1>1
<1> QED  BY <1>2, Zenon DEF Uncrossed, Interrupted, Writes, InCall

\* A step that writes no sector of the disk.
LEMMA QuietStep ==
  ASSUME IdeInv, NEW t \in Users, InCall(t), MayRun(t), step[t] # "end",
         IdeTypeOK', InCall(t)', Crosses(t), request' = request,
         \A u \in Users \ {t} : step'[u] = step[u],
         Uncrossed(t) /\ Uncrossed(t)' => Straight(t)',
         want' = want, platter' = platter, errors' = errors,
         request[t].op = "write" => sector' = sector /\ step'[t] # "end"
  PROVE  IdeInv'
<1>1. /\ bad' \in [Users -> BOOLEAN] /\ spoiled' \in BOOLEAN
      /\ bad'[t] <=> bad[t]
      /\ \A o \in Interrupted(t) : bad'[o] = TRUE
      /\ ~spoiled' => ~spoiled /\ \A o \in Interrupted(t) : request[o].op # "write"
  BY CrossesType DEF IdeInv
<1>2. \A u \in Users \ {t} : /\ ~Uncrossed(u)'
                             /\ Writes(u) => u \in Interrupted(t)
                             /\ Writes(u)' <=> Writes(u)
  BY <1>1, OthersCrossed, Zenon DEF IdeInv
<1>3. OneCall'
  BY <1>2, Zenon DEF OneCall
<1>4. Uncrossed(t)' => Uncrossed(t)
  BY <1>1, Zenon DEF Uncrossed
<1>5. \A u \in Users : Uncrossed(u)' => Straight(u)'
  BY <1>2, <1>4, Zenon
<1>6. DiskInv'
  <2>1. SUFFICES ASSUME ~spoiled'
                 PROVE  /\ \A u \in Users : Writes(u)' => ~bad'[u]
                        /\ \A s \in Sector : platter'[s] = want'[s]
                                             \/ \E u \in Users : Writes(u)' /\ s \in Left(u)'
    BY Zenon DEF DiskInv
  <2>2. ~spoiled /\ \A u \in Users \ {t} : ~Writes(u)
    BY <1>1, <1>2, <2>1, Zenon DEF Writes
  <2>3. /\ \A u \in Users : Writes(u) => ~bad[u]
        /\ \A s \in Sector : platter[s] = want[s] \/ \E u \in Users : Writes(u) /\ s \in Left(u)
    BY <2>2, Zenon DEF IdeInv, DiskInv
  <2>4. Writes(t)' => Writes(t)
    BY Zenon DEF Writes
  <2>5. \A u \in Users : Writes(u)' => ~bad'[u]
    BY <1>1, <1>2, <2>2, <2>3, <2>4, Zenon
  <2>6. Writes(t) => Writes(t)' /\ Left(t)' = Left(t)
    BY Zenon DEF Writes, Left
  <2> QED  BY <2>2, <2>3, <2>5, <2>6, Zenon
<1>7. Undisturbed'
  <2>1. SUFFICES ASSUME NEW u \in Users, InCall(u)', request'[u].masked, bad'[u]
                 PROVE  ~InRange(request'[u]) \/ errors' > 0
    BY Zenon DEF Undisturbed, InRange
  <2>2. u = t
    <3>1. u # t => InCall(u)
      BY <2>1, Zenon DEF InCall
    <3> QED  BY <2>1, <3>1, Zenon DEF MayRun
  <2> QED  BY <1>1, <2>1, <2>2, Zenon DEF IdeInv, Undisturbed
<1>8. WholeSectors'
  BY Zenon DEF IdeInv, WholeSectors
<1> QED  BY <1>3, <1>5, <1>6, <1>7, <1>8, Zenon DEF IdeInv

\* What the parts of Straight are about.
LEMMA StraightParts ==
  ASSUME IdeInv, NEW t \in Users, Uncrossed(t)
  PROVE  /\ request[t] \in Request /\ InRange(request[t])
         /\ sector[t] \in Nat /\ words[t] \in Seq(Value)
         /\ Looped(t) /\ Selected(t) /\ Coming(t) /\ Going(t)
         /\ ReadSoFar(t) /\ Wanted(t)
<1>1. InCall(t) /\ Straight(t)
  BY Zenon DEF IdeInv, Uncrossed
<1>2. request[t] \in Request
  BY <1>1, InCallRequest DEF IdeInv
<1> QED  BY <1>1, <1>2, Zenon DEF IdeInv, IdeTypeOK, Straight

\* One lemma for each action: the invariant holds behind it.
LEMMA PutHeadInv ==
  ASSUME IdeInv, NEW t \in Users, PutHead(t)
  PROVE  IdeInv'
<1>1. InCall(t) /\ MayRun(t) /\ step[t] = "head"
  BY DEF PutHead, At, InCall
<1>2. /\ Goto(t, "low") /\ request' = request /\ sector' = sector /\ words' = words /\ buf' = buf
      /\ platter' = platter /\ want' = want /\ errors' = errors /\ dev' = dev /\ Crosses(t)
  BY Zenon DEF PutHead, Rest
<1>3. "low" \in Steps
  BY DEF Steps
<1>4. step'[t] = "low" /\ \A u \in Users \ {t} : step'[u] = step[u]
  BY <1>1, <1>2, <1>3, GoingOn, Zenon DEF IdeInv
<1>5. IdeTypeOK'
  BY PutHeadType DEF IdeInv
<1>6. ASSUME Uncrossed(t)
      PROVE  Straight(t)'
  <2>1. /\ request[t] \in Request /\ InRange(request[t]) /\ sector[t] \in Nat
        /\ Looped(t) /\ ReadSoFar(t) /\ Wanted(t)
    BY <1>6, StraightParts
  <2>2. Looped(t)'
    BY <1>1, <1>2, <1>4, <2>1 DEF Looped, Steps
  <2>3. Selected(t)'
    <3>1. regs' = [regs EXCEPT !.drive = request[t].drive,
                               !.high = IF request[t].drive = Cd THEN 0 ELSE request[t].at \div Low]
      BY Zenon DEF PutHead
    <3>2. regs \in [drive : {Disk, Cd}, high : 0..(High - 1), low : 0..(Low - 1)]
      BY Zenon DEF IdeInv, IdeTypeOK
    <3>3. regs'.drive = request[t].drive
          /\ regs'.high = IF request[t].drive = Cd THEN 0 ELSE request[t].at \div Low
      BY ONLY <3>1, <3>2
    <3> QED  BY <1>2, <1>4, <3>3 DEF Selected, Disk, Cd
  <2>4. Coming(t)' /\ Going(t)'
    BY <1>4 DEF Coming, Going
  <2>5. ReadSoFar(t)' /\ Wanted(t)'
    BY <1>2, <2>1, Zenon DEF ReadSoFar, Wanted, Now
  <2>6. InRange(request[t])'
    BY <1>2, <2>1, Zenon DEF InRange
  <2> QED  BY <2>2, <2>3, <2>4, <2>5, <2>6, Zenon DEF Straight
<1>7. InCall(t)' /\ step'[t] # "end" /\ step[t] # "end"
  BY <1>1, <1>4 DEF InCall
<1> QED  BY <1>1, <1>2, <1>4, <1>5, <1>6, <1>7, QuietStep, Zenon

LEMMA PutLowInv ==
  ASSUME IdeInv, NEW t \in Users, PutLow(t)
  PROVE  IdeInv'
<1>1. InCall(t) /\ MayRun(t) /\ step[t] = "low"
  BY DEF PutLow, At, InCall
<1>2. /\ Goto(t, "command") /\ request' = request /\ sector' = sector /\ words' = words /\ buf' = buf
      /\ platter' = platter /\ want' = want /\ errors' = errors /\ dev' = dev /\ Crosses(t)
  BY Zenon DEF PutLow, Rest
<1>3. "command" \in Steps
  BY DEF Steps
<1>4. step'[t] = "command" /\ \A u \in Users \ {t} : step'[u] = step[u]
  BY <1>1, <1>2, <1>3, GoingOn, Zenon DEF IdeInv
<1>5. IdeTypeOK'
  BY PutLowType DEF IdeInv
<1>6. ASSUME Uncrossed(t)
      PROVE  Straight(t)'
  <2>1. /\ request[t] \in Request /\ InRange(request[t]) /\ sector[t] \in Nat
        /\ Looped(t) /\ Selected(t) /\ ReadSoFar(t) /\ Wanted(t)
    BY <1>6, StraightParts
  <2>2. Looped(t)'
    BY <1>1, <1>2, <1>4, <2>1 DEF Looped, Steps
  <2>3. Selected(t)'
    <3>1. regs' = [regs EXCEPT !.low = IF request[t].drive = Cd THEN 0
                                       ELSE LowOf(request[t], sector[t])]
      BY Zenon DEF PutLow
    <3>2. regs \in [drive : {Disk, Cd}, high : 0..(High - 1), low : 0..(Low - 1)]
      BY Zenon DEF IdeInv, IdeTypeOK
    <3>3. /\ regs'.drive = regs.drive /\ regs'.high = regs.high
          /\ regs'.low = IF request[t].drive = Cd THEN 0 ELSE LowOf(request[t], sector[t])
      BY ONLY <3>1, <3>2
    <3>4. regs.drive = request[t].drive /\ (request[t].drive = Disk => regs.high = request[t].at \div Low)
      BY <1>1, <2>1 DEF Selected
    <3>5. request[t].drive = Disk => regs'.low = LowOf(request[t], sector[t])
      BY <3>3 DEF Disk, Cd
    <3> QED  BY <1>2, <3>3, <3>4, <3>5, Zenon DEF Selected, LowOf
  <2>4. Coming(t)' /\ Going(t)'
    BY <1>4 DEF Coming, Going
  <2>5. ReadSoFar(t)' /\ Wanted(t)'
    BY <1>2, <2>1, Zenon DEF ReadSoFar, Wanted, Now
  <2>6. InRange(request[t])'
    BY <1>2, <2>1, Zenon DEF InRange
  <2> QED  BY <2>2, <2>3, <2>4, <2>5, <2>6, Zenon DEF Straight
<1>7. InCall(t)' /\ step'[t] # "end" /\ step[t] # "end"
  BY <1>1, <1>4 DEF InCall
<1> QED  BY <1>1, <1>2, <1>4, <1>5, <1>6, <1>7, QuietStep, Zenon

\* The words of a transfer when it begins.
LEMMA WholeType ==
  ASSUME IdeTypeOK, NEW r \in Request, InRange(r), NEW k \in Nat, k < r.cnt,
         WholeSectors
  PROVE  /\ Whole(r, k) \in Seq(Value) /\ Len(Whole(r, k)) = Transfer(r)
         /\ Transfer(r) \in Nat \ {0}
<1>1. r.drive \in {Disk, Cd} /\ Disk # Cd
  BY RequestType DEF Disk, Cd
<1>2. W \in Nat \ {0} /\ W * Per \in Nat \ {0}
  BY Sizes
<1>3. CASE r.drive = Disk
  <2>1. r.at + k \in Sector
    BY <1>3, RangeSectors
  <2>2. platter[r.at + k] \in Seq(Value) /\ Len(platter[r.at + k]) = W
    BY <2>1 DEF IdeTypeOK, WholeSectors
  <2>3. Whole(r, k) = platter[r.at + k] /\ Transfer(r) = W
    BY <1>1, <1>3, Zenon DEF Whole, Transfer
  <2> QED  BY <1>2, <2>2, <2>3
<1>4. CASE r.drive = Cd
  <2>1. BlockOf(r, k) \in Nat
    BY BlockNat
  <2>2. Whole(r, k) = BlockWords(BlockOf(r, k)) /\ Transfer(r) = W * Per
    BY <1>4, Zenon DEF Whole, Transfer
  <2> QED  BY <1>2, <2>1, <2>2, CdBlock
<1> QED  BY <1>1, <1>3, <1>4, Zenon

LEMMA PutCommandInv ==
  ASSUME IdeInv, NEW t \in Users, PutCommand(t)
  PROVE  IdeInv'
<1> DEFINE r == request[t]
           k == sector[t]
<1>1. InCall(t) /\ MayRun(t) /\ step[t] = "command"
  BY DEF PutCommand, At, InCall
<1>2. /\ Goto(t, IF r.drive = Cd THEN "packet" ELSE "data")
      /\ request' = request /\ sector' = sector /\ words' = words /\ buf' = buf
      /\ platter' = platter /\ want' = want /\ errors' = errors /\ regs' = regs /\ Crosses(t)
  BY Zenon DEF PutCommand, Rest
<1>3. "packet" \in Steps /\ "data" \in Steps
  BY DEF Steps
<1>4. /\ step'[t] = (IF r.drive = Cd THEN "packet" ELSE "data")
      /\ \A u \in Users \ {t} : step'[u] = step[u]
  <2> DEFINE x == IF r.drive = Cd THEN "packet" ELSE "data"
  <2>1. x \in Steps /\ Goto(t, x)
    BY <1>2, <1>3
  <2> HIDE DEF x
  <2>2. step'[t] = x /\ \A u \in Users \ {t} : step'[u] = step[u]
    BY <1>1, <1>2, <2>1, GoingOn, Zenon DEF IdeInv
  <2> QED  BY <2>2 DEF x
<1>5. IdeTypeOK'
  BY PutCommandType DEF IdeInv
<1>6. ASSUME Uncrossed(t)
      PROVE  Straight(t)'
  <2>1. /\ r \in Request /\ InRange(r) /\ k \in Nat /\ words[t] \in Seq(Value)
        /\ Looped(t) /\ Selected(t) /\ ReadSoFar(t) /\ Wanted(t)
    BY <1>6, StraightParts
  <2>2. r.drive \in {Disk, Cd} /\ Disk # Cd /\ r.op \in {"read", "write"}
        /\ (r.drive = Cd => r.op = "read")
    BY <2>1, RequestType DEF Disk, Cd
  <2>3. words[t] = <<>> /\ k < r.cnt
    BY <1>1, <2>1 DEF Looped, Steps
  <2>4. dev' = IF r.drive = Cd THEN [op |-> "packet", at |-> 0, data |-> <<>>]
               ELSE IF r.op = "read"
                    THEN [op |-> "in", at |-> Addressed, data |-> platter[Addressed]]
                    ELSE [op |-> "out", at |-> Addressed, data |-> <<>>]
    BY PutCommandDev
  <2>5. Whole(r, k) \in Seq(Value) /\ Len(Whole(r, k)) = Transfer(r)
        /\ Transfer(r) \in Nat \ {0}
    BY <2>1, <2>3, WholeType DEF IdeInv
  <2>6. r.drive = Disk => Addressed = r.at + k
    <3>1. SUFFICES ASSUME r.drive = Disk PROVE Addressed = r.at + k
      OBVIOUS
    <3>2. regs.high = r.at \div Low /\ regs.low = LowOf(r, k)
      BY <1>1, <2>1, <3>1 DEF Selected
    <3>3. (r.at \div Low) * Low + LowOf(r, k) = r.at + k
      BY <2>1, <2>3, <3>1, RangeSectors
    <3> QED  BY <3>2, <3>3 DEF Addressed
  <2> HIDE DEF r, k
  <2>7. ASSUME r.drive = Cd
       PROVE  Looped(t)' /\ Selected(t)' /\ Coming(t)' /\ Going(t)'
    <3>1. dev'.op = "packet" /\ step'[t] = "packet"
      BY <1>4, <2>4, <2>7
    <3>2. Looped(t)'
      BY <1>2, <2>3, <2>7, <3>1 DEF Looped, Steps, r, k
    <3>3. Selected(t)' /\ Coming(t)' /\ Going(t)'
      BY <3>1 DEF Selected, Coming, Going
    <3> QED  BY <3>2, <3>3, Zenon
  <2>8. ASSUME r.drive = Disk, r.op = "read"
       PROVE  Looped(t)' /\ Selected(t)' /\ Coming(t)' /\ Going(t)'
    <3>1. step'[t] = "data"
      BY <1>4, <2>2, <2>8
    <3>2. dev'.op = "in" /\ dev'.data = Whole(r, k)
      <4>1. dev' = [op |-> "in", at |-> Addressed, data |-> platter[Addressed]]
        BY <2>2, <2>4, <2>8
      <4>2. Whole(r, k) = platter[Addressed]
        BY <2>2, <2>6, <2>8, Zenon DEF Whole
      <4> QED  BY <4>1, <4>2
    <3>3. Looped(t)'
      BY <1>2, <2>3, <3>1 DEF Looped, Steps, r, k
    <3>4. Selected(t)' /\ Going(t)'
      BY <1>2, <2>8, <3>1 DEF Selected, Going, r
    <3>5. Whole(r, k)' = Whole(r, k)
      BY <1>2, Zenon DEF Whole, BlockOf, r, k
    <3>6. Coming(t)'
      <4> DEFINE all == Whole(r, k)
      <4>1. all \in Seq(Value) /\ Len(all) = Transfer(r) /\ Transfer(r) \in Nat \ {0}
        BY <2>5
      <4>2. request'[t] = r /\ sector'[t] = k /\ words'[t] = <<>> /\ Whole(request[t], sector[t])' = all
        BY <1>2, <2>3, <3>5, Zenon DEF r, k
      <4>3. Transfer(request[t])' = Transfer(r)
        BY <4>2, Zenon DEF Transfer
      <4> HIDE DEF all
      <4>4. /\ dev'.op = "in" /\ Len(dev'.data) > 0
            /\ Len(words'[t]) + Len(dev'.data) = Transfer(r)
            /\ \A j \in 1..Len(words'[t]) : words'[t][j] = all[j]
            /\ \A j \in 1..Len(dev'.data) : dev'.data[j] = all[Len(words'[t]) + j]
        <5>1. dev'.op = "in" /\ dev'.data = all /\ words'[t] = <<>>
          BY <3>2, <4>2 DEF all
        <5> QED  BY ONLY <4>1, <5>1
      <4> QED  BY <4>2, <4>3, <4>4, Zenon DEF Coming
    <3> QED  BY <3>3, <3>4, <3>6, Zenon
  <2>9. ASSUME r.drive = Disk, r.op = "write"
       PROVE  Looped(t)' /\ Selected(t)' /\ Coming(t)' /\ Going(t)'
    <3>1. step'[t] = "data"
      BY <1>4, <2>2, <2>9
    <3>2. dev'.op = "out" /\ dev'.data = <<>> /\ dev'.at = r.at + k
      <4>1. dev' = [op |-> "out", at |-> Addressed, data |-> <<>>]
        BY <2>2, <2>4, <2>9
      <4> QED  BY <2>6, <2>9, <4>1
    <3>3. Looped(t)'
      BY <1>2, <2>3, <3>1 DEF Looped, Steps, r, k
    <3>4. Selected(t)' /\ Coming(t)'
      BY <1>2, <2>9, <3>1 DEF Selected, Coming, r
    <3>5. Going(t)'
      BY <1>2, <2>3, <3>1, <3>2, Sizes DEF Going, r, k
    <3> QED  BY <3>3, <3>4, <3>5, Zenon
  <2>10. Looped(t)' /\ Selected(t)' /\ Coming(t)' /\ Going(t)'
    <3>1. \/ r.drive = Cd
          \/ r.drive = Disk /\ r.op = "read"
          \/ r.drive = Disk /\ r.op = "write"
      BY <2>2
    <3> QED  BY <3>1, <2>7, <2>8, <2>9, Zenon
  <2>11. ReadSoFar(t)' /\ Wanted(t)'
    BY <1>2, <2>1, Zenon DEF ReadSoFar, Wanted, Now
  <2>12. InRange(request[t])'
    BY <1>2, <2>1, Zenon DEF InRange, r
  <2> QED  BY <2>10, <2>11, <2>12, Zenon DEF Straight
<1>7. InCall(t)' /\ step'[t] # "end" /\ step[t] # "end"
  BY <1>1, <1>4 DEF InCall
<1> QED  BY <1>1, <1>2, <1>4, <1>5, <1>6, <1>7, QuietStep, Zenon

LEMMA PutPacketInv ==
  ASSUME IdeInv, NEW t \in Users, PutPacket(t)
  PROVE  IdeInv'
<1> DEFINE r == request[t]
           k == sector[t]
<1>1. InCall(t) /\ MayRun(t) /\ step[t] = "packet"
  BY DEF PutPacket, At, InCall
<1>2. /\ Goto(t, "data")
      /\ request' = request /\ sector' = sector /\ words' = words /\ buf' = buf
      /\ platter' = platter /\ want' = want /\ errors' = errors /\ regs' = regs /\ Crosses(t)
  BY Zenon DEF PutPacket, Rest
<1>3. "data" \in Steps
  BY DEF Steps
<1>4. step'[t] = "data" /\ \A u \in Users \ {t} : step'[u] = step[u]
  BY <1>1, <1>2, <1>3, GoingOn, Zenon DEF IdeInv
<1>5. IdeTypeOK'
  BY PutPacketType DEF IdeInv
<1>6. ASSUME Uncrossed(t)
      PROVE  Straight(t)'
  <2>1. /\ r \in Request /\ InRange(r) /\ k \in Nat /\ words[t] \in Seq(Value)
        /\ Looped(t) /\ Selected(t) /\ ReadSoFar(t) /\ Wanted(t)
    BY <1>6, StraightParts
  <2>2. words[t] = <<>> /\ k < r.cnt /\ r.drive = Cd /\ dev.op = "packet"
    BY <1>1, <2>1 DEF Looped, Steps
  <2>3. r.op = "read"
    BY <2>1, <2>2, RequestType
  <2>4. Whole(r, k) \in Seq(Value) /\ Len(Whole(r, k)) = Transfer(r)
        /\ Transfer(r) \in Nat \ {0}
    BY <2>1, <2>2, WholeType DEF IdeInv
  <2> DEFINE all == Whole(r, k)
  <2>5. dev'.op = "in" /\ dev'.data = all
    <3>1. all = BlockWords(BlockOf(r, k))
      BY <2>2, Zenon DEF Whole
    <3>2. dev' = [op |-> "in", at |-> 0, data |-> BlockWords(BlockOf(r, k))]
      BY <2>2, Zenon DEF PutPacket
    <3> QED  BY <3>1, <3>2
  <2>6. request'[t] = r /\ sector'[t] = k /\ words'[t] = <<>> /\ Whole(request[t], sector[t])' = all
        /\ Transfer(request[t])' = Transfer(r)
    BY <1>2, <2>2, Zenon DEF Whole, BlockOf, Transfer
  <2> HIDE DEF r, k, all
  <2>7. Looped(t)'
    BY <1>2, <1>4, <2>2 DEF Looped, Steps, r, k
  <2>8. Selected(t)' /\ Going(t)'
    BY <1>4, <2>3, <2>6 DEF Selected, Going
  <2>9. Coming(t)'
    <3>1. /\ dev'.op = "in" /\ Len(dev'.data) > 0
          /\ Len(words'[t]) + Len(dev'.data) = Transfer(r)
          /\ \A j \in 1..Len(words'[t]) : words'[t][j] = all[j]
          /\ \A j \in 1..Len(dev'.data) : dev'.data[j] = all[Len(words'[t]) + j]
      <4>1. all \in Seq(Value) /\ Len(all) = Transfer(r) /\ Transfer(r) \in Nat \ {0}
        BY <2>4 DEF all
      <4>2. dev'.op = "in" /\ dev'.data = all /\ words'[t] = <<>>
        BY <2>5, <2>6
      <4> QED  BY ONLY <4>1, <4>2
    <3> QED  BY <2>6, <3>1, Zenon DEF Coming
  <2>10. ReadSoFar(t)' /\ Wanted(t)'
    BY <1>2, <2>1, Zenon DEF ReadSoFar, Wanted, Now
  <2>11. InRange(request[t])'
    BY <1>2, <2>1, Zenon DEF InRange, r
  <2> QED  BY <2>7, <2>8, <2>9, <2>10, <2>11, Zenon DEF Straight
<1>7. InCall(t)' /\ step'[t] # "end" /\ step[t] # "end"
  BY <1>1, <1>4 DEF InCall
<1> QED  BY <1>1, <1>2, <1>4, <1>5, <1>6, <1>7, QuietStep, Zenon

\* A sequence and the next of its elements.
LEMMA AppendNext ==
  ASSUME NEW n \in Nat, NEW S, NEW f \in [1..(n + 1) -> S], NEW b, b = [j \in 1..n |-> f[j]]
  PROVE  Append(b, f[n + 1]) = [j \in 1..(n + 1) |-> f[j]]
<1>1. \A j \in 1..n : f[j] \in S
  OBVIOUS
<1>2. b \in Seq(S) /\ Len(b) = n /\ \A j \in 1..n : b[j] = f[j]
  BY <1>1
<1>3. f[n + 1] \in S
  OBVIOUS
<1> DEFINE a == Append(b, f[n + 1])
<1>4. a \in Seq(S) /\ Len(a) = n + 1 /\ \A j \in 1..(n + 1) : a[j] = f[j]
  BY <1>2, <1>3
<1> HIDE DEF a
<1>5. a = [j \in 1..(n + 1) |-> a[j]]
  BY <1>4, AsFunction
<1>6. a = [j \in 1..(n + 1) |-> f[j]]
  BY ONLY <1>4, <1>5, Zenon
<1> QED  BY <1>6 DEF a

\* Two sequences with the same elements.
LEMMA SameWords ==
  ASSUME NEW S, NEW a \in Seq(S), NEW b \in Seq(S), NEW n \in Nat, Len(a) = n, Len(b) = n,
         \A j \in 1..n : a[j] = b[j]
  PROVE  a = b
<1>1. a = [j \in 1..n |-> a[j]] /\ b = [j \in 1..n |-> b[j]]
  BY AsFunction
<1> QED  BY ONLY <1>1, \A j \in 1..n : a[j] = b[j], Zenon

\* What a call of a CD reads is on it, within the range of the byte address.
LEMMA CdRange ==
  ASSUME NEW r \in Request, InRange(r), r.drive = Cd, NEW k \in Nat, k < r.cnt
  PROVE  r.at + k < Span /\ r.at + k \in Nat
<1>1. r.at \in Nat /\ r.cnt \in Nat \ {0}
  BY RequestType
<1>2. r.at + r.cnt - 1 < Span
  BY DEF InRange
<1> QED  BY <1>1, <1>2, Sizes

\* The sectors of a call that stays in its range have words.
LEMMA NowType ==
  ASSUME IdeTypeOK, NEW r \in Request, InRange(r), NEW k \in Nat, k < r.cnt
  PROVE  Now(r, r.at + k) \in Seq(Value)
<1>1. r.drive \in {Disk, Cd} /\ Disk # Cd
  BY RequestType DEF Disk, Cd
<1>2. CASE r.drive = Disk
  <2>1. platter[r.at + k] \in Seq(Value)
    BY <1>2, RangeSectors DEF IdeTypeOK
  <2> QED  BY <1>1, <1>2, <2>1, Zenon DEF Now
<1>3. CASE r.drive = Cd
  <2>1. <<"cd", r.at + k>> \in Value
    BY <1>3, CdRange DEF Value
  <2>2. CdWords(r.at + k) \in Seq(Value)
    BY <2>1, FullWords DEF CdWords, CdWord
  <2> QED  BY <1>3, <2>2, Zenon DEF Now
<1> QED  BY <1>1, <1>2, <1>3, Zenon

\* A whole transfer has the sector in it.
LEMMA WholeSector ==
  ASSUME IdeTypeOK, WholeSectors, NEW r \in Request, InRange(r), NEW k \in Nat, k < r.cnt
  PROVE  CutOut(r, k, Whole(r, k)) = Now(r, r.at + k)
<1>1. r.drive \in {Disk, Cd} /\ Disk # Cd
  BY RequestType DEF Disk, Cd
<1>2. CASE r.drive = Disk
  BY <1>1, <1>2, Zenon DEF CutOut, Now, Whole
<1>3. CASE r.drive = Cd
  <2> DEFINE all == BlockWords(BlockOf(r, k))
  <2>1. BlockOf(r, k) \in Nat
    BY BlockNat
  <2>2. all \in Seq(Value) /\ Len(all) = W * Per
    BY <2>1, CdBlock
  <2>3. r.at + k < Span
    BY <1>3, CdRange
  <2>4. \A j \in 1..(W * Per) : all[j] = BlockWords(BlockOf(r, k))[j]
    OBVIOUS
  <2> HIDE DEF all
  <2>5. CutOut(r, k, all) = CdWords(r.at + k)
    BY <1>3, <2>2, <2>3, <2>4, CutSector
  <2> QED  BY <1>3, <2>5, Zenon DEF Now, Whole, all
<1> QED  BY <1>1, <1>2, <1>3, Zenon

\* A word of a read that counts.
LEMMA WordComes ==
  ASSUME IdeInv, NEW t \in Users, GetWord(t), Uncrossed(t)
  PROVE  LET r == request[t]
             ws == Append(words[t], Word)
             all == Whole(r, sector[t])
         IN  /\ ws \in Seq(Value) /\ all \in Seq(Value)
             /\ Len(all) = Transfer(r) /\ Len(ws) <= Transfer(r)
             /\ \A j \in 1..Len(ws) : ws[j] = all[j]
             /\ Len(ws) < Transfer(r) =>
                  /\ Given.op = "in" /\ Len(Given.data) > 0
                  /\ Len(ws) + Len(Given.data) = Transfer(r)
                  /\ \A j \in 1..Len(Given.data) : Given.data[j] = all[Len(ws) + j]
<1> DEFINE r == request[t]
           ws == Append(words[t], Word)
           all == Whole(r, sector[t])
           x == Word
           T == Transfer(r)
           g == Given.data
           d == dev.data
           w == words[t]
<1>1. step[t] = "data" /\ r.op = "read"
  BY DEF GetWord, At
<1>2. /\ r \in Request /\ InRange(r) /\ sector[t] \in Nat /\ w \in Seq(Value)
      /\ Looped(t) /\ Coming(t)
  BY StraightParts
<1>3. sector[t] < r.cnt
  BY <1>1, <1>2 DEF Looped, Steps
<1>4. all \in Seq(Value) /\ Len(all) = T /\ T \in Nat \ {0}
  BY <1>2, <1>3, WholeType DEF IdeInv
<1>5. /\ dev.op = "in" /\ Len(d) > 0 /\ Len(w) + Len(d) = T
      /\ \A j \in 1..Len(w) : w[j] = all[j]
      /\ \A j \in 1..Len(d) : d[j] = all[Len(w) + j]
  BY <1>1, <1>2, Zenon DEF Coming
<1>6. d \in Seq(Value)
  BY DevFields DEF IdeInv
<1>7. /\ x \in Value /\ Given \in DevType
      /\ dev.op = "in" /\ Len(d) > 0 => x = d[1]
      /\ dev.op = "in" /\ Len(d) > 1 =>
              /\ Given.op = "in" /\ Len(g) = Len(d) - 1
              /\ \A j \in 1..Len(g) : g[j] = d[j + 1]
  BY GivenWord DEF IdeInv
<1> HIDE DEF all, T, x, d, g, w
<1>8. x = d[1] /\ 1 \in 1..Len(d) /\ d[1] = all[Len(w) + 1]
  BY <1>2, <1>5, <1>6, <1>7
<1>9. ws \in Seq(Value) /\ Len(ws) = Len(w) + 1 /\ Len(ws) <= T
      /\ \A j \in 1..Len(ws) : ws[j] = IF j = Len(w) + 1 THEN x ELSE w[j]
  <2>1. ws = Append(w, x)
    BY DEF ws, w, x
  <2> HIDE DEF ws
  <2> QED  BY <1>2, <1>4, <1>5, <1>6, <1>7, <2>1
<1> HIDE DEF ws
<1>10. \A j \in 1..Len(ws) : ws[j] = all[j]
  BY <1>2, <1>5, <1>8, <1>9
<1>11. ASSUME Len(ws) < T
       PROVE  /\ Given.op = "in" /\ Len(g) > 0
              /\ Len(ws) + Len(g) = T
              /\ \A j \in 1..Len(g) : g[j] = all[Len(ws) + j]
  <2>1. Len(d) > 1
    BY <1>2, <1>5, <1>6, <1>9, <1>11
  <2>2. /\ Given.op = "in" /\ Len(g) = Len(d) - 1
        /\ \A j \in 1..Len(g) : g[j] = d[j + 1]
    BY <1>5, <1>7, <2>1
  <2>3. \A j \in 1..Len(g) : j + 1 \in 1..Len(d) /\ Len(w) + (j + 1) = Len(ws) + j
    BY <1>2, <1>6, <1>9, <2>2
  <2>4. \A j \in 1..Len(g) : g[j] = all[Len(ws) + j]
    BY <1>5, <2>2, <2>3
  <2> QED  BY <1>2, <1>5, <1>6, <1>9, <2>1, <2>2, <2>4
<1> QED  BY <1>4, <1>9, <1>10, <1>11, Zenon DEF ws, all, T, g, w, x

LEMMA GetWordInv ==
  ASSUME IdeInv, NEW t \in Users, GetWord(t)
  PROVE  IdeInv'
<1> DEFINE r == request[t]
           k == sector[t]
           ws == Append(words[t], Word)
           all == Whole(r, k)
<1>1. InCall(t) /\ MayRun(t) /\ step[t] = "data" /\ r.op = "read"
  BY DEF GetWord, At, InCall
<1>2. /\ request' = request /\ Crosses(t)
      /\ platter' = platter /\ want' = want /\ errors' = errors /\ regs' = regs
  BY Zenon DEF GetWord
<1>3. /\ Len(ws) < Transfer(r) => /\ words' = [words EXCEPT ![t] = ws]
                                  /\ dev' = Given
                                  /\ UNCHANGED <<sector, buf, step>>
      /\ ~(Len(ws) < Transfer(r)) =>
           /\ buf' = [buf EXCEPT ![t] = Append(@, CutOut(r, k, ws))]
           /\ NextSector(t)
  BY Zenon DEF GetWord
<1>4. words[t] \in Seq(Value) /\ Word \in Value /\ ws \in Seq(Value)
  <2>1. words[t] \in Seq(Value) /\ Word \in Value
    BY GivenWord DEF IdeInv, IdeTypeOK
  <2> QED  BY <2>1
<1>5. CallsType' /\ \A u \in Users \ {t} : step'[u] = step[u]
  <2>1. \/ words' = [words EXCEPT ![t] = ws] /\ UNCHANGED <<sector, step>>
        \/ NextSector(t)
    BY <1>3, Zenon
  <2> HIDE DEF ws
  <2> QED  BY <1>1, <1>2, <1>4, <2>1, LoopType DEF IdeInv
<1>6. IdeTypeOK'
  BY GetWordType DEF IdeInv
<1>7. ASSUME Uncrossed(t), Uncrossed(t)'
      PROVE  Straight(t)'
  <2>1. /\ r \in Request /\ InRange(r) /\ k \in Nat
        /\ Looped(t) /\ ReadSoFar(t)
    BY <1>7, StraightParts
  <2>2. /\ ws \in Seq(Value) /\ all \in Seq(Value)
        /\ Len(all) = Transfer(r) /\ Len(ws) <= Transfer(r)
        /\ \A j \in 1..Len(ws) : ws[j] = all[j]
        /\ Len(ws) < Transfer(r) =>
             /\ Given.op = "in" /\ Len(Given.data) > 0
             /\ Len(ws) + Len(Given.data) = Transfer(r)
             /\ \A j \in 1..Len(Given.data) : Given.data[j] = all[Len(ws) + j]
    BY <1>7, WordComes
  <2>3. k < r.cnt /\ r.cnt \in Nat
    BY <1>1, <2>1, RequestType DEF Looped, Steps
  <2>4. Wanted(t)' /\ InRange(request[t])'
    BY <1>1, <1>2, <2>1 DEF Wanted, InRange
  <2>5. buf[t] = [j \in 1..k |-> Now(r, r.at + j - 1)]
    BY <1>1, <2>1, Zenon DEF ReadSoFar
  <2>6. words \in [Users -> Seq(Value)] /\ sector \in [Users -> Nat] /\ buf = [o \in Users |-> buf[o]]
        /\ step \in [Users -> Steps \cup {"out"}]
    BY Zenon DEF IdeInv, IdeTypeOK
  <2>7. ASSUME Len(ws) < Transfer(r)
        PROVE  Looped(t)' /\ Selected(t)' /\ Coming(t)' /\ Going(t)' /\ ReadSoFar(t)'
    <3>1. words' = [words EXCEPT ![t] = ws] /\ dev' = Given /\ sector' = sector /\ buf' = buf /\ step' = step
      BY <1>3, <2>7
    <3>2. words'[t] = ws /\ step'[t] = "data"
      BY <1>1, <2>6, <3>1, Zenon
    <3>3. Looped(t)'
      BY <1>2, <2>3, <3>1, <3>2 DEF Looped, Steps
    <3>4. Selected(t)' /\ Going(t)'
      BY <1>1, <1>2, <3>2 DEF Selected, Going
    <3>5. ReadSoFar(t)'
      BY <1>2, <2>1, <3>1, Zenon DEF ReadSoFar, Now
    <3>6. Whole(request[t], sector[t])' = all /\ Transfer(request[t])' = Transfer(r)
      BY <1>2, <3>1, Zenon DEF Whole, BlockOf, Transfer
    <3>7. Coming(t)'
      BY <2>2, <2>7, <3>1, <3>2, <3>6, Zenon DEF Coming
    <3> QED  BY <3>3, <3>4, <3>5, <3>7, Zenon
  <2>8. ASSUME ~(Len(ws) < Transfer(r))
        PROVE  Looped(t)' /\ Selected(t)' /\ Coming(t)' /\ Going(t)' /\ ReadSoFar(t)'
    <3>1. ws = all
      <4> DEFINE T == Transfer(r)
      <4>1. Len(all) = T /\ Len(ws) = T /\ T \in Nat
        BY <2>2, <2>8
      <4> HIDE DEF T, ws, all
      <4> QED  BY <2>2, <4>1, SameWords
    <3>2. CutOut(r, k, ws) = Now(r, r.at + k)
      BY <2>1, <2>3, <3>1, WholeSector DEF IdeInv
    <3>3. NextSector(t) /\ buf' = [buf EXCEPT ![t] = Append(buf[t], Now(r, r.at + k))]
      BY <1>3, <2>8, <3>2
    <3>4. buf'[t] = Append(buf[t], Now(r, r.at + k))
      BY <2>6, <3>3, Zenon
    <3>5. /\ sector' = [sector EXCEPT ![t] = k + 1] /\ words' = [words EXCEPT ![t] = <<>>]
          /\ step' = [step EXCEPT ![t] = IF k + 1 < r.cnt THEN "head" ELSE "end"]
      BY <3>3, Zenon DEF NextSector, Goto
    <3>6. /\ sector'[t] = k + 1 /\ words'[t] = <<>>
          /\ step'[t] = IF k + 1 < r.cnt THEN "head" ELSE "end"
      BY <2>6, <3>5, Zenon
    <3>7. Looped(t)'
      BY <1>2, <2>1, <2>3, <3>6 DEF Looped, Steps
    <3>8. Selected(t)' /\ Coming(t)' /\ Going(t)'
      BY <3>6 DEF Selected, Coming, Going
    <3>9. ReadSoFar(t)'
      <4> DEFINE f == [j \in 1..(k + 1) |-> Now(r, r.at + j - 1)]
      <4>1. \A j \in 1..(k + 1) : Now(r, r.at + j - 1) \in Seq(Value)
        <5>1. SUFFICES ASSUME NEW j \in 1..(k + 1) PROVE Now(r, r.at + j - 1) \in Seq(Value)
          OBVIOUS
        <5>2. j - 1 \in Nat /\ j - 1 < r.cnt
          BY <2>1, <2>3
        <5>3. Now(r, r.at + (j - 1)) \in Seq(Value)
          BY <2>1, <5>2, NowType DEF IdeInv
        <5> QED  BY <5>3
      <4>2. f \in [1..(k + 1) -> Seq(Value)] /\ f[k + 1] = Now(r, r.at + k)
        <5>1. r.at + (k + 1) - 1 = r.at + k /\ k + 1 \in 1..(k + 1)
          BY <2>1, RequestType
        <5> QED  BY <4>1, <5>1
      <4>3. \A j \in 1..k : f[j] = Now(r, r.at + j - 1)
        BY <2>1
      <4>4. f = [j \in 1..(k + 1) |-> Now(r, r.at + j - 1)]
        OBVIOUS
      <4> HIDE DEF f
      <4>5. buf[t] = [j \in 1..k |-> f[j]]
        BY ONLY <2>5, <4>3, Zenon
      <4>6. Append(buf[t], f[k + 1]) = [j \in 1..(k + 1) |-> f[j]]
        BY <2>1, <4>2, <4>5, AppendNext
      <4>7. f = [j \in 1..(k + 1) |-> f[j]]
        BY <4>2
      <4>8. buf'[t] = [j \in 1..(k + 1) |-> Now(r, r.at + j - 1)]
        BY ONLY <3>4, <4>2, <4>4, <4>6, <4>7, Zenon
      <4> QED  BY <1>2, <3>6, <4>8, Zenon DEF ReadSoFar, Now
    <3> QED  BY <3>7, <3>8, <3>9, Zenon
  <2> QED  BY <2>4, <2>7, <2>8, Zenon DEF Straight
<1>8. step[t] # "end" /\ r.op # "write"
  BY <1>1
<1>9. InCall(t)'
  <2>1. request'[t] \in Request
    BY <1>1, <1>2, InCallRequest DEF IdeInv
  <2> QED  BY <1>5, <2>1, Zenon DEF CallsType
<1> QED  BY <1>1, <1>2, <1>5, <1>6, <1>7, <1>8, <1>9, QuietStep, Zenon

\* The next word of a write that counts.
LEMMA WordGoes ==
  ASSUME IdeInv, NEW t \in Users, PutWord(t), Uncrossed(t)
  PROVE  LET r == request[t]
             k == sector[t]
             v == Written(r)[1]
             ws == Append(words[t], v)
         IN  /\ r.at + k \in r.at..(r.at + r.cnt - 1) /\ r.at + k \in Sector
             /\ Len(ws) < W =>
                  /\ platter' = platter /\ sector' = sector /\ step' = step
                  /\ words'[t] = ws /\ dev' = [dev EXCEPT !.data = ws]
                  /\ \A j \in 1..Len(ws) : ws[j] = <<"new", r.at>>
             /\ ~(Len(ws) < W) =>
                  /\ platter' = [platter EXCEPT ![r.at + k] = Written(r)]
                  /\ NextSector(t)
<1> DEFINE r == request[t]
           k == sector[t]
           v == Written(r)[1]
           w == words[t]
           ws == Append(w, v)
           full == dev.op = "out" /\ Len(dev.data) = W - 1
           n == <<"new", r.at>>
<1>1. step[t] = "data" /\ r.op = "write"
  BY DEF PutWord, At
<1>2. /\ r \in Request /\ InRange(r) /\ k \in Nat /\ w \in Seq(Value)
      /\ Looped(t) /\ Going(t)
  BY StraightParts
<1>3. k < r.cnt /\ r.at \in Nat /\ r.cnt \in Nat
  BY <1>1, <1>2, RequestType DEF Looped, Steps
<1>4. r.at + k \in r.at..(r.at + r.cnt - 1)
  BY <1>2, <1>3
<1>5. r.at + k \in Sector
  <2>1. r.drive = Disk
    BY <1>1, <1>2, RequestType DEF Disk, Cd
  <2> QED  BY <1>2, <1>3, <2>1, RangeSectors
<1>6. /\ dev.op = "out" /\ dev.at = r.at + k /\ dev.data = w /\ Len(w) < W
      /\ \A j \in 1..Len(w) : w[j] = n
  BY <1>1, <1>2, Zenon DEF Going
<1>7. v = n /\ n \in Value /\ W \in Nat \ {0}
  BY <1>3, Sizes DEF Written, Full, Value
<1>8. /\ dev' = IF full THEN IdleDev
                ELSE IF dev.op = "out" THEN [dev EXCEPT !.data = Append(@, v)] ELSE dev
      /\ platter' = IF full THEN [platter EXCEPT ![dev.at] = Append(dev.data, v)] ELSE platter
      /\ Len(ws) < W => words' = [words EXCEPT ![t] = ws] /\ sector' = sector /\ step' = step
      /\ ~(Len(ws) < W) => NextSector(t)
  BY Zenon DEF PutWord
<1>9. words \in [Users -> Seq(Value)]
  BY Zenon DEF IdeInv, IdeTypeOK
<1> HIDE DEF v, w, n, r, k
<1>10. ws \in Seq(Value) /\ Len(ws) = Len(w) + 1 /\ \A j \in 1..Len(ws) : ws[j] = n
  BY <1>2, <1>6, <1>7
<1>11. ASSUME Len(ws) < W
       PROVE  /\ platter' = platter /\ sector' = sector /\ step' = step
              /\ words'[t] = ws /\ dev' = [dev EXCEPT !.data = ws]
  <2>1. ~full
    BY <1>2, <1>6, <1>7, <1>10, <1>11
  <2>2. dev' = [dev EXCEPT !.data = Append(dev.data, v)]
    BY <1>6, <1>8, <2>1, Zenon
  <2>3. words' = [words EXCEPT ![t] = ws]
    BY <1>8, <1>11
  <2>4. words'[t] = ws
    BY ONLY <1>9, <2>3, Zenon
  <2> QED  BY ONLY <1>6, <1>8, <1>11, <2>1, <2>2, <2>4, Zenon
<1>12. ASSUME ~(Len(ws) < W)
       PROVE  platter' = [platter EXCEPT ![r.at + k] = Written(r)] /\ NextSector(t)
  <2>1. full /\ Len(ws) = W
    BY <1>2, <1>6, <1>7, <1>10, <1>12
  <2>2. ws = Written(r)
    <3>1. Written(r) \in Seq(Value) /\ Len(Written(r)) = W /\ \A j \in 1..W : Written(r)[j] = n
      BY <1>7, FullWords DEF Written, Full, n
    <3> HIDE DEF ws
    <3> QED  BY <1>7, <1>10, <2>1, <3>1, SameWords
  <2>3. platter' = [platter EXCEPT ![dev.at] = Append(dev.data, v)]
    BY <1>8, <2>1, Zenon
  <2> QED  BY ONLY <1>6, <1>8, <1>12, <2>2, <2>3, Zenon
<1> QED  BY <1>4, <1>5, <1>10, <1>11, <1>12, Zenon DEF v, w, n, r, k

LEMMA PutWordInv ==
  ASSUME IdeInv, NEW t \in Users, PutWord(t)
  PROVE  IdeInv'
<1> DEFINE r == request[t]
           k == sector[t]
           v == Written(r)[1]
           ws == Append(words[t], v)
<1>1. InCall(t) /\ MayRun(t) /\ step[t] = "data" /\ r.op = "write"
  BY DEF PutWord, At, InCall
<1>2. /\ request' = request /\ Crosses(t) /\ buf' = buf
      /\ want' = want /\ errors' = errors /\ regs' = regs
  BY Zenon DEF PutWord
<1>3. IdeTypeOK'
  BY PutWordType DEF IdeInv
<1>4. CallsType' /\ \A u \in Users \ {t} : step'[u] = step[u]
  <2>1. words[t] \in Seq(Value) /\ v \in Value
    <3>1. r.at \in Nat
      BY <1>1, InCallRequest, RequestType DEF IdeInv
    <3>2. v = <<"new", r.at>>
      BY Sizes DEF Written, Full
    <3> QED  BY <3>1, <3>2 DEF IdeInv, IdeTypeOK, Value
  <2> HIDE DEF v
  <2>2. ws \in Seq(Value)
    BY <2>1
  <2>3. \/ words' = [words EXCEPT ![t] = ws] /\ UNCHANGED <<sector, step>>
        \/ NextSector(t)
    BY Zenon DEF PutWord, v
  <2> HIDE DEF ws
  <2> QED  BY <1>1, <1>2, <2>2, <2>3, LoopType DEF IdeInv
<1>5. /\ bad'[t] <=> bad[t]
      /\ \A o \in Interrupted(t) : bad'[o] = TRUE
      /\ ~spoiled' => ~spoiled /\ \A o \in Interrupted(t) : request[o].op # "write"
  BY <1>2, CrossesType DEF IdeInv
<1>6. \A u \in Users \ {t} : /\ ~Uncrossed(u)'
                             /\ Writes(u) => u \in Interrupted(t)
                             /\ Writes(u)' <=> Writes(u)
  BY <1>2, <1>4, <1>5, OthersCrossed, Zenon DEF IdeInv
<1>7. OneCall'
  BY <1>6, Zenon DEF OneCall
<1>8. step[t] # "end" /\ r.op # "read"
  BY <1>1
<1>9. Uncrossed(t) <=> ~bad[t]
  BY <1>1, <1>8, Zenon DEF Uncrossed
<1>10. Uncrossed(t) =>
         /\ r.at + k \in r.at..(r.at + r.cnt - 1) /\ r.at + k \in Sector
         /\ Len(ws) < W =>
              /\ platter' = platter /\ sector' = sector /\ step' = step
              /\ words'[t] = ws /\ dev' = [dev EXCEPT !.data = ws]
              /\ \A j \in 1..Len(ws) : ws[j] = <<"new", r.at>>
         /\ ~(Len(ws) < W) =>
              /\ platter' = [platter EXCEPT ![r.at + k] = Written(r)]
              /\ NextSector(t)
  BY WordGoes
<1>11. NextSector(t) => /\ sector'[t] = k + 1 /\ words'[t] = <<>>
                        /\ step'[t] = IF k + 1 < r.cnt THEN "head" ELSE "end"
  <2>1. sector \in [Users -> Nat] /\ words \in [Users -> Seq(Value)]
        /\ step \in [Users -> Steps \cup {"out"}]
    BY Zenon DEF IdeInv, IdeTypeOK
  <2> QED  BY <2>1, Zenon DEF NextSector, Goto
<1> HIDE DEF v, ws
<1>12. ASSUME Uncrossed(t)'
       PROVE  Straight(t)'
  <2>1. Uncrossed(t)
    BY <1>5, <1>9, <1>12, Zenon DEF Uncrossed
  <2>2. /\ r \in Request /\ InRange(r) /\ k \in Nat /\ words[t] \in Seq(Value)
        /\ Looped(t) /\ Going(t) /\ Wanted(t)
    BY <2>1, StraightParts
  <2>3. k < r.cnt /\ r.cnt \in Nat
    BY <1>1, <2>2, RequestType DEF Looped, Steps
  <2>4. Wanted(t)' /\ InRange(request[t])' /\ ReadSoFar(t)'
    BY <1>1, <1>2, <2>2 DEF Wanted, InRange, ReadSoFar
  <2>5. ASSUME Len(ws) < W
        PROVE  Looped(t)' /\ Selected(t)' /\ Coming(t)' /\ Going(t)'
    <3>1. /\ sector' = sector /\ step' = step
          /\ words'[t] = ws /\ dev' = [dev EXCEPT !.data = ws]
          /\ \A j \in 1..Len(ws) : ws[j] = <<"new", r.at>>
      BY <1>10, <2>1, <2>5, Zenon
    <3>2. dev.op = "out" /\ dev.at = r.at + k
      BY <1>1, <2>2, Zenon DEF Going
    <3>3. dev'.op = "out" /\ dev'.at = r.at + k /\ dev'.data = ws
      <4>1. dev \in [op : {"idle", "in", "out", "packet"}, at : Sector, data : Seq(Value)]
        BY Zenon DEF IdeInv, IdeTypeOK
      <4> QED  BY <3>1, <3>2, <4>1
    <3>4. Going(t)'
      BY <1>2, <2>5, <3>1, <3>3, Zenon DEF Going
    <3>5. Looped(t)'
      BY <1>1, <1>2, <2>3, <3>1 DEF Looped, Steps
    <3>6. Selected(t)' /\ Coming(t)'
      BY <1>1, <1>2, <3>1 DEF Selected, Coming
    <3> QED  BY <3>4, <3>5, <3>6, Zenon
  <2>6. ASSUME ~(Len(ws) < W)
        PROVE  Looped(t)' /\ Selected(t)' /\ Coming(t)' /\ Going(t)'
    <3>1. /\ sector'[t] = k + 1 /\ words'[t] = <<>>
          /\ step'[t] = IF k + 1 < r.cnt THEN "head" ELSE "end"
      BY <1>10, <1>11, <2>1, <2>6, Zenon
    <3>2. Looped(t)'
      BY <1>2, <2>2, <2>3, <3>1 DEF Looped, Steps
    <3>3. Selected(t)' /\ Coming(t)' /\ Going(t)'
      BY <3>1 DEF Selected, Coming, Going
    <3> QED  BY <3>2, <3>3, Zenon
  <2> QED  BY <2>4, <2>5, <2>6, Zenon DEF Straight
<1>13. \A u \in Users : Uncrossed(u)' => Straight(u)'
  BY <1>6, <1>12, Zenon
<1>14. DiskInv'
  <2>1. SUFFICES ASSUME ~spoiled'
                 PROVE  /\ \A u \in Users : Writes(u)' => ~bad'[u]
                        /\ \A s \in Sector : platter'[s] = want'[s]
                                             \/ \E u \in Users : Writes(u)' /\ s \in Left(u)'
    BY Zenon DEF DiskInv
  <2>2. ~spoiled /\ \A u \in Users \ {t} : ~Writes(u)
    BY <1>5, <1>6, <2>1, Zenon DEF Writes
  <2>3. /\ \A u \in Users : Writes(u) => ~bad[u]
        /\ \A s \in Sector : platter[s] = want[s] \/ \E u \in Users : Writes(u) /\ s \in Left(u)
    BY <2>2, Zenon DEF IdeInv, DiskInv
  <2>4. Writes(t)
    BY <1>1, <1>8, Zenon DEF Writes
  <2>5. Uncrossed(t)
    BY <1>9, <2>3, <2>4, Zenon
  <2>6. \A u \in Users : Writes(u)' => ~bad'[u]
    BY <1>5, <1>6, <2>2, <2>3, <2>4, Zenon
  <2>7. \A s \in Sector : platter[s] = want[s] \/ s \in Left(t)
    BY <2>2, <2>3, Zenon
  <2>8. CASE Len(ws) < W
    <3>1. platter' = platter /\ sector' = sector /\ step' = step
      BY <1>10, <2>5, <2>8, Zenon
    <3>2. Left(t)' = Left(t) /\ (Writes(t)' <=> Writes(t))
      BY <1>2, <3>1, Zenon DEF Left, Writes, InCall
    <3> QED  BY <1>2, <2>4, <2>6, <2>7, <3>1, <3>2, Zenon
  <2>9. CASE ~(Len(ws) < W)
    <3>1. platter' = [platter EXCEPT ![r.at + k] = Written(r)] /\ NextSector(t)
      BY <1>10, <2>5, <2>9, Zenon
    <3>2. sector'[t] = k + 1 /\ step'[t] = IF k + 1 < r.cnt THEN "head" ELSE "end"
      BY <1>11, <3>1, Zenon
    <3>3. /\ r \in Request /\ k \in Nat /\ Wanted(t)
      BY <2>5, StraightParts
    <3>4. r.at \in Nat /\ r.cnt \in Nat
      BY <3>3, RequestType
    <3>5. platter \in [Sector -> Seq(Value)]
      BY Zenon DEF IdeInv, IdeTypeOK
    <3>6. \A s \in Sector : platter'[s] = IF s = r.at + k THEN Written(r) ELSE platter[s]
      BY ONLY <3>1, <3>5, Zenon
    <3>7. want[r.at + k] = Written(r)
      BY <1>1, <1>10, <2>5, <3>3, Zenon DEF Wanted
    <3>8. \A s \in Sector : s \in Left(t) /\ s # r.at + k => Writes(t)' /\ s \in Left(t)'
      <4>1. SUFFICES ASSUME NEW s \in Sector, s \in Left(t), s # r.at + k
                     PROVE  Writes(t)' /\ s \in Left(t)'
        OBVIOUS
      <4>2. s \in (r.at + k)..(r.at + r.cnt - 1)
        BY <4>1, Zenon DEF Left
      <4>3. s \in (r.at + (k + 1))..(r.at + r.cnt - 1) /\ k + 1 < r.cnt
        BY <3>3, <3>4, <4>1, <4>2
      <4>4. s \in Left(t)'
        <5>1. Left(t)' = (request'[t].at + sector'[t])..(request'[t].at + request'[t].cnt - 1)
          BY Zenon DEF Left
        <5> QED  BY <1>2, <3>2, <4>3, <5>1, Zenon
      <4>5. step'[t] = "head" /\ "head" # "end" /\ "head" # "out"
        BY <3>2, <4>3
      <4> QED  BY <1>1, <1>2, <4>4, <4>5, Zenon DEF Writes, InCall
    <3>9. \A s \in Sector : platter'[s] = want'[s] \/ (Writes(t)' /\ s \in Left(t)')
      BY <1>2, <2>7, <3>6, <3>7, <3>8, Zenon
    <3> QED  BY <2>6, <3>9, Zenon
  <2> QED  BY <2>8, <2>9
<1>15. Undisturbed'
  <2>1. SUFFICES ASSUME NEW u \in Users, InCall(u)', request'[u].masked, bad'[u]
                 PROVE  ~InRange(request'[u]) \/ errors' > 0
    BY Zenon DEF Undisturbed, InRange
  <2>2. u = t
    <3>1. u # t => InCall(u)
      BY <1>4, <2>1, Zenon DEF InCall
    <3> QED  BY <1>1, <1>2, <2>1, <3>1, Zenon DEF MayRun
  <2> QED  BY <1>1, <1>2, <1>5, <2>1, <2>2, Zenon DEF IdeInv, Undisturbed
<1>16. WholeSectors'
  <2>1. v \in Value
    <3>1. r.at \in Nat
      BY <1>1, InCallRequest, RequestType DEF IdeInv
    <3>2. v = <<"new", r.at>>
      BY Sizes DEF Written, Full, v
    <3> QED  BY <3>1, <3>2 DEF Value
  <2>2. \/ platter' = platter
        \/ Len(dev.data) = W - 1 /\ platter' = [platter EXCEPT ![dev.at] = Append(dev.data, v)]
    BY Zenon DEF PutWord, v
  <2>3. dev.data \in Seq(Value) /\ W \in Nat
    BY DevFields, Sizes DEF IdeInv
  <2>4. Len(dev.data) = W - 1 => Len(Append(dev.data, v)) = W
    BY <2>1, <2>3
  <2>5. platter \in [Sector -> Seq(Value)] /\ \A s \in Sector : Len(platter[s]) = W
    BY Zenon DEF IdeInv, IdeTypeOK, WholeSectors
  <2>6. ASSUME NEW s \in Sector PROVE Len(platter'[s]) = W
    <3>1. platter'[s] = platter[s] \/ (Len(dev.data) = W - 1 /\ platter'[s] = Append(dev.data, v))
      BY ONLY <2>2, <2>5, <2>6, Zenon
    <3> QED  BY <2>4, <2>5, <3>1, Zenon
  <2> QED  BY <2>6, Zenon DEF WholeSectors
<1> QED  BY <1>3, <1>7, <1>13, <1>14, <1>15, <1>16, Zenon DEF IdeInv

LEMMA CommandFailsInv ==
  ASSUME IdeInv, NEW t \in Users, CommandFails(t)
  PROVE  IdeInv'
<1> DEFINE r == request[t]
<1>1. InCall(t) /\ MayRun(t) /\ step[t] = "command"
  BY DEF CommandFails, At, InCall
<1>2. /\ request' = request /\ platter' = platter /\ want' = want /\ Spoils({t} \cup Interrupted(t))
      /\ \/ ~Accepted(r) /\ errors' = errors
         \/ errors' = errors + 1
  BY Zenon DEF CommandFails, Rest
<1>3. IdeTypeOK'
  BY CommandFailsType DEF IdeInv
<1>4. \A u \in Users \ {t} : step'[u] = step[u]
  <2>1. step \in [Users -> Steps \cup {"out"}]
    BY Zenon DEF IdeInv, IdeTypeOK
  <2> QED  BY <2>1, Zenon DEF CommandFails, Goto
<1>5. /\ bad' \in [Users -> BOOLEAN] /\ bad'[t]
      /\ \A o \in Interrupted(t) : bad'[o] = TRUE
      /\ ~spoiled' => ~spoiled /\ \A o \in {t} \cup Interrupted(t) : request[o].op # "write"
  <2>1. {t} \cup Interrupted(t) \in SUBSET Users
    BY Zenon DEF Interrupted
  <2>2. /\ bad' \in [Users -> BOOLEAN]
        /\ \A o \in Users : bad'[o] <=> bad[o] \/ o \in {t} \cup Interrupted(t)
        /\ ~spoiled' => ~spoiled /\ \A o \in {t} \cup Interrupted(t) : request[o].op # "write"
    BY <1>2, <2>1, SpoilsType DEF IdeInv
  <2> QED  BY <2>1, <2>2, Zenon
<1>6. \A u \in Users \ {t} : /\ ~Uncrossed(u)'
                             /\ Writes(u) => u \in Interrupted(t)
                             /\ Writes(u)' <=> Writes(u)
  BY <1>2, <1>4, <1>5, OthersCrossed, Zenon DEF IdeInv
<1>7. ~Uncrossed(t)'
  BY <1>5, Zenon DEF Uncrossed
<1>8. OneCall' /\ \A u \in Users : Uncrossed(u)' => Straight(u)'
  BY <1>6, <1>7, Zenon DEF OneCall
<1>9. DiskInv'
  <2>1. SUFFICES ASSUME ~spoiled'
                 PROVE  /\ \A u \in Users : Writes(u)' => ~bad'[u]
                        /\ \A s \in Sector : platter'[s] = want'[s]
                                             \/ \E u \in Users : Writes(u)' /\ s \in Left(u)'
    BY Zenon DEF DiskInv
  <2>2. ~spoiled /\ \A u \in Users : ~Writes(u)
    BY <1>5, <1>6, <2>1, Zenon DEF Writes
  <2>3. \A u \in Users : ~Writes(u)'
    BY <1>2, <1>5, <1>6, <2>1, <2>2, Zenon DEF Writes
  <2>4. \A s \in Sector : platter[s] = want[s]
    BY <2>2, Zenon DEF IdeInv, DiskInv
  <2> QED  BY <1>2, <2>3, <2>4, Zenon
<1>10. Undisturbed'
  <2>1. SUFFICES ASSUME NEW u \in Users, InCall(u)', request'[u].masked, bad'[u]
                 PROVE  ~InRange(request'[u]) \/ errors' > 0
    BY Zenon DEF Undisturbed, InRange
  <2>2. u = t
    <3>1. u # t => InCall(u)
      BY <1>4, <2>1, Zenon DEF InCall
    <3> QED  BY <1>1, <1>2, <2>1, <3>1, Zenon DEF MayRun
  <2>3. errors \in Nat
    BY DEF IdeInv, IdeTypeOK
  <2>4. CASE errors' = errors + 1
    BY <2>3, <2>4
  <2>5. CASE ~Accepted(r) /\ errors' = errors
    <3>1. bad[t]
      <4>1. SUFFICES ASSUME ~bad[t] PROVE FALSE
        OBVIOUS
      <4>2. Uncrossed(t)
        BY <1>1, <4>1 DEF Uncrossed
      <4>3. Selected(t)
        BY <4>2, StraightParts
      <4> QED  BY <1>1, <2>5, <4>3 DEF Selected, Accepted
    <3> QED  BY <1>1, <1>2, <2>1, <2>2, <2>5, <3>1, Zenon DEF IdeInv, Undisturbed
  <2> QED  BY <1>2, <2>4, <2>5
<1>11. WholeSectors'
  BY <1>2, Zenon DEF IdeInv, WholeSectors
<1> QED  BY <1>3, <1>8, <1>9, <1>10, <1>11, Zenon DEF IdeInv

LEMMA CallEndsInv ==
  ASSUME IdeInv, NEW t \in Users, CallEnds(t)
  PROVE  IdeInv'
<1>1. /\ IdeTypeOK' /\ ~InCall(t)'
      /\ \A u \in Users \ {t} : /\ request'[u] = request[u] /\ step'[u] = step[u]
                                /\ sector'[u] = sector[u] /\ words'[u] = words[u]
                                /\ buf'[u] = buf[u] /\ bad'[u] = bad[u]
  BY CallEndsType DEF IdeInv
<1>2. /\ regs' = regs /\ dev' = dev /\ platter' = platter /\ want' = want
      /\ spoiled' = spoiled /\ errors' = errors /\ step[t] = "end"
  BY Zenon DEF CallEnds, At
<1>3. \A u \in Users \ {t} : /\ Uncrossed(u)' <=> Uncrossed(u)
                             /\ Writes(u)' <=> Writes(u)
                             /\ Left(u)' = Left(u)
                             /\ InCall(u)' <=> InCall(u)
  BY <1>1, Zenon DEF Uncrossed, Writes, Left, InCall
<1>4. ~Uncrossed(t)' /\ ~Writes(t)' /\ ~Writes(t)
  BY <1>1, <1>2, Zenon DEF Uncrossed, Writes
<1>5. OneCall'
  BY <1>3, <1>4, Zenon DEF IdeInv, OneCall
<1>6. ASSUME NEW u \in Users \ {t}, Straight(u)
      PROVE  Straight(u)'
  <2>1. /\ request'[u] = request[u] /\ step'[u] = step[u]
        /\ sector'[u] = sector[u] /\ words'[u] = words[u]
        /\ buf'[u] = buf[u]
    BY <1>1
  <2>2. InRange(request[u])' /\ Looped(u)' /\ Selected(u)'
    BY <1>2, <1>6, <2>1, Zenon DEF Straight, InRange, Looped, Selected, LowOf
  <2>3. Whole(request[u], sector[u])' = Whole(request[u], sector[u])
        /\ Transfer(request[u])' = Transfer(request[u])
    BY <1>2, <2>1, Zenon DEF Whole, BlockOf, Transfer
  <2>4. Coming(u)'
    BY <1>2, <1>6, <2>1, <2>3, Zenon DEF Straight, Coming
  <2>5. Going(u)'
    BY <1>2, <1>6, <2>1, Zenon DEF Straight, Going
  <2>6. ReadSoFar(u)' /\ Wanted(u)'
    BY <1>2, <1>6, <2>1, Zenon DEF Straight, ReadSoFar, Wanted, Now, Written
  <2> QED  BY <2>2, <2>4, <2>5, <2>6, Zenon DEF Straight
<1>7. \A u \in Users : Uncrossed(u)' => Straight(u)'
  BY <1>3, <1>4, <1>6, Zenon DEF IdeInv
<1>8. DiskInv'
  <2>1. SUFFICES ASSUME ~spoiled'
                 PROVE  /\ \A u \in Users : Writes(u)' => ~bad'[u]
                        /\ \A s \in Sector : platter'[s] = want'[s]
                                             \/ \E u \in Users : Writes(u)' /\ s \in Left(u)'
    BY Zenon DEF DiskInv
  <2>2. /\ \A u \in Users : Writes(u) => ~bad[u]
        /\ \A s \in Sector : platter[s] = want[s] \/ \E u \in Users : Writes(u) /\ s \in Left(u)
    BY <1>2, <2>1, Zenon DEF IdeInv, DiskInv
  <2>3. \A u \in Users : Writes(u)' => ~bad'[u]
    BY <1>1, <1>3, <1>4, <2>2, Zenon
  <2>4. \A u \in Users : Writes(u) => u # t /\ Writes(u)' /\ Left(u)' = Left(u)
    BY <1>3, <1>4, Zenon
  <2> QED  BY <1>2, <2>2, <2>3, <2>4, Zenon
<1>9. Undisturbed'
  <2>1. SUFFICES ASSUME NEW u \in Users, InCall(u)', request'[u].masked, bad'[u]
                 PROVE  ~InRange(request'[u]) \/ errors' > 0
    BY Zenon DEF Undisturbed, InRange
  <2>2. u # t
    BY <1>1, <2>1, Zenon
  <2> QED  BY <1>1, <1>2, <1>3, <2>1, <2>2, Zenon DEF IdeInv, Undisturbed
<1>10. WholeSectors'
  BY <1>2, Zenon DEF IdeInv, WholeSectors
<1> QED  BY <1>1, <1>5, <1>7, <1>8, <1>9, <1>10, Zenon DEF IdeInv

LEMMA BeginInv ==
  ASSUME IdeInv, NEW t \in Users, NEW r \in Request, Begin(t, r)
  PROVE  IdeInv'
<1>1. /\ IdeTypeOK' /\ InCall(t)' /\ ~InCall(t)
      /\ request'[t] = r /\ step'[t] = "head" /\ sector'[t] = 0
      /\ words'[t] = <<>> /\ buf'[t] = <<>> /\ (bad'[t] <=> ~InRange(r))
      /\ \A u \in Users \ {t} : /\ request'[u] = request[u] /\ step'[u] = step[u]
                                /\ sector'[u] = sector[u] /\ words'[u] = words[u]
                                /\ buf'[u] = buf[u]
                                /\ bad'[u] <=> bad[u] \/ u \in Interrupted(t)
      /\ ~spoiled' => /\ ~spoiled
                      /\ \A o \in Interrupted(t) : request[o].op # "write"
                      /\ (r.op = "write" => InRange(r))
  BY BeginType DEF IdeInv
<1>2. /\ regs' = regs /\ dev' = dev /\ platter' = platter /\ errors' = errors /\ MayRun(t)
      /\ want' = [s \in Sector |-> IF r.op = "write" /\ s \in r.at..(r.at + r.cnt - 1)
                                   THEN Written(r) ELSE want[s]]
      /\ r.at + r.cnt - 1 \in IF r.drive = Cd THEN CdSector ELSE Sector
  BY Zenon DEF Begin, At
<1>3. /\ bad' \in [Users -> BOOLEAN]
      /\ Interrupted(t) \subseteq Users \ {t}
  BY <1>1, Zenon DEF IdeTypeOK, Interrupted
<1>4. \A o \in Interrupted(t) : bad'[o] = TRUE
  BY <1>1, <1>3, Zenon
<1>5. \A u \in Users \ {t} : /\ ~Uncrossed(u)'
                             /\ Writes(u) => u \in Interrupted(t)
                             /\ Writes(u)' <=> Writes(u)
  BY <1>1, <1>4, OthersCrossed, Zenon DEF IdeInv
<1>6. OneCall'
  BY <1>5, Zenon DEF OneCall
<1>7. r.at \in Nat /\ r.cnt \in Nat \ {0} /\ (r.op = "write" => r.drive = Disk /\ r.at \in Sector)
      /\ Disk # Cd
  BY RequestType DEF Disk, Cd
<1>8. \A s \in Sector : want'[s] = IF r.op = "write" /\ s \in r.at..(r.at + r.cnt - 1)
                                   THEN Written(r) ELSE want[s]
  BY ONLY <1>2, Zenon
<1>9. ASSUME Uncrossed(t)'
      PROVE  Straight(t)'
  <2>1. InRange(request[t])'
    BY <1>1, <1>9, Zenon DEF Uncrossed, InRange
  <2>2. Looped(t)'
    BY <1>1, <1>7 DEF Looped, Steps
  <2>3. Selected(t)' /\ Coming(t)' /\ Going(t)'
    BY <1>1 DEF Selected, Coming, Going
  <2>4. ReadSoFar(t)'
    <3>1. \A f : [j \in 1..0 |-> f[j]] = <<>>
      OBVIOUS
    <3>2. [j \in 1..sector'[t] |-> Now(request[t], request[t].at + j - 1)'] = <<>>
      BY <1>1
    <3> QED  BY <1>1, <3>2 DEF ReadSoFar
  <2>5. Wanted(t)'
    <3>1. SUFFICES ASSUME r.op = "write", NEW s \in r.at..(r.at + r.cnt - 1)
                   PROVE  want'[s] = Written(r)
      BY <1>1, Zenon DEF Wanted, Written
    <3>2. s \in Sector
      <4>1. r.at \in Sector /\ r.at + r.cnt - 1 \in Sector
        BY <1>2, <1>7, <3>1
      <4> QED  BY <4>1, SectorNat, Zenon
    <3> QED  BY <1>8, <3>1, <3>2
  <2> QED  BY <2>1, <2>2, <2>3, <2>4, <2>5, Zenon DEF Straight
<1>10. \A u \in Users : Uncrossed(u)' => Straight(u)'
  BY <1>5, <1>9, Zenon
<1>11. DiskInv'
  <2>1. SUFFICES ASSUME ~spoiled'
                 PROVE  /\ \A u \in Users : Writes(u)' => ~bad'[u]
                        /\ \A s \in Sector : platter'[s] = want'[s]
                                             \/ \E u \in Users : Writes(u)' /\ s \in Left(u)'
    BY Zenon DEF DiskInv
  <2>2. ~spoiled /\ \A u \in Users : ~Writes(u)
    BY <1>1, <1>5, <2>1, Zenon DEF Writes
  <2>3. \A s \in Sector : platter[s] = want[s]
    BY <2>2, Zenon DEF IdeInv, DiskInv
  <2>4. \A u \in Users : Writes(u)' => u = t /\ r.op = "write"
    BY <1>1, <1>5, <2>2, Zenon DEF Writes
  <2>5. \A u \in Users : Writes(u)' => ~bad'[u]
    BY <1>1, <2>1, <2>4, Zenon
  <2>6. r.op = "write" => Writes(t)' /\ Left(t)' = r.at..(r.at + r.cnt - 1)
    <3>1. Left(t)' = (r.at + 0)..(r.at + r.cnt - 1)
      BY <1>1, Zenon DEF Left
    <3>2. r.at + 0 = r.at
      BY <1>7
    <3>3. "head" # "end"
      OBVIOUS
    <3> QED  BY <1>1, <3>1, <3>2, <3>3, Zenon DEF Writes
  <2> QED  BY <1>2, <1>8, <2>3, <2>5, <2>6, Zenon
<1>12. Undisturbed'
  <2>1. SUFFICES ASSUME NEW u \in Users, InCall(u)', request'[u].masked, bad'[u]
                 PROVE  ~InRange(request'[u]) \/ errors' > 0
    BY Zenon DEF Undisturbed, InRange
  <2>2. u = t
    <3>1. u # t => InCall(u)
      BY <1>1, <2>1, Zenon DEF InCall
    <3> QED  BY <1>1, <1>2, <2>1, <3>1, Zenon DEF MayRun
  <2> QED  BY <1>1, <2>1, <2>2, Zenon
<1>13. WholeSectors'
  BY <1>2, Zenon DEF IdeInv, WholeSectors
<1> QED  BY <1>1, <1>6, <1>10, <1>11, <1>12, <1>13, Zenon DEF IdeInv

-------------------------------------------------------------------------------
\* The inductive invariant.
LEMMA IdeInvInit == IdeInit => IdeInv
<1> SUFFICES ASSUME IdeInit PROVE IdeInv
  OBVIOUS
<1>1. IdeTypeOK
  BY IdeInitType
<1>2. \A t \in Users : ~InCall(t)
  BY DEF IdeInit, InCall
<1>3. \A t \in Users : ~Uncrossed(t) /\ ~Writes(t)
  BY <1>2, Zenon DEF Uncrossed, Writes
<1>4. platter = want
  BY DEF IdeInit
<1>5. WholeSectors
  <2>1. \A s \in Sector : <<"disk", s>> \in Value
    BY SectorNat DEF Value
  <2>2. \A s \in Sector : platter[s] = Full(<<"disk", s>>)
    BY Zenon DEF IdeInit
  <2> QED  BY <2>1, <2>2, FullWords DEF WholeSectors
<1> QED  BY <1>1, <1>2, <1>3, <1>4, <1>5, Zenon DEF IdeInv, OneCall, DiskInv, Undisturbed

LEMMA IdeInvStep == IdeInv /\ [IdeNext]_idevars => IdeInv'
<1> SUFFICES ASSUME IdeInv, [IdeNext]_idevars PROVE IdeInv'
  OBVIOUS
<1>1. CASE IdeNext
  <2>1. PICK t \in Users : \/ \E r \in Request : Begin(t, r)
                           \/ PutHead(t) \/ PutLow(t) \/ PutCommand(t) \/ CommandFails(t)
                           \/ PutPacket(t) \/ GetWord(t) \/ PutWord(t) \/ CallEnds(t)
    BY <1>1, Zenon DEF IdeNext
  <2>2. CASE \E r \in Request : Begin(t, r)
    BY <2>2, BeginInv
  <2>3. CASE PutHead(t)
    BY <2>3, PutHeadInv
  <2>4. CASE PutLow(t)
    BY <2>4, PutLowInv
  <2>5. CASE PutCommand(t)
    BY <2>5, PutCommandInv
  <2>6. CASE CommandFails(t)
    BY <2>6, CommandFailsInv
  <2>7. CASE PutPacket(t)
    BY <2>7, PutPacketInv
  <2>8. CASE GetWord(t)
    BY <2>8, GetWordInv
  <2>9. CASE PutWord(t)
    BY <2>9, PutWordInv
  <2>10. CASE CallEnds(t)
    BY <2>10, CallEndsInv
  <2> QED  BY <2>1, <2>2, <2>3, <2>4, <2>5, <2>6, <2>7, <2>8, <2>9, <2>10
<1>2. CASE UNCHANGED idevars
  <2>1. /\ request' = request /\ step' = step /\ sector' = sector /\ words' = words
        /\ buf' = buf /\ regs' = regs /\ dev' = dev /\ platter' = platter
        /\ want' = want /\ bad' = bad /\ spoiled' = spoiled /\ calls' = calls /\ errors' = errors
    BY <1>2, Zenon DEF idevars, caller, ghosts
  <2>2. IdeTypeOK' /\ OneCall' /\ WholeSectors' /\ DiskInv' /\ Undisturbed'
    BY <2>1, Zenon DEF IdeInv, IdeTypeOK, OneCall, WholeSectors, DiskInv, Undisturbed,
         Uncrossed, Writes, Left, InCall, InRange
  <2>3. ASSUME NEW t \in Users, Uncrossed(t)'
        PROVE  Straight(t)'
    <3>1. Straight(t)
      BY <2>1, <2>3, Zenon DEF IdeInv, Uncrossed, InCall
    <3>2. InRange(request[t])' /\ Looped(t)' /\ Selected(t)'
      BY <2>1, <3>1, Zenon DEF Straight, InRange, Looped, Selected, LowOf
    <3>3. Whole(request[t], sector[t])' = Whole(request[t], sector[t])
          /\ Transfer(request[t])' = Transfer(request[t])
      BY <2>1, Zenon DEF Whole, BlockOf, Transfer
    <3>4. Coming(t)' /\ Going(t)'
      BY <2>1, <3>1, <3>3, Zenon DEF Straight, Coming, Going
    <3>5. ReadSoFar(t)' /\ Wanted(t)'
      BY <2>1, <3>1, Zenon DEF Straight, ReadSoFar, Wanted, Now, Written
    <3> QED  BY <3>2, <3>4, <3>5, Zenon DEF Straight
  <2> QED  BY <2>2, <2>3, Zenon DEF IdeInv
<1> QED  BY <1>1, <1>2

LEMMA IdeInvImplies == IdeInv => CallsRight
<1> SUFFICES ASSUME IdeInv PROVE CallsRight
  OBVIOUS
<1>1. ASSUME ~spoiled, \A t \in Users : step[t] = "end" \/ request[t].op # "write"
      PROVE  platter = want
  <2>1. \A t \in Users : ~Writes(t)
    BY <1>1, Zenon DEF Writes
  <2>2. \A s \in Sector : platter[s] = want[s]
    BY <1>1, <2>1, Zenon DEF IdeInv, DiskInv
  <2>3. platter \in [Sector -> Seq(Value)] /\ want \in [Sector -> Seq(Value)]
    BY Zenon DEF IdeInv, IdeTypeOK
  <2> QED  BY ONLY <2>2, <2>3
<1>2. ASSUME ~spoiled, NEW t \in Users, step[t] = "end", request[t].op = "read", ~bad[t]
      PROVE  buf[t] = Expected(t)
  <2> DEFINE r == request[t]
  <2>1. Uncrossed(t)
    BY <1>2 DEF Uncrossed, InCall
  <2>2. /\ r \in Request /\ InRange(r) /\ Looped(t) /\ ReadSoFar(t)
    BY <2>1, StraightParts
  <2>3. buf[t] = [k \in 1..r.cnt |-> Now(r, r.at + k - 1)]
    BY <1>2, <2>2, Zenon DEF ReadSoFar, Looped
  <2>4. \A u \in Users : ~Writes(u)
    <3>1. SUFFICES ASSUME NEW u \in Users, Writes(u) PROVE FALSE
      OBVIOUS
    <3>2. Uncrossed(u)
      BY <1>2, <3>1, Zenon DEF IdeInv, DiskInv, Writes, Uncrossed
    <3>3. u = t
      BY <2>1, <3>2, Zenon DEF IdeInv, OneCall
    <3> QED  BY <1>2, <3>1, <3>3 DEF Writes
  <2>5. \A s \in Sector : platter[s] = want[s]
    BY <1>2, <2>4, Zenon DEF IdeInv, DiskInv
  <2>6. \A k \in 1..r.cnt : Now(r, r.at + k - 1) = Content(r, r.at + k - 1)
    <3>1. SUFFICES ASSUME NEW k \in 1..r.cnt PROVE Now(r, r.at + k - 1) = Content(r, r.at + k - 1)
      OBVIOUS
    <3>2. CASE r.drive = Cd
      BY <3>2, Zenon DEF Now, Content
    <3>3. CASE r.drive # Cd
      <4>1. r.drive = Disk /\ r.cnt \in Nat /\ r.at \in Nat
        BY <2>2, <3>3, RequestType
      <4>2. k - 1 \in Nat /\ k - 1 < r.cnt
        BY <4>1
      <4>3. r.at + (k - 1) \in Sector
        BY <2>2, <4>1, <4>2, RangeSectors
      <4>4. platter[r.at + (k - 1)] = want[r.at + (k - 1)]
        BY <2>5, <4>3
      <4> QED  BY <3>3, <4>4 DEF Now, Content
    <3> QED  BY <3>2, <3>3
  <2> HIDE DEF r
  <2>7. [k \in 1..r.cnt |-> Now(r, r.at + k - 1)] = [k \in 1..r.cnt |-> Content(r, r.at + k - 1)]
    BY ONLY <2>6, Zenon
  <2> QED  BY <2>3, <2>7, Zenon DEF Expected, r
<1> QED  BY <1>1, <1>2, Zenon DEF CallsRight, IdeInv, Undisturbed

\* CallsRight for every number of tasks, sectors, blocks, words and calls.
THEOREM IdeCallsRight == IdeSpec => []CallsRight
<1>1. IdeSpec => []IdeInv
  BY IdeInvInit, IdeInvStep, PTL DEF IdeSpec
<1> QED  BY <1>1, IdeInvImplies, PTL
===============================================================================
