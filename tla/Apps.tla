--------------------------------- MODULE Apps ---------------------------------
(***************************************************************************)
(* Applications: what a terminal does to run one (terminal.cpp:222-262),   *)
(* their calls for memory (api.cpp), and their page tables (x64.cpp), over *)
(* the page allocator of module Memory.                                    *)
(*                                                                         *)
(* A task of Procs is a terminal: at its prompt it takes and returns       *)
(* memory as other commands do, or it starts an application.  Starting,    *)
(* malloc(), free() and exit() run with interrupts off and are one action  *)
(* each, with all the calls of searchmem() and freemem() they make; Memory *)
(* has the steps of one.  open() reads the disk, behind which interrupts   *)
(* are on, and is divided there.  The application itself is interrupted at *)
(* any moment.  The frame of an interrupt or of a call goes to the top of  *)
(* the one stack that rsp0 of the task state names.                        *)
(***************************************************************************)
EXTENDS Memory, Sequences

CONSTANTS NKept,      \* blocks of a start nobody frees: file, base, as (3)
          NTables,    \* page tables of a start (10)
          Big,        \* pages of a large page (512)
          MaxRuns,    \* bound: applications started
          MaxHeld,    \* bound: blocks a terminal holds at its prompt
          MaxKept,    \* bound: blocks kept by a terminal that opens a file
          MaxList     \* bound: entries of an application's list (200)

ASSUME AppsAssumption == /\ {NKept, NTables, MaxRuns, MaxHeld, MaxKept, MaxList} \subseteq Nat
                         /\ Big \in Nat \ {0}

VARIABLES mode,     \* mode[t]: "shell", its application is "on" or "off" the processor, or in open()
          opened,   \* opened[t]: in open(), the page of the name or of the file structure
          list,     \* list[t]: al and alp of task t
          tables,   \* tables[t]: the addresses of its page tables
          isp,      \* isp[t]: the stack for interrupts, 0 for none
          whole,    \* whole[t]: the large pages that are not split into small ones
          rsp0,     \* the stack the processor takes for an interrupt
          top,      \* top[s]: whose frame is at the top of stack s
          frame,    \* frame[t]: the stack t's frame was put on, 0 for none
          kept,     \* history: kept[t]: what t has that its application's end does not return
          runs,     \* count, for the bound
          together, \* history: two applications ran at the same time
          slip      \* history: what was freed, or overwritten, by mistake

appvars == <<mode, opened, list, tables, isp, whole, rsp0, top, frame, kept, runs, together, slip>>
stackvars == <<rsp0, top, frame>>

\* The large pages by their first page.
Large == {p \in Page : p % Big = 0}
LargeOf(p) == (p \div Big) * Big

AppsInit == /\ Init
            /\ mode = [t \in Procs |-> "shell"]
            /\ opened = [t \in Procs |-> 0]
            /\ list = [t \in Procs |-> <<>>]
            /\ tables = [t \in Procs |-> {}]
            /\ isp = [t \in Procs |-> 0]
            /\ whole = [t \in Procs |-> {}]
            /\ rsp0 = 0
            /\ top = [s \in Page |-> {}]
            /\ frame = [t \in Procs |-> 0]
            /\ kept = [t \in Procs |-> {}]
            /\ runs = 0 /\ together = FALSE /\ slip = ""

\* t has the processor: no other task is in its application.
Turn(t) == /\ slip = ""
           /\ \A o \in Procs \ {t} : mode[o] # "on"
           /\ ~halted

-------------------------------------------------------------------------------
(* The allocator with interrupts off                                        *)

Unused == Page \ used
\* Requests of a page each take the lowest pages.
Lowest(n) == {p \in Unused : Cardinality({q \in Unused : q < p}) < n}
Nth(S, k) == CHOOSE p \in S : Cardinality({q \in S : q < p}) = k - 1
Single(p) == [addr |-> p, size |-> 1]
Singles(S) == {Single(p) : p \in S}

\* searchmem(4096), n times.
Take(t, n) == LET S == Lowest(n)
              IN  /\ Cardinality(S) = n /\ alp + n <= NList
                  /\ used' = used \cup S
                  /\ al' = [k \in DOMAIN al |-> IF k \in alp..(alp + n - 1)
                              THEN Single(Nth(S, k - alp + 1)) ELSE al[k]]
                  /\ alp' = alp + n
                  /\ held' = [held EXCEPT ![t] = @ \cup Singles(S)]

\* freemem() of every address of A: those that begin no block change nothing.
Released(A) == {al[k] : k \in {k \in 0..(alp - 1) : al[k].addr \in A}}
\* The entries of the others move up.
Staying(A) == {k \in 0..(alp - 1) : al[k].addr \notin A}

Release(A) == LET n == Cardinality(Staying(A))
              IN  /\ used' = used \ UNION {PagesOf(x) : x \in Released(A)}
                  /\ alp' = n
                  /\ al' = [k \in DOMAIN al |-> IF k < n THEN al[Nth(Staying(A), k + 1)]
                                                ELSE NoBlock]

\* The blocks that are not those of t's application.
Foreign(t) == kept[t] \cup UNION {held[o] : o \in Procs \ {t}}
Hits(t, A) == \E x \in Foreign(t) : x.addr \in A

inFreemem == <<freeing, pc, locals, halted>>

-------------------------------------------------------------------------------
(* Starting an application, terminal.cpp:228-259                            *)

\* Mutant of SetStack: the task state keeps the stack of an earlier one.
SetStackOnce(s) == rsp0' = IF rsp0 = 0 THEN s ELSE rsp0

SetStack(s) == rsp0' = s

\* The file and its copy, the tables with 2 MB pages for all memory and those
\* for the two high ranges, the data area, the stack for interrupts; the large
\* page r, where the command line is, becomes small ones.
Start(t, r) ==
  LET n == NKept + NTables + 1
      S == Lowest(n)
  IN  /\ Turn(t) /\ mode[t] = "shell"
      /\ runs < MaxRuns /\ runs' = runs + 1
      /\ Take(t, n)
      /\ kept' = [kept EXCEPT ![t] = held[t] \cup Singles({Nth(S, k) : k \in 1..NKept})]
      /\ tables' = [tables EXCEPT ![t] = {Nth(S, k) : k \in (NKept + 1)..(n - 1)}]
      /\ isp' = [isp EXCEPT ![t] = Nth(S, n)]
      /\ SetStack(Nth(S, n))
      /\ whole' = [whole EXCEPT ![t] = Large \ {r}]
      /\ list' = [list EXCEPT ![t] = <<>>]
      /\ mode' = [mode EXCEPT ![t] = "on"]
      /\ together' = (together \/ \E o \in Procs : mode[o] # "shell")
      /\ UNCHANGED <<inFreemem, opened, top, frame, slip>>

-------------------------------------------------------------------------------
(* Calls, api.cpp                                                           *)

\* int 0x40: the frame of a call goes to its own application's stack.
Calls(t) == Turn(t) /\ mode[t] = "on" /\ rsp0 = isp[t]

\* It goes to a stack that another application has, or had: what a call does
\* on it is not followed.
CallAstray(t) == /\ Turn(t) /\ mode[t] = "on"
                 /\ rsp0 # isp[t]
                 /\ slip' = "stack"
                 /\ UNCHANGED <<used, al, alp, held, inFreemem, mode, opened, list, tables, isp,
                                whole, stackvars, kept, runs, together>>

\* malloc(): the block, and a table if its large page is not split yet.  Large
\* page 0 stands for no table needed here.
Malloc(t) ==
  LET b == Nth(Lowest(1), 1)
      n == IF LargeOf(b) \in whole[t] THEN 2 ELSE 1
  IN  /\ Calls(t)
      /\ Unused # {} /\ Len(list[t]) < MaxList
      /\ Take(t, n)
      /\ list' = [list EXCEPT ![t] = Append(@, b)]
      /\ tables' = [tables EXCEPT ![t] = @ \cup (Lowest(n) \ {b})]
      /\ whole' = [whole EXCEPT ![t] = @ \ {LargeOf(b)}]
      /\ UNCHANGED <<inFreemem, mode, opened, isp, stackvars, kept, runs, together, slip>>

Listed(t) == {list[t][k] : k \in 1..Len(list[t])}

\* free(): the entries behind are moved up, and the copy of alp is decremented:
\* the list keeps its length and its last entry.
Shifted(s, a) ==
  LET i0 == CHOOSE k \in 1..Len(s) : s[k] = a /\ \A j \in 1..(k - 1) : s[j] # a
  IN  [k \in 1..Len(s) |-> IF k >= i0 /\ k < Len(s) THEN s[k + 1] ELSE s[k]]

\* The blocks the application has from malloc().
Own(t) == {x \in held[t] \ kept[t] : x.addr \notin tables[t] \cup {isp[t]}}

\* free() of any address: i is never -1 behind the loop, so freemem() is called
\* for one that is not in the list, too.
FreeApp(t) ==
  /\ Calls(t)
  /\ \E a \in Page :
       /\ list' = [list EXCEPT ![t] = IF a \in Listed(t) THEN Shifted(@, a) ELSE @]
       /\ Release({a})
       /\ held' = [held EXCEPT ![t] = @ \ {x \in Own(t) : x.addr = a}]
       /\ slip' = IF \E x \in HeldBlocks \ Own(t) : x.addr = a THEN "stray" ELSE ""
  /\ UNCHANGED <<inFreemem, mode, opened, tables, isp, whole, stackvars, kept, runs, together>>

\* open(): findfile() copies the name (its directories, if it has some, are
\* looked up one by one in the same way) and reads the disk.
OpenName(t) ==
  /\ Calls(t)
  /\ Cardinality(kept[t]) < MaxKept
  /\ Take(t, 1)
  /\ kept' = [kept EXCEPT ![t] = @ \cup Singles(Lowest(1))]
  /\ opened' = [opened EXCEPT ![t] = Nth(Lowest(1), 1)]
  /\ mode' = [mode EXCEPT ![t] = "find"]
  /\ frame' = [frame EXCEPT ![t] = rsp0]
  /\ top' = [top EXCEPT ![rsp0] = {t}]
  /\ UNCHANGED <<inFreemem, list, tables, isp, whole, rsp0, runs, together, slip>>

\* The copy is returned, when there is such a file and when there is none.
OpenFind(t) ==
  /\ Turn(t) /\ mode[t] = "find"
  /\ Release({opened[t]})
  /\ held' = [held EXCEPT ![t] = @ \ {Single(opened[t])}]
  /\ kept' = [kept EXCEPT ![t] = @ \ {Single(opened[t])}]
  /\ opened' = [opened EXCEPT ![t] = 0]
  /\ mode' = [mode EXCEPT ![t] = "found"]
  /\ UNCHANGED <<inFreemem, list, tables, isp, whole, stackvars, runs, together, slip>>

Returns(t) == /\ mode' = [mode EXCEPT ![t] = "on"]
              /\ opened' = [opened EXCEPT ![t] = 0]
              /\ frame' = [frame EXCEPT ![t] = 0]
              /\ top' = [top EXCEPT ![frame[t]] = {}]

OpenNone(t) ==
  /\ Turn(t) /\ mode[t] = "found"
  /\ Returns(t)
  /\ UNCHANGED <<used, al, alp, held, inFreemem, list, tables, isp, whole, rsp0, kept, runs,
                 together, slip>>

\* The file structure, which is never freed; preparecluschain() reads the disk.
OpenTake(t) ==
  /\ Turn(t) /\ mode[t] = "found"
  /\ Cardinality(kept[t]) < MaxKept
  /\ Take(t, 1)
  /\ kept' = [kept EXCEPT ![t] = @ \cup Singles(Lowest(1))]
  /\ opened' = [opened EXCEPT ![t] = Nth(Lowest(1), 1)]
  /\ mode' = [mode EXCEPT ![t] = "read"]
  /\ UNCHANGED <<inFreemem, list, tables, isp, whole, stackvars, runs, together, slip>>

\* allocpage() of the file's place in the fat's buffer, from large page first to
\* large page last, and of the file structure: a table for each that is whole.
OpenMap(t) ==
  \E first, last \in Large :
    LET M == {p \in whole[t] : first <= p /\ p <= last} \cup ({LargeOf(opened[t])} \cap whole[t])
        n == Cardinality(M)
    IN  /\ Turn(t) /\ mode[t] = "read"
        /\ first <= last
        /\ Take(t, n)
        /\ tables' = [tables EXCEPT ![t] = @ \cup Lowest(n)]
        /\ whole' = [whole EXCEPT ![t] = @ \ M]
        /\ Returns(t)
        /\ UNCHANGED <<inFreemem, list, isp, rsp0, kept, runs, together, slip>>

-------------------------------------------------------------------------------
(* exit(), and the terminal behind it                                       *)

\* Mutant of Broken: the tables of the large pages are forgotten.
BrokenTop(t) == whole[t]

\* breakp4: the tables, and every address an entry of the third level has, that
\* of a large page too.
Broken(t) == tables[t] \cup whole[t]

\* exit frees what the list has; breakp4 and freemem(isp) follow before the
\* next sti.
Exit(t) ==
  LET A == Listed(t) \cup Broken(t) \cup {isp[t]}
  IN  /\ Calls(t)
      /\ Release(A)
      /\ held' = [held EXCEPT ![t] = kept[t]]
      /\ slip' = IF Hits(t, Listed(t)) THEN "stale" ELSE IF Hits(t, A) THEN "large" ELSE ""
      /\ mode' = [mode EXCEPT ![t] = "shell"]
      /\ list' = [list EXCEPT ![t] = <<>>]
      /\ tables' = [tables EXCEPT ![t] = {}]
      /\ whole' = [whole EXCEPT ![t] = {}]
      /\ isp' = [isp EXCEPT ![t] = 0]
      /\ UNCHANGED <<inFreemem, opened, stackvars, kept, runs, together>>

-------------------------------------------------------------------------------
(* Interrupts                                                               *)

\* The timer takes the processor from the application: its frame goes to the
\* top of the stack rsp0 names, whatever is there.
Interrupt(t) ==
  /\ Turn(t) /\ mode[t] = "on"
  /\ mode' = [mode EXCEPT ![t] = "off"]
  /\ frame' = [frame EXCEPT ![t] = rsp0]
  /\ top' = [top EXCEPT ![rsp0] = {t}]
  /\ slip' = IF rsp0 # isp[t] THEN "stack" ELSE ""
  /\ UNCHANGED <<used, al, alp, held, inFreemem, opened, list, tables, isp, whole, rsp0, kept, runs,
                 together>>

\* Its turn comes again, and it goes on behind the frame.
Resume(t) ==
  /\ Turn(t) /\ mode[t] = "off"
  /\ mode' = [mode EXCEPT ![t] = "on"]
  /\ frame' = [frame EXCEPT ![t] = 0]
  /\ top' = [top EXCEPT ![frame[t]] = {}]
  /\ UNCHANGED <<used, al, alp, held, inFreemem, opened, list, tables, isp, whole, rsp0, kept, runs,
                 together, slip>>

-------------------------------------------------------------------------------
(* Other commands                                                           *)

CommandSearch(t, n) == /\ Turn(t) /\ mode[t] = "shell"
                       /\ Cardinality(held[t] \ kept[t]) < MaxHeld
                       /\ Search(t, n) \/ SearchFails(t, n)
                       /\ UNCHANGED appvars

CommandFree(t, x) == /\ Turn(t) /\ mode[t] = "shell"
                     /\ x \in held[t] \ kept[t]
                     /\ Release({x.addr})
                     /\ held' = [held EXCEPT ![t] = @ \ {x}]
                     /\ UNCHANGED <<inFreemem, appvars>>

AppsNext == \E t \in Procs :
              \/ \E n \in 0..MaxPages : CommandSearch(t, n)
              \/ \E x \in held[t] : CommandFree(t, x)
              \/ \E r \in Large : Start(t, r)
              \/ Malloc(t) \/ FreeApp(t) \/ Exit(t) \/ CallAstray(t)
              \/ OpenName(t) \/ OpenFind(t) \/ OpenNone(t) \/ OpenTake(t) \/ OpenMap(t)
              \/ Interrupt(t) \/ Resume(t)

AppsSpec == AppsInit /\ [][AppsNext]_<<vars, appvars>>

-------------------------------------------------------------------------------
(* Properties *)

AppsTypeOK ==
  /\ TypeOK
  /\ mode \in [Procs -> {"shell", "on", "off", "find", "found", "read"}]
  /\ opened \in [Procs -> Page]
  /\ list \in [Procs -> Seq(Page)]
  /\ tables \in [Procs -> SUBSET Page] /\ whole \in [Procs -> SUBSET Large]
  /\ isp \in [Procs -> Page] /\ frame \in [Procs -> Page] /\ rsp0 \in Page
  /\ top \in [Page -> SUBSET Procs]
  /\ kept \in [Procs -> SUBSET Block]
  /\ runs \in 0..MaxRuns /\ together \in BOOLEAN
  /\ slip \in {"", "stray", "stale", "large", "stack"}

\* Memory of a task is its own, and what is in use somebody has, also when
\* applications come and go: exit, breakp4 and the terminal behind them return
\* all that was taken but the blocks named in kept, and nothing of another task
\* (terminal.cpp:228-262, api.cpp:14-59, x64.cpp:54-87).  Except where slip says
\* that the application freed an address that begins a block it has not from
\* malloc(), that the list had an entry of a block that was freed already and that
\* another task has got meanwhile, or another task's block begins at a large page.
AppsOwn == slip \in {"", "stack"} => HeldIsOwned /\ OnlyHeldInUse

\* As long as one application runs at a time, and frees only what it has from
\* malloc(), what is saved of one that was interrupted or is in open() stays as it
\* is: it is on top of a stack that its terminal holds, and no other frame has been
\* put there (terminal.cpp:256-258).
FrameOwn ==
  ~together /\ slip \notin {"stray", "stale", "large"} =>
    /\ AppsTypeOK
    /\ slip # "stack"
    /\ \A t \in Procs : mode[t] \notin {"shell", "on"} =>
         /\ top[frame[t]] = {t}
         /\ Single(frame[t]) \in held[t]
===============================================================================
