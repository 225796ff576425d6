------------------------------- MODULE Context -------------------------------
(***************************************************************************)
(* The registers of a task, of its application and of a call of it: the    *)
(* routines switchcont, RestoreContext, asmapihandle and jumpasapp of      *)
(* asm.asm on a machine of registers and stacks.                           *)
(*                                                                         *)
(* A register that a context computes with holds the value                 *)
(* <<task, level, register>>; whoever gets the processor back must find    *)
(* them again.  The stack for interrupts is that of the one application    *)
(* there is; module Apps has several.                                      *)
(***************************************************************************)
EXTENDS Integers, Sequences

CONSTANTS Tasks,    \* the tasks
          Main,     \* the first of them, the kernel's
          Shells,   \* those that run applications
          MaxApps   \* bound: applications started

ASSUME ContextAssumption == /\ Main \in Tasks /\ Shells \subseteq Tasks
                            /\ MaxApps \in Nat

\* As they are pushed and popped
Low6 == <<"rax", "rbx", "rcx", "rdx", "rdi", "rsi">>
High8 == <<"r8", "r9", "r10", "r11", "r12", "r13", "r14", "r15">>
Low6Back == <<"rsi", "rdi", "rdx", "rcx", "rbx", "rax">>
High8Back == <<"r15", "r14", "r13", "r12", "r11", "r10", "r9", "r8">>

Gpr == {"rax", "rbx", "rcx", "rdx", "rdi", "rsi", "rbp",
        "r8", "r9", "r10", "r11", "r12", "r13", "r14", "r15"}
Control == {"rip", "flags", "cs", "ss", "fs", "gs", "cr3"}
Reg == Gpr \cup Control \cup {"rsp"}

\* What a function called by the compiled code may change.
Scratch == {"rax", "rcx", "rdx", "rsi", "rdi", "r8", "r9", "r10", "r11"}

\* struct tc in words
Tc == <<"cr3", "rip", "flags", "rsv", "cs", "ss", "fs", "gs",
        "rax", "rbx", "rcx", "rdx", "rdi", "rsi", "rsp", "rbp",
        "r8", "r9", "r10", "r11", "r12", "r13", "r14", "r15">>

VARIABLES machine,  \* r: the registers, flags being IF; s: the stacks, up to their top
          ct,       \* ct[t]: the saved context of t
          brsp,     \* brsp[t]: the stack t left for its application
          running,
          at,       \* at[t]: "new", "kernel", "app", or "api" for a call
          apps      \* count, for the bound

contextvars == <<machine, ct, brsp, running, at, apps>>

Val(t, level, x) == <<t, level, x>>
\* Words that are no register's
Zero == <<"zero">>
Unset == <<"unset">>
\* Where a routine of the kernel begins
Entry(routine) == <<routine>>

\* The stack of a task, of its application, and the one for interrupts
Stack(t, name) == <<t, name>>
Stacks == Tasks \X {"kernel", "app", "irq"}
\* rsp with n words on the stack p
Depth(p, n) == [stack |-> p, n |-> n]
Empty(t, name) == Depth(Stack(t, name), 0)

-------------------------------------------------------------------------------
(* The machine                                                              *)

Set(m, x, v) == [r |-> [m.r EXCEPT ![x] = v], s |-> m.s]
SetAll(m, f) == [r |-> [x \in Reg |-> IF x \in DOMAIN f THEN f[x] ELSE m.r[x]], s |-> m.s]

\* mov rsp: what is above is lost.
SetRsp(m, p) == [r |-> [m.r EXCEPT !["rsp"] = p],
                 s |-> [m.s EXCEPT ![p.stack] = [i \in 1..p.n |-> @[i]]]]

\* The words ws, one after the other
PushAll(m, ws) ==
  LET p == m.r["rsp"]
      n == p.n + Len(ws)
  IN  [r |-> [m.r EXCEPT !["rsp"] = Depth(p.stack, n)],
       s |-> [m.s EXCEPT ![p.stack] =
                [i \in 1..n |-> IF i <= p.n THEN @[i] ELSE ws[i - p.n]]]]
PushRegs(m, xs) == PushAll(m, [i \in 1..Len(xs) |-> m.r[xs[i]]])
\* sub rsp and add rsp, in words
Skip(m, k) == PushAll(m, [i \in 1..k |-> Unset])
Drop(m, k) == LET p == m.r["rsp"] IN SetRsp(m, Depth(p.stack, p.n - k))
\* The word at rsp + 8*k
WordAt(m, k) == LET p == m.r["rsp"] IN m.s[p.stack][p.n - k]
\* The registers xs, one after the other
PopRegs(m, xs) ==
  LET place(x) == CHOOSE i \in 1..Len(xs) : xs[i] = x
  IN  Drop(SetAll(m, [x \in {xs[i] : i \in 1..Len(xs)} |-> WordAt(m, place(x) - 1)]), Len(xs))

\* iretq; fs and gs of the kernel are void in an application.
Iret(m) ==
  LET user == WordAt(m, 1) = "user"
      r == [x \in Reg |-> CASE x = "rip" -> WordAt(m, 0)
                            [] x = "cs" -> WordAt(m, 1)
                            [] x = "flags" -> WordAt(m, 2)
                            [] x = "ss" -> WordAt(m, 4)
                            [] x \in {"fs", "gs"} /\ user -> Zero
                            [] OTHER -> m.r[x]]
  IN  SetRsp([r |-> r, s |-> Drop(m, 5).s], WordAt(m, 3))

\* An interrupt, to the routine h: from an application to the stack of rsp0.
Trap(m, t, h) ==
  LET a == IF m.r["cs"] = "user" THEN SetRsp(Set(m, "ss", "void"), Empty(t, "irq")) ELSE m
      b == PushAll(a, <<m.r["ss"], m.r["rsp"], m.r["flags"], m.r["cs"], m.r["rip"]>>)
  IN  Set(Set(Set(b, "rip", Entry(h)), "cs", "kernel"), "flags", FALSE)

-------------------------------------------------------------------------------
(* switchcont and RestoreContext                                            *)

\* What it stores for its caller: rip is the return address on the stack.
Saved(m) == [x \in Reg |-> CASE x = "rip" -> WordAt(m, 0)
                             [] x = "rsp" -> Drop(m, 1).r["rsp"]
                             [] OTHER -> m.r[x]]

\* The frame for iret goes to the stack that is left.
RestoreContext(m, c) ==
  LET a == PushAll(m, <<c["ss"], c["rsp"], c["flags"], c["cs"], c["rip"]>>)
  IN  Iret(SetAll(a, [x \in Reg \ {"ss", "rsp", "flags", "cs", "rip"} |-> c[x]]))

\* task::task(): memory is cleared, and the kernel puts the task into rdi.
NewTask(t) == [x \in Reg |-> CASE x = "rip" -> Val(t, "kernel", "rip")
                               [] x = "rsp" -> Empty(t, "kernel")
                               [] x = "cs" -> "kernel"
                               [] x = "ss" -> "kernel"
                               [] x = "flags" -> TRUE
                               [] x = "cr3" -> "kernel"
                               [] x = "rdi" -> <<t>>
                               [] OTHER -> Zero]

\* The registers of level l of t, where it computes
Own(t, l) == [x \in Gpr |-> Val(t, l, x)]

ContextInit ==
  /\ ct = [t \in Tasks |-> NewTask(t)]
  /\ running = Main
  /\ at = [t \in Tasks |-> IF t = running THEN "kernel" ELSE "new"]
  /\ machine = SetAll([r |-> NewTask(running),
                       s |-> [p \in Stacks |-> <<>>]],
                      Own(running, "kernel"))
  /\ brsp = [t \in Tasks |-> "none"]
  /\ apps = 0

\* A new task gets going.
Work == /\ at[running] = "new"
        /\ machine' = SetAll(machine, Own(running, "kernel"))
        /\ at' = [at EXCEPT ![running] = "kernel"]
        /\ UNCHANGED <<ct, brsp, running, apps>>

\* taskswitch() calls switchcont.  Who was left by the timer is in its handler,
\* with interrupts off, and returns from there.
SwitchFrom(m, n) ==
  LET a == PushAll(m, <<m.r["rip"]>>)
      b == RestoreContext(a, ct[n])
  IN  /\ ct' = [ct EXCEPT ![running] = Saved(a)]
      /\ machine' = IF b.r["rip"] = Entry("handler") THEN Iret(b) ELSE b
      /\ running' = n
      /\ UNCHANGED <<brsp, at, apps>>

\* In the kernel a task may also sleep, in a call too.
Sleep(n) == /\ n # running /\ at[running] \in {"kernel", "api"}
            /\ SwitchFrom(machine, n)

TimerSwitch(n) == /\ n # running /\ machine.r["flags"]
                  /\ SwitchFrom(Trap(machine, running, "handler"), n)

-------------------------------------------------------------------------------
(* Applications                                                             *)

\* jumpasapp(argc, argv, rip, tsk): the registers to the stack, the stack to the
\* task, and an interrupt's return to the application.
JumpAsApp(m, t) ==
  LET a == PushRegs(m, <<"rip", "rbp">>)
      b == PushRegs(Set(a, "rbp", a.r["rsp"]), High8Back)
      c == Skip(PushRegs(b, <<"rbp">>), 1)
      d == PushRegs(c, Low6Back)
      e == PushAll(d, <<"user", Empty(t, "app"), TRUE, "user", Val(t, "app", "rip")>>)
  IN  [saved |-> d.r["rsp"], m |-> Iret(e)]

\* The application then computes with its own registers.
Jump == LET t == running
            j == JumpAsApp(Set(machine, "cr3", Val(t, "app", "cr3")), t)
        IN  /\ at[t] = "kernel" /\ t \in Shells
            /\ \A o \in Tasks : at[o] \notin {"app", "api"}
            /\ apps < MaxApps /\ apps' = apps + 1
            /\ brsp' = [brsp EXCEPT ![t] = j.saved]
            /\ machine' = SetAll(j.m, Own(t, "app"))
            /\ at' = [at EXCEPT ![t] = "app"]
            /\ UNCHANGED <<ct, running>>

\* asmapihandle up to apibody, whose argument is the frame it pushed.
ApiFrame(m) == LET a == PushRegs(m, <<"rbp">>)
                   b == Skip(PushRegs(Set(a, "rbp", a.r["rsp"]), High8Back), 2)
                   c == Skip(PushRegs(b, Low6Back), 8)
               IN  Set(c, "rdi", c.r["rsp"])

\* int 0x40, with the call's number in rax; apibody() keeps what a function keeps.
ApiCall(number) ==
  LET m == Trap(Set(machine, "rax", number), running, "apibody")
  IN  /\ at[running] = "app"
      /\ machine' = SetAll(ApiFrame(m), [x \in Scratch \ {"rdi"} |-> Val(running, "api", x)])
      /\ at' = [at EXCEPT ![running] = "api"]
      /\ UNCHANGED <<ct, brsp, running, apps>>

\* The disk drivers turn interrupts on.
ApiSti == /\ at[running] = "api" /\ ~machine.r["flags"]
          /\ machine' = Set(machine, "flags", TRUE)
          /\ UNCHANGED <<ct, brsp, running, at, apps>>

\* Mutant of ApiNext: r8 to r15 in the order they were pushed in.
ApiNextSwapped(m) ==
  LET a == PopRegs(Drop(m, 9), Tail(Low6))
      b == PopRegs(Drop(a, 2), High8Back)
  IN  Iret(PopRegs(SetRsp(b, b.r["rbp"]), <<"rbp">>))

\* .next: all registers but rax, the result.
ApiNext(m) == LET a == PopRegs(Drop(m, 9), Tail(Low6))
                  b == PopRegs(Drop(a, 2), High8)
              IN  Iret(PopRegs(SetRsp(b, b.r["rbp"]), <<"rbp">>))

\* Call 4: back to the caller of jumpasapp.
ApiLeave(m) == LET a == PopRegs(SetRsp(m, m.r["rax"]), Low6)
                   b == PopRegs(PopRegs(Drop(a, 1), <<"rbp">>), High8)
               IN  PopRegs(b, <<"rbp", "rip">>)

Number == WordAt(machine, 8)

ApiReturn == /\ at[running] = "api" /\ Number # "exit"
             /\ machine' = ApiNext(Set(machine, "rax", Val(running, "api", "rax")))
             /\ at' = [at EXCEPT ![running] = "app"]
             /\ UNCHANGED <<ct, brsp, running, apps>>

\* The terminal then restores its page tables.
ApiExit == /\ at[running] = "api" /\ Number = "exit"
           /\ machine' = Set(ApiLeave(Set(machine, "rax", brsp[running])), "cr3", "kernel")
           /\ at' = [at EXCEPT ![running] = "kernel"]
           /\ UNCHANGED <<ct, brsp, running, apps>>

ContextNext == \/ Work
               \/ \E n \in Tasks : Sleep(n) \/ TimerSwitch(n)
               \/ Jump \/ ApiSti \/ ApiReturn \/ ApiExit
               \/ \E number \in {"call", "exit"} : ApiCall(number)

ContextSpec == ContextInit /\ [][ContextNext]_contextvars

-------------------------------------------------------------------------------
(* Properties *)

\* Register x of an application: rax holds the result of its last call.
Kept(m, t, l, x) == \/ m.r[x] = Val(t, l, x)
                    \/ l = "app" /\ x = "rax" /\ m.r[x] = Val(t, "api", x)

\* Whatever switches came in between, those within a call included, the task or
\* the application that has the processor finds each register as it left it, its
\* stack as deep, its page tables and privilege; a task whose application left
\* goes on behind jumpasapp; a new one finds itself in rdi.  And apibody() finds
\* the application's registers in struct tc (asm.asm:88-308, kernel.h:167-173).
RegistersKept ==
  LET t == running
      l == at[t]
      r == machine.r
      tag == IF l = "app" THEN "user" ELSE "kernel"
  IN  /\ l \in {"kernel", "app"} =>
           /\ \A x \in Gpr : Kept(machine, t, l, x)
           /\ r["rip"] = Val(t, l, "rip") /\ r["rsp"] = Empty(t, l)
      /\ r["cs"] = tag
      /\ l = "app" => r["ss"] = "user" /\ r["flags"]
      /\ r["cr3"] = IF l \in {"app", "api"} THEN Val(t, "app", "cr3") ELSE "kernel"
      /\ l = "new" => r = NewTask(t)
      /\ l = "api" => \A k \in 1..Len(Tc) :
                         Tc[k] \in Gpr \ {"rax", "rbp"} =>
                           WordAt(machine, k - 1) = Val(t, "app", Tc[k])
===============================================================================
