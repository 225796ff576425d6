------------------------------- MODULE Desktop --------------------------------
(***************************************************************************)
(* The stack of layers and the windows made of them (layer.cpp,            *)
(* window.cpp, console.cpp, textbox.cpp, button.cpp), as the event loop    *)
(* (kernel.cpp:93-116, 310-320, 341-485) and the terminals                 *)
(* (terminal.cpp:54-74, 170-174; api.cpp:22) build, raise, close and focus *)
(* them.                                                                   *)
(*                                                                         *)
(* All of this code runs with interrupts off, but a task other than the    *)
(* event loop gives its turn away wherever it draws (layer.cpp:112): in    *)
(* the middle of a window that it builds or closes, and between two slaves *)
(* of a layer that it moves.  calls[t] is the stack of updown() calls that *)
(* t is in; busy is the task whose turn it is until it draws.              *)
(*                                                                         *)
(* Where on the screen a layer lies is not in the model: a press hits any  *)
(* layer that checkcrick() looks at.  Positions, pixels and the letters    *)
(* typed are left out, and the shutdown button, which ends the machine.    *)
(***************************************************************************)
EXTENDS Integers, Sequences, SequencesExt, FiniteSetsExt

CONSTANTS Main,       \* the event loop
          Terminals,  \* the tasks that key 7 starts, and their windows
          Apps,       \* windows that applications open
          Form,       \* the window of the logform
          Desk,       \* the owner of the layers of no window
          None,
          Wild,       \* an uninitialised pointer
          Junk,       \* an entry of layers or slaves nobody has written
          MaxWindows  \* bound: windows made beside the form

Window == Terminals \cup Apps \cup {Form}
Task == Terminals \cup {Main}

ASSUME DesktopAssumption == /\ Main \notin Terminals
                            /\ Form \notin Terminals \cup Apps
                            /\ Desk \notin Window
                            /\ MaxWindows \in Nat
                            /\ {None, Wild} \cap (Window \cup Task) = {}

Cs(w) == <<w, "cs">>
Edge(w) == <<w, "edge">>
Tb(w) == <<w, "tb">>
Con(w) == <<w, "console">>        \* of a terminal, or of the text box
Box == <<Form, "textbox">>
Button == <<Form, "button">>
Base == <<<<Desk, "bl">>, <<Desk, "cns">>, <<Desk, "dc">>, <<Desk, "shutdown">>>>
Cursor == <<Desk, "cursor">>
Layer == ToSet(Base) \cup {Cursor, Box, Button}
         \cup Window \X {"cs", "edge", "tb", "console"}

VARIABLES layers,      \* layers[k + 1]: the layer of height k
          slaves,      \* slaves[l]: the first manye of them
          registered,  \* the layers that have a master
          freed,
          calls, busy,
          pc, win,     \* what each task is doing, and with which window
          asked,       \* asked[t]: a command that t was typed
          owner,       \* the windows that have an owner
          built,       \* the windows that have all their parts
          nowb, nowt, mw, termlock,
          slip         \* "crossed": a console was made while other windows
                       \* came to the front; "torn": a pointer was followed to
                       \* what is not there

stack == <<layers, slaves>>
task == <<pc, win, asked>>
focus == <<nowb, nowt, mw>>
vars == <<stack, registered, freed, calls, busy, task, owner, built, focus, termlock, slip>>

Init == /\ layers = Append(Base, Cursor)
        /\ slaves = [l \in Layer |-> <<>>]
        /\ registered = {} /\ freed = {}
        /\ calls = [t \in Task |-> <<>>]
        /\ busy = Main
        /\ pc = [t \in Task |-> IF t = Main THEN "dim" ELSE "none"]
        /\ win = [t \in Task |-> IF t = Main THEN Form ELSE t]
        /\ asked = [t \in Task |-> None]
        /\ owner = {} /\ built = {}
        /\ nowb = None /\ nowt = None /\ mw \in {None, Wild}
        /\ termlock = 1
        /\ slip = "no"

-------------------------------------------------------------------------------
(* layer::updown() *)

Top == Len(layers) - 1
Height(l) == SelectInSeq(layers, LAMBDA x : x = l) - 1
Master(l) == IF l = Con(Form) THEN Box ELSE Cs(l[1])

\* Mutant of Target: the master is above its slave as before.
TargetBelow(l, h) ==
  LET m == Height(Master(l))
  IN  CASE l \notin registered -> h
        [] m = -1 -> -1
        [] OTHER -> h + m + IF Height(l) >= 0 THEN 1 ELSE 0

\* The height of a slave is relative to its master's.
Target(l, h) ==
  LET m == Height(Master(l))
  IN  CASE l \notin registered -> h
        [] m = -1 -> -1
        [] OTHER -> h + m + IF Height(l) >= m THEN 1 ELSE 0

\* Two places of the master's list of slaves change their contents, the places
\* that have the heights as numbers; those from manye on are not in the list.
Swap(l, n) ==
  LET m == Master(l)
      old == Height(l)
      b == IF n < Len(slaves[m]) THEN slaves[m][n + 1] ELSE Junk
  IN  IF l \notin registered \/ old < 0 \/ n < 0 THEN slaves
      ELSE [slaves EXCEPT ![m] = [k \in DOMAIN @ |-> CASE k - 1 = old -> b
                                                       [] k - 1 = n -> l
                                                       [] OTHER -> @[k]]]

\* l goes to height n; the layers in between move by one.  A layer that is
\* shown already cannot go above the others: an unused entry would follow.
Place(l, n) ==
  LET rest == Remove(layers, l)
  IN  CASE n < 0 -> rest
        [] n > Len(rest) -> Append(rest, Junk)
        [] OTHER -> InsertAt(rest, n + 1, l)

Call(l, h) == <<l, h>>
Refresh == <<None, 0>>
\* Mutant of Slaves: the last one stays.
SlavesButOne(l) == [k \in 1..(Len(slaves[l]) - 1) |-> Call(slaves[l][k], k - 1)]
Slaves(l) == [k \in DOMAIN slaves[l] |-> Call(slaves[l][k], k - 1)]

Turn(t) == slip # "torn" /\ busy \in {t, None}

\* refreshsub(): the event loop draws, any other task gives its turn away.
Drawn(t, rest) ==
  /\ calls' = [calls EXCEPT ![t] = rest]
  /\ busy' = IF t = Main /\ (rest # <<>> \/ pc[t] # "loop") THEN t ELSE None

\* updown(h) of l; its slaves follow, and then it is drawn.
Updown(t) ==
  /\ Turn(t)
  /\ calls[t] # <<>> /\ Head(calls[t]) # Refresh
  /\ LET l == Head(calls[t])[1]
         n == Target(l, Head(calls[t])[2])
     IN  /\ slaves' = Swap(l, n)
         /\ layers' = Place(l, IF n > Top THEN Top + 1 ELSE n)
         /\ IF slaves[l] = <<>> THEN Drawn(t, Tail(calls[t]))
            ELSE /\ calls' = [calls EXCEPT ![t] = Slaves(l) \o <<Refresh>> \o Tail(@)]
                 /\ busy' = t
  /\ UNCHANGED <<registered, freed, task, owner, built, focus, termlock, slip>>

Draw(t) ==
  /\ Turn(t)
  /\ calls[t] # <<>> /\ Head(calls[t]) = Refresh
  /\ Drawn(t, Tail(calls[t]))
  /\ UNCHANGED <<stack, registered, freed, task, owner, built, focus, termlock, slip>>

-------------------------------------------------------------------------------
(* Building a window *)

\* t goes on from p to q, with a call of updown().
Goes(t, p, q, call) == /\ Turn(t) /\ calls[t] = <<>> /\ pc[t] = p
                       /\ pc' = [pc EXCEPT ![t] = q]
                       /\ calls' = [calls EXCEPT ![t] = call]
                       /\ busy' = t
                       /\ UNCHANGED <<layers, freed, win, asked, nowt, mw, termlock>>

Parts(w) == {l \in registered : l[1] = w} \cup {Cs(w)}

\* The parts of w are directly below the cursor.
InFront(w) == LET n == Len(layers) - 1 - Cardinality(Parts(w))
              IN  Last(layers) = Cursor /\ ToSet(SubSeq(layers, n + 1, Len(layers) - 1)) = Parts(w)

Registss(m, l) == /\ slaves' = [slaves EXCEPT ![m] = Append(@, l)]
                  /\ registered' = registered \cup {l}

\* window::window(): the active one is drawn inactive, then as a whole.
Dim(t) == /\ Goes(t, "dim", IF nowb = None THEN "cs" ELSE "dimmed",
                  IF nowb = None THEN <<>> ELSE <<Refresh>>)
          /\ slip' = IF nowb # None /\ nowb \notin built THEN "torn" ELSE slip
          /\ UNCHANGED <<slaves, registered, owner, built, nowb>>

Dimmed(t) == /\ Goes(t, "dimmed", "cs", <<Refresh>>)
             /\ slip' = IF nowb \notin built THEN "torn" ELSE slip
             /\ UNCHANGED <<slaves, registered, owner, built, nowb>>

\* A window comes to the front while a console is not yet part of its own.
Apart == \E t \in Terminals : Con(t) \in ToSet(layers) \ registered
Crosses == slip' = IF Apart THEN "crossed" ELSE slip

MakeCs(t) == /\ Goes(t, "cs", "edge", <<Call(Cs(win[t]), Top)>>)
             /\ Crosses
             /\ UNCHANGED <<slaves, registered, owner, built, nowb>>

MakeEdge(t) == /\ Goes(t, "edge", "tb", <<Call(Edge(win[t]), Height(Cs(win[t])) + 1)>>)
               /\ UNCHANGED <<slaves, registered, owner, built, nowb, slip>>

MakeTb(t) == /\ Goes(t, "tb", "joined", <<Call(Tb(win[t]), Height(Cs(win[t])))>>)
             /\ Registss(Cs(win[t]), Edge(win[t]))
             /\ UNCHANGED <<owner, built, nowb, slip>>

Joined(t) == /\ Goes(t, "joined", "front", <<Refresh>>)
             /\ Registss(Cs(win[t]), Tb(win[t]))
             /\ built' = built \cup {win[t]}
             /\ UNCHANGED <<owner, nowb, slip>>

MakeFront(t) == /\ Goes(t, "front", CASE win[t] = Form -> "box" [] win[t] = t -> "own"
                                  [] OTHER -> "getc",
                    <<Call(Cs(win[t]), Top - 1)>>)
            /\ nowb' = win[t]
            /\ Crosses
            /\ UNCHANGED <<slaves, registered, owner, built>>

\* terminal::m(): the console is made above the cursor and put below it.
MakeConsole(t) == /\ Goes(t, "own", "sink", <<Call(Con(t), Top + 1)>>)
                  /\ owner' = owner \cup {t}
                  /\ slip' = IF InFront(t) THEN slip ELSE "crossed"
                  /\ UNCHANGED <<slaves, registered, built, nowb>>

Sink(t) == /\ Goes(t, "sink", "join", <<Call(Con(t), Top - 1)>>)
           /\ UNCHANGED <<slaves, registered, owner, built, nowb, slip>>

Join(t) == /\ Goes(t, "join", "getc", <<Refresh>>)
           /\ Registss(Cs(t), Con(t))
           /\ UNCHANGED <<owner, built, nowb, slip>>

\* logform::logform(), with a text box and a button.
MakeBox == /\ Goes(Main, "box", "boxtext", <<Call(Box, Top)>>)
           /\ UNCHANGED <<slaves, registered, owner, built, nowb, slip>>

MakeBoxText == /\ Goes(Main, "boxtext", "boxsink", <<Call(Con(Form), Top + 1)>>)
               /\ UNCHANGED <<slaves, registered, owner, built, nowb, slip>>

SinkBoxText == /\ Goes(Main, "boxsink", "button", <<Call(Con(Form), Height(Box) + 1)>>)
               /\ UNCHANGED <<slaves, registered, owner, built, nowb, slip>>

MakeButton == /\ Goes(Main, "button", "formed", <<Call(Button, Top)>>)
              /\ slaves' = [slaves EXCEPT ![Box] = Append(@, Con(Form)),
                                          ![Cs(Form)] = Append(@, Box)]
              /\ registered' = registered \cup {Con(Form), Box}
              /\ UNCHANGED <<owner, built, nowb, slip>>

Formed == /\ Goes(Main, "formed", "loop", <<Refresh>>)
          /\ Registss(Cs(Form), Button)
          /\ UNCHANGED <<owner, built, nowb, slip>>

-------------------------------------------------------------------------------
(* Closing one: its layers go, and are freed, with their slaves. *)

\* Mutant of Unfocus: nowb goes on naming the window.
UnfocusNot(w) == nowb' = nowb
Unfocus(w) == nowb' = IF nowb = w THEN None ELSE nowb

\* delete cs, by a task at p, up to where its memory is freed.
Hide(t, p, q, w) == /\ Goes(t, p, q, <<Call(Cs(w), -1)>>)
                    /\ Unfocus(w)
                    /\ built' = built \ {w}

Free(w) == freed' = freed \cup {l \in registered : l[1] = w} \cup {Cs(w)}

\* "exit": the terminal's own window.
Exit(t) == /\ t # Main /\ asked[t] = "exit"
           /\ Hide(t, "getc", "exit", t)
           /\ slip' = IF Cs(t) \in freed THEN "torn" ELSE slip
           /\ UNCHANGED <<slaves, registered, owner>>

Exited(t) == /\ Turn(t) /\ calls[t] = <<>> /\ pc[t] = "exit"
             /\ pc' = [pc EXCEPT ![t] = "gone"]
             /\ Free(t)
             /\ busy' = None
             /\ UNCHANGED <<stack, registered, calls, win, asked, owner, built, focus,
                            termlock, slip>>

\* Bound on the windows, those that have gone included.
Another == Cardinality({t \in Terminals : pc[t] # "none"}
                       \cup {a \in Apps : a \in built \/ \E t \in Terminals : win[t] = a})
           < MaxWindows

\* An application opens a window.
Opens(t) == /\ t # Main /\ asked[t] = "app"
            /\ Turn(t) /\ calls[t] = <<>> /\ pc[t] = "getc"
            /\ Another
            /\ \E a \in Apps : /\ \A o \in Terminals : win[o] # a
                               /\ win' = [win EXCEPT ![t] = a]
            /\ pc' = [pc EXCEPT ![t] = "dim"]
            /\ asked' = [asked EXCEPT ![t] = None]
            /\ busy' = t
            /\ UNCHANGED <<stack, registered, freed, calls, owner, built, focus,
                           termlock, slip>>

-------------------------------------------------------------------------------
(* The event loop *)

AtLoop == Turn(Main) /\ calls[Main] = <<>> /\ pc[Main] = "loop"

\* checkcrick(): the front layer is not looked at, nor the rearmost.
Hits == {layers[k] : k \in 2..Top} \ {Base[4]}

Root(l) == IF l \in registered THEN Cs(l[1]) ELSE l
WindowOf(l) == IF Root(l)[2] = "cs" THEN l[1] ELSE None

\* Mutant of FrontFor: the window stays behind the one that was active.
FrontForBehind(w) == IF nowb \in built \ {w} THEN Height(Cs(nowb)) - 1 ELSE Top - 1
FrontFor(w) == Top - 1

\* A press on layer l: what was active is no longer, the window of l comes to
\* the front.
Press(l) ==
  /\ AtLoop /\ l \in Hits
  /\ LET w == WindowOf(l)
     IN  /\ nowt' = IF l \in {Box, Con(Form)} THEN Box ELSE nowt
         /\ IF mw = None
            THEN /\ mw' = IF l = Tb(l[1]) THEN l[1] ELSE None
                 /\ nowb' = w
                 /\ calls' = [calls EXCEPT ![Main] =
                                IF w = None THEN <<>> ELSE <<Call(Cs(w), FrontFor(w))>>]
            ELSE UNCHANGED <<mw, nowb, calls>>
         /\ slip' = CASE mw = None /\ l = Tb(l[1]) /\ l \notin registered -> "torn"
                      [] mw = None /\ w # None /\ w \notin built -> "torn"
                      [] mw = None /\ w # None /\ Apart -> "crossed"
                      [] OTHER -> slip
         /\ pc' = [pc EXCEPT ![Main] = IF l = Button THEN "login" ELSE "loop"]
         /\ busy' = IF calls'[Main] = <<>> /\ l # Button THEN None ELSE Main
  /\ UNCHANGED <<stack, registered, freed, win, asked, owner, built, termlock>>

\* A press on none: on the desktop.
PressNone == /\ AtLoop /\ mw = None /\ nowb # None
             /\ nowb' = None /\ nowt' = None
             /\ UNCHANGED <<stack, registered, freed, calls, busy, pc, win, asked, owner,
                            built, mw, termlock, slip>>

\* The window is put where the mouse is.
Release == /\ AtLoop /\ mw # None
           /\ mw' = None
           /\ slip' = IF mw \notin built THEN "torn" ELSE slip
           /\ UNCHANGED <<stack, registered, freed, calls, busy, task, owner, built, nowb,
                          nowt, termlock>>

\* login(): the name in the text box is a user's; the form is deleted.
LoginKnown == /\ nowt = Box
              /\ Hide(Main, "login", "known", Form)
              /\ UNCHANGED <<slaves, registered, owner, slip>>

LoginUnknown == /\ Turn(Main) /\ calls[Main] = <<>> /\ pc[Main] = "login"
                /\ pc' = [pc EXCEPT ![Main] = "loop"]
                /\ busy' = None
                /\ UNCHANGED <<stack, registered, freed, calls, win, asked, owner, built,
                               focus, termlock, slip>>

LoginDone == /\ Turn(Main) /\ calls[Main] = <<>> /\ pc[Main] = "known"
             /\ pc' = [pc EXCEPT ![Main] = "loop"]
             /\ Free(Form)
             /\ termlock' = 0
             /\ busy' = None
             /\ UNCHANGED <<stack, registered, calls, win, asked, owner, built, focus, slip>>

\* The key that closes the active window, if it is a terminal's.
KeyEnd == /\ AtLoop /\ nowb \in owner
          /\ pc' = [pc EXCEPT ![Main] = "end"]
          /\ win' = [win EXCEPT ![Main] = nowb]
          /\ calls' = [calls EXCEPT ![Main] = <<Call(Cs(nowb), -1)>>]
          /\ busy' = Main
          /\ Unfocus(nowb)
          /\ built' = built \ {nowb}
          /\ slip' = IF Con(nowb) \in registered THEN slip ELSE "torn"
          /\ UNCHANGED <<stack, registered, freed, asked, owner, nowt, mw,
                         termlock>>

KeyEnded == /\ Turn(Main) /\ calls[Main] = <<>> /\ pc[Main] = "end"
            /\ pc' = [pc EXCEPT ![Main] = "loop"]
            /\ Free(win[Main])
            /\ busy' = None
            /\ UNCHANGED <<stack, registered, calls, win, asked, owner, built, focus,
                           termlock, slip>>

\* Other keys are sent on to the owner.
KeyCommand == /\ AtLoop /\ nowb \in owner /\ asked[nowb] = None
              /\ \E c \in {"exit", "app"} : asked' = [asked EXCEPT ![nowb] = c]
              /\ UNCHANGED <<stack, registered, freed, calls, busy, pc, win, owner,
                             built, focus, termlock, slip>>

\* Key 7, without an active window.
KeyTerminal == /\ AtLoop /\ nowb = None /\ termlock = 0
               /\ Another
               /\ \E t \in Terminals : /\ pc[t] = "none"
                                       /\ pc' = [pc EXCEPT ![t] = "dim"]
               /\ UNCHANGED <<stack, registered, freed, calls, busy, win, asked, owner,
                              built, focus, termlock, slip>>

-------------------------------------------------------------------------------
Next == \/ \E t \in Task : \/ Updown(t) \/ Draw(t)
                           \/ Dim(t) \/ Dimmed(t) \/ MakeCs(t) \/ MakeEdge(t) \/ MakeTb(t)
                           \/ Joined(t) \/ MakeFront(t) \/ MakeConsole(t) \/ Sink(t) \/ Join(t)
                           \/ Exit(t) \/ Exited(t) \/ Opens(t)
        \/ MakeBox \/ MakeBoxText \/ SinkBoxText \/ MakeButton \/ Formed
        \/ \E l \in Layer : Press(l)
        \/ PressNone \/ Release
        \/ LoginKnown \/ LoginUnknown \/ LoginDone
        \/ KeyEnd \/ KeyEnded \/ KeyCommand \/ KeyTerminal

Spec == Init /\ [][Next]_vars

-------------------------------------------------------------------------------
(* Properties *)

TypeOK == /\ registered \subseteq Layer /\ freed \subseteq Layer
          /\ busy \in Task \cup {None} /\ termlock \in {0, 1}
          /\ owner \subseteq Terminals /\ built \subseteq Window
          /\ nowb \in Window \cup {None} /\ nowt \in {Box, None}
          /\ mw \in Window \cup {None, Wild}
          /\ slip \in {"no", "crossed", "torn"}

\* Every layer is in one place of layers, and every list of slaves is what was
\* registered: the places that updown() exchanges by their heights
\* (layer.cpp:147-149) are all behind the list.
ListsKept ==
  /\ ToSet(layers) \subseteq Layer /\ IsInjective(layers)
  /\ SubSeq(layers, 1, 4) = Base
  /\ \A m \in Layer : /\ IsInjective(slaves[m])
                      /\ ToSet(slaves[m]) = {l \in registered : Master(l) = m}

\* The parts of a window lie one upon the other, on its cs.
Whole(w) == LET at == {k \in DOMAIN layers : layers[k] \in Parts(w)}
            IN  /\ Cardinality(at) = Max(at) - Min(at) + 1
                /\ layers[Min(at)] = Cs(w)

Moving(w) == \E t \in Task :
               \/ \E k \in DOMAIN calls[t] : calls[t][k] # Refresh /\ calls[t][k][1][1] = w
               \/ win[t] = w /\ pc[t] \in {"front", "sink", "join"}

\* The stack of layers as a user sees it, whatever other tasks build, close or
\* raise at the turns they are given: the cursor is in front, but for a
\* console that is being made, and nothing comes between the parts of a
\* window; unless a console was made, which goes above the cursor first, while
\* another window was made or raised (console.cpp:11, terminal.cpp:67).
Stacked ==
  /\ TypeOK
  /\ ListsKept
  /\ slip = "no" /\ busy = None =>
       /\ Last(layers) = Cursor \/ Last(layers) \in {Con(t) : t \in Terminals} \ registered
       /\ \A w \in built : ~Moving(w) => Whole(w)

\* A window that was pressed is in front with all of its parts as soon as the
\* event loop has raised it, even one that a task is building (with the same
\* exception).
Raised ==
  [][calls[Main] # <<>> /\ calls'[Main] = <<>> /\ pc[Main] = "loop" /\ nowb # None
       /\ slip = "no" => InFront(nowb)']_vars

\* The event loop draws no layer, and has no active window, that was freed or
\* is not all there, unless it followed a pointer to one before: a press on a
\* window that is being built or closed (window.cpp:25, layer.cpp:218), a
\* dragged window that is closed (kernel.cpp:391), the active one gone while
\* it was drawn (window.cpp:18), an uninitialised mw (kernel.cpp:310).
Alive ==
  slip # "torn" => /\ nowb # None => nowb \in built
                   /\ \A w \in built : Parts(w) \cap freed = {}
                   /\ ToSet(layers) \cap freed = {}
===============================================================================
