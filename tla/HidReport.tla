------------------------------ MODULE HidReport -------------------------------
(***************************************************************************)
(* How hid.cpp finds its fields in a report: decoderd() goes over the      *)
(* items of the report descriptor, getd() takes a field out of the bits.   *)
(* Beside them the rule of the HID class, which they are compared with.    *)
(*                                                                         *)
(* An item is [tag, value]; a report is its bits, by number.  Items whose  *)
(* data has four bytes, and the limits of the values, are left out.        *)
(***************************************************************************)
EXTENDS Integers, Sequences, SequencesExt

Item(tag, value) == [tag |-> tag, value |-> value]

\* A field of the report, and none.
Field(off, size) == [off |-> off, size |-> size]
Absent == Field(0, 0)
Fields == [x |-> Absent, y |-> Absent, buttons |-> Absent, keys |-> Absent, mods |-> Absent]

Const(attr) == attr % 2 = 1
Relative(attr) == (attr \div 4) % 2 = 1

-------------------------------------------------------------------------------
(* decoderd(): cp, rs, cc, bo and uis are its locals, the rest is the hid. *)

Start == [cp |-> 0, rs |-> 0, cc |-> 0, bo |-> 0, uis |-> <<>>, hid |-> Fields]

\* The buttons' page stands for a usage of its own; the keyboard's drops those
\* of the collection.
UsagePage(s, v) ==
  [s EXCEPT !.cp = v,
            !.uis = CASE v = 9 -> Append(@, 0) [] v = 7 -> <<>> [] OTHER -> @]

\* An input without usages: the key array, the modifiers, or filling.
InputPlain(s, attr) ==
  LET f == Field(s.bo, s.rs * s.cc)
  IN  [s EXCEPT
         !.hid = IF s.cp = 7 /\ s.rs = 8 /\ ~Const(attr) THEN [@ EXCEPT !.keys = f]
                 ELSE IF s.rs = 1 /\ @.mods = Absent THEN [@ EXCEPT !.mods = f]
                 ELSE @,
         !.bo = @ + s.rs * s.cc]

\* Mutant of InputUsage: every usage takes the room of one field.
InputUsageOne(s, u) ==
  IF u \in {1, 2, 238} THEN s
  ELSE [s EXCEPT
          !.hid = CASE u = 48 -> [@ EXCEPT !.x = Field(s.bo, s.rs)]
                    [] u = 49 -> [@ EXCEPT !.y = Field(s.bo, s.rs)]
                    [] u = 0 -> [@ EXCEPT !.buttons = Field(s.bo, s.rs * s.cc)]
                    [] OTHER -> @,
          !.bo = @ + s.rs]

\* One usage of an input: those of the collections take no room.
InputUsage(s, u) ==
  IF u \in {1, 2, 238} THEN s
  ELSE [s EXCEPT
          !.hid = CASE u = 48 -> [@ EXCEPT !.x = Field(s.bo, s.rs)]
                    [] u = 49 -> [@ EXCEPT !.y = Field(s.bo, s.rs)]
                    [] u = 0 -> [@ EXCEPT !.buttons = Field(s.bo, s.rs * s.cc)]
                    [] OTHER -> @,
          !.bo = @ + IF u \in {0, 6} \/ (s.cp = 7 /\ u \notin {48, 49})
                     THEN s.rs * s.cc ELSE s.rs]

Input(s, attr) ==
  IF s.uis = <<>> THEN InputPlain(s, attr)
  ELSE [FoldLeft(InputUsage, s, s.uis) EXCEPT !.uis = <<>>]

\* The LEDs' page ends with their output.
Output(s) == IF s.cp = 8 THEN [s EXCEPT !.uis = <<>>, !.cp = 7] ELSE s

Decode(s, item) ==
  CASE item.tag = "page" -> UsagePage(s, item.value)
    [] item.tag = "id" -> [s EXCEPT !.bo = @ + 8]
    [] item.tag = "usage" -> [s EXCEPT !.uis = Append(@, item.value)]
    [] item.tag = "size" -> [s EXCEPT !.rs = item.value]
    [] item.tag = "count" -> [s EXCEPT !.cc = item.value]
    [] item.tag = "end" -> [s EXCEPT !.cp = 0]
    [] item.tag = "output" -> Output(s)
    [] item.tag = "input" -> Input(s, item.value)
    [] OTHER -> s

decoderd(items) == FoldLeft(Decode, Start, items).hid

\* getd(): the bits it takes of a field, and those beyond it that are masked
\* out.  It reads whole bytes, (bsize+7+hasuu-1)/8 of them.
getd(f) ==
  LET first == f.off \div 8
      bytes == (f.size + 6 + (f.off % 8)) \div 8
  IN  (f.off..(f.off + f.size - 1)) \cap ((first * 8)..((first + bytes) * 8 - 1))

-------------------------------------------------------------------------------
(* The rule of the class: an input takes size*count bits, wherever its     *)
(* usages come from; a usage names one field of size bits.  Usages are     *)
(* used up by any main item (input, output, collection).                   *)

RuleStart == [page |-> 0, size |-> 0, count |-> 0, off |-> 0, usages |-> <<>>,
              fields |-> Fields, plain |-> TRUE]

RuleInput(s, attr) ==
  LET at(u) == (CHOOSE k \in DOMAIN s.usages : s.usages[k] = u) - 1
      axis(u, f) == IF ~Const(attr) /\ s.page = 1 /\ u \in ToSet(s.usages)
                    THEN Field(s.off + at(u) * s.size, s.size) ELSE f
      all(p, isarray, f) == IF ~Const(attr) /\ s.page = p /\ ((attr \div 2) % 2 = 0) = isarray
                            THEN Field(s.off, s.size * s.count) ELSE f
  IN  [s EXCEPT !.fields.x = axis(48, @), !.fields.y = axis(49, @),
                !.fields.buttons = all(9, FALSE, @),
                !.fields.keys = all(7, TRUE, @), !.fields.mods = all(7, FALSE, @),
                !.plain = @ /\ (s.page \in {7, 9} \/ Len(s.usages) \in {0, s.count}),
                !.off = @ + s.size * s.count, !.usages = <<>>]

RuleStep(s, item) ==
  CASE item.tag = "page" -> [s EXCEPT !.page = item.value]
    [] item.tag = "id" -> [s EXCEPT !.off = @ + 8, !.plain = @ /\ s.off = 0]
    [] item.tag = "usage" -> [s EXCEPT !.usages = Append(@, item.value)]
    [] item.tag = "size" -> [s EXCEPT !.size = item.value]
    [] item.tag = "count" -> [s EXCEPT !.count = item.value]
    [] item.tag \in {"output", "collection"} -> [s EXCEPT !.usages = <<>>]
    [] item.tag = "input" -> RuleInput(s, item.value)
    [] OTHER -> s

\* plain: the report's number, if any, is in front of it; and inputs have a
\* usage for each of their fields, or are keys or buttons, or filling.
Rule(items) == FoldLeft(RuleStep, RuleStart, items)

-------------------------------------------------------------------------------
(* Parts of descriptors, as devices have them *)

I(size, count, attr) ==
  <<Item("size", size), Item("count", count), Item("input", attr)>>
Page(p) == <<Item("page", p)>>
Usages(us) == [k \in DOMAIN us |-> Item("usage", us[k])]
Open(u) == Usages(<<u>>) \o <<Item("collection", 1)>>

ReportId == <<Item("id", 1)>>
Keyboard == Page(1) \o Open(6)
Mouse == Page(1) \o Open(2) \o Open(1)
Modifiers == Page(7) \o I(1, 8, 2)
Reserved == I(8, 1, 1)
Leds == <<Item("size", 1), Item("count", 5)>> \o Page(8) \o <<Item("output", 2)>>
KeyArray(n) == Page(7) \o I(8, n, 0)
Buttons(n) == Page(9) \o I(1, n, 2)
Filling(n) == I(n, 1, 3)
FillingBits(n) == I(1, n, 3)
Axes(us, size, attr) == Page(1) \o Usages(us) \o I(size, Len(us), attr)
Vendor == Page(65280) \o Usages(<<32>>) \o I(8, 2, 2)
===============================================================================
