----------------------------- MODULE TimersProofs -----------------------------
(***************************************************************************)
(* Proofs about Timers, for every number of sleepers and every range of     *)
(* count: that the list of timers stays a list although set() is called on  *)
(* mt while it is linked.                                                   *)
(***************************************************************************)
EXTENDS Timers, FiniteSetTheorems, TLAPS

-------------------------------------------------------------------------------
(* The inductive invariant                                                  *)

Arrays(n) == [1..n -> Timer]

\* The list, forwards: front, and the links up to a null pointer.
Forward(n, q) == /\ \A i, j \in 1..n : q[i] = q[j] => i = j
                 /\ front = IF n = 0 THEN NoTimer ELSE q[1]
                 /\ \A i \in 1..n : next[q[i]] = IF i = n THEN NoTimer ELSE q[i + 1]

Before(q, i) == IF i = 1 THEN NoTimer ELSE q[i - 1]

\* Backwards.  mt may have itself before it, since it was set while it was
\* linked, and nothing while it is being set.
Backward(n, q) ==
  \A i \in 1..n : \/ prev[q[i]] = Before(q, i)
                  \/ q[i] = Mt /\ prev[Mt] = IF pc = "seek" /\ self = Mt THEN NoTimer ELSE Mt

In(n, q, t) == \E i \in 1..n : q[i] = t

\* Sleepers in the list are waited for and have not expired.
Sleepers(n, q) == \A i \in 1..n : q[i] # Mt => q[i] \in waiting /\ ~fired[q[i]]

\* The walk has not passed mt, if it is due.
Ahead(n, q) == \E i \in 1..n : /\ q[i] = Mt
                               /\ count >= timeout[Mt] => \E k \in 1..i : cur = q[k]

Running(n, q) == /\ cur = NoTimer /\ self = NoTimer /\ ~mtc
                 /\ In(n, q, Mt) /\ slice < SwitchCyc

Walking(n, q) == /\ cur = NoTimer \/ In(n, q, cur)
                 /\ self = NoTimer
                 /\ mtc \/ Ahead(n, q)

Seeking(n, q) == /\ In(n, q, cur) /\ ~mtc
                 /\ self \in Timer /\ next[self] = NoTimer
                 /\ slice < SwitchCyc
                 /\ IF self = Mt THEN In(n, q, Mt) => q[n] = Mt
                    ELSE /\ ~In(n, q, self) /\ In(n, q, Mt)
                         /\ self \in waiting /\ ~fired[self]

Shape(n, q) == /\ Forward(n, q) /\ Backward(n, q) /\ Sleepers(n, q)
               /\ pc = "run" => Running(n, q)
               /\ pc = "walk" => Walking(n, q)
               /\ pc = "seek" => Seeking(n, q)

\* mt was set slice ticks ago.
SetAgo == timeout[Mt] = (count + (SwitchCyc - slice)) % Modulus

IInv == TypeOK /\ SetAgo /\ \E n \in Nat : \E q \in Arrays(n) : Shape(n, q)

-------------------------------------------------------------------------------
(* Numbers and types *)

LEMMA Numbers == /\ Modulus \in Nat /\ Modulus > 0
                 /\ SwitchCyc \in Nat /\ SwitchCyc > 0 /\ SwitchCyc < Modulus
  BY NumbersAssumption

LEMMA Mod == /\ \A x \in Int : x % Modulus \in 0..(Modulus - 1)
             /\ \A x \in 0..(2 * Modulus - 1) :
                  x % Modulus = IF x < Modulus THEN x ELSE x - Modulus
<1>1. \A x \in Int : x % Modulus \in 0..(Modulus - 1)
  BY Numbers, Z3
<1>2. \A x \in 0..(2 * Modulus - 1) :
         x % Modulus = IF x < Modulus THEN x ELSE x - Modulus
  BY Numbers, Z3
<1> QED
  BY <1>1, <1>2

LEMMA Pointers == Mt \in Timer /\ NoTimer \notin Timer /\ Timer \subseteq Pointer
                  /\ NoTimer \in Pointer /\ \A t \in Timer : t # Mt <=> t \in Others
  BY PointersAssumption DEF Timer, Pointer

LEMMA StartSetTypes ==
  ASSUME TypeOK, NEW t \in Timer, NEW d \in Nat, StartSet(t, d),
         UNCHANGED <<count, fired, mtc, switched>>, waiting' \in SUBSET Others
  PROVE  TypeOK'
<1>1. (count + d) % Modulus \in 0..(Modulus - 1)
  BY Mod, Numbers DEF TypeOK
<1>2. timeout' \in [Timer -> 0..(Modulus - 1)]
  BY <1>1 DEF StartSet, TypeOK
<1>3. /\ front' \in Pointer /\ cur' \in Pointer /\ self' \in Pointer
      /\ next' \in [Timer -> Pointer] /\ prev' \in [Timer -> Pointer]
      /\ pc' \in {"run", "walk", "seek"} /\ slice' \in 0..SwitchCyc
  BY Pointers, Numbers DEF StartSet, TypeOK
<1> QED
  BY <1>2, <1>3 DEF TypeOK

\* A timer that is set expires the number of ticks later.
LEMMA StartSetAgo ==
  ASSUME TypeOK, SetAgo, NEW t \in Timer, NEW d \in Nat, StartSet(t, d), count' = count,
         t = Mt => d = SwitchCyc
  PROVE  SetAgo'
<1>1. CASE t = Mt
  <2>1. timeout'[Mt] = (count + SwitchCyc) % Modulus /\ slice' = 0
    BY <1>1 DEF StartSet, TypeOK
  <2>2. count + (SwitchCyc - 0) = count + SwitchCyc
    BY Numbers DEF TypeOK
  <2> QED
    BY <2>1, <2>2 DEF SetAgo
<1>2. CASE t # Mt
  <2>1. timeout'[Mt] = timeout[Mt] /\ slice' = slice
    BY <1>2, Pointers DEF StartSet, TypeOK
  <2> QED
    BY <2>1 DEF SetAgo
<1> QED
  BY <1>1, <1>2

LEMMA TickAgo == ASSUME TypeOK, SetAgo, slice < SwitchCyc, Tick
                 PROVE  SetAgo'
<1>1. count \in 0..(Modulus - 1) /\ slice \in 0..SwitchCyc /\ timeout' = timeout
      /\ count' = (count + 1) % Modulus /\ slice' = slice + 1
  BY DEF TypeOK, Tick, links
<1>2. count' = IF count + 1 < Modulus THEN count + 1 ELSE count + 1 - Modulus
  BY <1>1, Mod, Numbers
<1>3. (count + (SwitchCyc - slice)) % Modulus
        = IF count + (SwitchCyc - slice) < Modulus THEN count + (SwitchCyc - slice)
          ELSE count + (SwitchCyc - slice) - Modulus
  BY <1>1, Mod, Numbers
<1>4. (count' + (SwitchCyc - slice')) % Modulus
        = IF count' + (SwitchCyc - slice') < Modulus THEN count' + (SwitchCyc - slice')
          ELSE count' + (SwitchCyc - slice') - Modulus
  BY <1>1, <1>2, Mod, Numbers
<1> QED
  BY <1>1, <1>2, <1>3, <1>4, Numbers DEF SetAgo

LEMMA DueNow == ASSUME TypeOK, SetAgo, slice = SwitchCyc
                PROVE  count >= timeout[Mt]
<1>1. count \in 0..(Modulus - 1)
  BY DEF TypeOK
<1>2. count + (SwitchCyc - slice) = count
  BY <1>1, Numbers
<1>3. count % Modulus = count
  BY <1>1, Mod, Numbers
<1> QED
  BY <1>1, <1>2, <1>3 DEF SetAgo

-------------------------------------------------------------------------------
(* set() *)

\* The links cleared: behind mt the list is cut off.
LEMMA StartSetShape ==
  ASSUME TypeOK, SetAgo,
         NEW n \in Nat, NEW q \in Arrays(n), Forward(n, q), Backward(n, q), Sleepers(n, q),
         pc # "seek", cur = NoTimer \/ pc = "run",
         NEW t \in Timer, NEW d \in Nat, StartSet(t, d), UNCHANGED count,
         \/ t = Mt /\ UNCHANGED <<fired, waiting>>
         \/ /\ t # Mt /\ In(n, q, Mt) /\ slice < SwitchCyc
            /\ waiting' = waiting \cup {t} /\ fired' = [fired EXCEPT ![t] = FALSE]
            /\ t \notin waiting,
         mtc' = FALSE, self = NoTimer
  PROVE  \E m \in Nat : \E r \in Arrays(m) : Shape(m, r)'
<1> USE Pointers
<1>0. /\ next \in [Timer -> Pointer] /\ prev \in [Timer -> Pointer]
      /\ fired \in [Timer -> BOOLEAN] /\ waiting \in SUBSET Others
      /\ \A i \in 1..n : q[i] \in Timer
      /\ \A i \in Int : 1 <= i /\ i <= n => i \in 1..n
  BY DEF TypeOK, Arrays
<1>1. next' = [next EXCEPT ![t] = NoTimer] /\ prev' = [prev EXCEPT ![t] = NoTimer]
      /\ slice' = IF t = Mt THEN 0 ELSE slice
  BY DEF StartSet
<1>2. slice' < SwitchCyc
  BY <1>1, Numbers DEF TypeOK
<1>3. t # Mt => ~In(n, q, t) /\ t \in waiting' /\ ~fired'[t]
  BY <1>0 DEF In, Sleepers
<1>4. \A i \in 1..n : q[i] # Mt => q[i] \in waiting' /\ ~fired'[q[i]]
  BY <1>0, <1>3 DEF In, Sleepers
<1>5. CASE front = NoTimer
  <2>1. n = 0
    BY <1>0, <1>5 DEF Forward
  <2>2. t = Mt /\ front' = t /\ pc' = "run" /\ cur' = NoTimer /\ self' = NoTimer
    BY <1>5, <2>1 DEF StartSet, In
  <2>3. PICK r \in Arrays(1) : r[1] = t
    <3>1. [i \in 1..1 |-> t] \in Arrays(1)
      BY DEF Arrays
    <3> QED
      BY <3>1
  <2>4. next'[t] = NoTimer /\ prev'[t] = NoTimer
    BY <1>0, <1>1
  <2>5. \A i \in 1..1 : i = 1
    OBVIOUS
  <2>6. Forward(1, r)'
    BY <2>2, <2>3, <2>4, <2>5 DEF Forward
  <2>7. Backward(1, r)'
    BY <2>3, <2>4, <2>5 DEF Backward, Before
  <2>8. Sleepers(1, r)'
    BY <2>2, <2>3, <2>5 DEF Sleepers
  <2>9. Running(1, r)'
    BY <1>2, <2>2, <2>3 DEF Running, In
  <2>a. Shape(1, r)'
    BY <2>2, <2>6, <2>7, <2>8, <2>9 DEF Shape
  <2> QED
    BY <2>a
<1>6. CASE front # NoTimer
  <2>1. n >= 1 /\ pc' = "seek" /\ cur' = front /\ self' = t /\ front' = front /\ front = q[1]
    BY <1>0, <1>6 DEF StartSet, Forward
  <2>2. CASE In(n, q, t)
    <3>1. t = Mt
      BY <1>3, <2>2
    <3>2. PICK m \in 1..n : q[m] = t
      BY <2>2 DEF In
    <3>3. PICK r \in Arrays(m) : \A i \in 1..m : r[i] = q[i]
      <4>1. [i \in 1..m |-> q[i]] \in Arrays(m)
        BY <1>0 DEF Arrays
      <4> QED
        BY <4>1
    <3>4. m \in Nat /\ m >= 1 /\ \A i \in 1..m : i \in 1..n /\ (i # m => i + 1 \in 1..m /\ q[i] # t)
      BY <3>2 DEF Forward
    <3>5. Forward(m, r)'
      <4>1. \A i, j \in 1..m : r[i] = r[j] => i = j
        BY <3>3, <3>4 DEF Forward
      <4>2. front' = r[1]
        BY <2>1, <3>3, <3>4
      <4>3. \A i \in 1..m : next'[r[i]] = IF i = m THEN NoTimer ELSE r[i + 1]
        <5> SUFFICES ASSUME NEW i \in 1..m PROVE next'[r[i]] = IF i = m THEN NoTimer ELSE r[i + 1]
          OBVIOUS
        <5>1. CASE i = m
          BY <1>0, <1>1, <3>2, <3>3, <5>1
        <5>2. CASE i # m
          <6>1. i \in 1..n /\ i # n /\ i + 1 \in 1..m /\ q[i] # t /\ q[i] \in Timer
            BY <1>0, <3>4, <5>2
          <6>2. next[q[i]] = q[i + 1]
            BY <6>1 DEF Forward
          <6> QED
            BY <1>0, <1>1, <3>3, <5>2, <6>1, <6>2
        <5> QED
          BY <5>1, <5>2
      <4> QED
        BY <3>4, <4>1, <4>2, <4>3 DEF Forward
    <3>6. Backward(m, r)'
      <4> SUFFICES ASSUME NEW i \in 1..m
                   PROVE  \/ prev'[r[i]] = Before(r, i)
                          \/ r[i] = Mt /\ prev'[Mt] = IF pc' = "seek" /\ self' = Mt THEN NoTimer ELSE Mt
        BY DEF Backward, Before
      <4>1. CASE i = m
        BY <1>0, <1>1, <2>1, <3>1, <3>2, <3>3, <4>1
      <4>2. CASE i # m
        <5>1. i \in 1..n /\ q[i] # Mt /\ q[i] \in Timer
          BY <1>0, <3>1, <3>4, <4>2
        <5>2. prev[q[i]] = Before(q, i)
          BY <5>1 DEF Backward
        <5>3. Before(r, i) = Before(q, i)
          <6>1. i = 1 \/ i - 1 \in 1..m
            OBVIOUS
          <6> QED
            BY <3>3, <6>1 DEF Before
        <5> QED
          BY <1>0, <1>1, <3>1, <3>3, <5>1, <5>2, <5>3
      <4> QED
        BY <4>1, <4>2
    <3>7. Sleepers(m, r)'
      BY <1>4, <3>3, <3>4 DEF Sleepers
    <3>8. Seeking(m, r)'
      <4>1. cur' = r[1] /\ 1 \in 1..m /\ r[m] = Mt /\ next'[Mt] = NoTimer
        BY <1>0, <1>1, <2>1, <3>1, <3>2, <3>3, <3>4
      <4> QED
        BY <1>2, <2>1, <3>1, <4>1 DEF Seeking, In
    <3>9. Shape(m, r)'
      BY <2>1, <3>5, <3>6, <3>7, <3>8 DEF Shape
    <3> QED
      BY <3>4, <3>9
  <2>3. CASE ~In(n, q, t)
    <3>1. \A i \in 1..n : q[i] # t /\ q[i] \in Timer
      BY <1>0, <2>3 DEF In
    <3>2. \A i \in 1..n : next'[q[i]] = next[q[i]] /\ prev'[q[i]] = prev[q[i]]
      BY <1>0, <1>1, <3>1
    <3>3. Forward(n, q)'
      BY <2>1, <3>2 DEF Forward
    <3>4. Backward(n, q)'
      <4> SUFFICES ASSUME NEW i \in 1..n
                   PROVE  \/ prev'[q[i]] = Before(q, i)
                          \/ q[i] = Mt /\ prev'[Mt] = IF pc' = "seek" /\ self' = Mt THEN NoTimer ELSE Mt
        BY DEF Backward, Before
      <4>1. prev[q[i]] = Before(q, i) \/ (q[i] = Mt /\ prev[Mt] = Mt)
        BY DEF Backward
      <4>2. q[i] = Mt => t # Mt
        BY <3>1
      <4> QED
        BY <2>1, <3>2, <4>1, <4>2
    <3>5. Sleepers(n, q)'
      BY <1>4 DEF Sleepers
    <3>6. Seeking(n, q)'
      <4>1. cur' = q[1] /\ 1 \in 1..n /\ next'[t] = NoTimer
        BY <1>0, <1>1, <2>1
      <4>2. t # Mt => In(n, q, Mt)
        OBVIOUS
      <4> QED
        BY <1>2, <1>3, <2>1, <2>3, <4>1, <4>2 DEF Seeking, In
    <3>7. Shape(n, q)'
      BY <2>1, <3>3, <3>4, <3>5, <3>6 DEF Shape
    <3> QED
      BY <3>7
  <2> QED
    BY <2>2, <2>3
<1> QED
  BY <1>5, <1>6

Listing == \E n \in Nat : \E q \in Arrays(n) : Shape(n, q)

\* The place of the loop's pointer
LEMMA Place == ASSUME TypeOK, NEW n \in Nat, NEW q \in Arrays(n), Forward(n, q), In(n, q, cur)
               PROVE  \E k \in 1..n : /\ q[k] = cur /\ cur \in Timer
                                      /\ next[cur] = IF k = n THEN NoTimer ELSE q[k + 1]
                                      /\ next[cur] # NoTimer => k + 1 \in 1..n
                                      /\ next[cur] = NoTimer <=> k = n
<1>1. PICK k \in 1..n : q[k] = cur
  BY DEF In
<1>2. cur \in Timer /\ next[cur] = IF k = n THEN NoTimer ELSE q[k + 1]
  BY <1>1 DEF Forward, Arrays
<1>3. k # n => k + 1 \in 1..n
  OBVIOUS
<1>4. k # n => q[k + 1] \in Timer
  BY <1>3 DEF Arrays
<1> QED
  BY <1>1, <1>2, <1>3, <1>4, Pointers

LEMMA SeekNextShape == ASSUME IInv, SeekNext
                       PROVE  Listing'
<1>1. PICK n \in Nat : \E q \in Arrays(n) : Shape(n, q)
  BY DEF IInv
<1>2. PICK q \in Arrays(n) : Shape(n, q)
  BY <1>1
<1>3. pc = "seek" /\ cur' = next[cur] /\ next[cur] # NoTimer
      /\ UNCHANGED <<count, front, next, prev, timeout, fired, waiting, pc, self, mtc, slice>>
  BY DEF SeekNext, links
<1>4. PICK k \in 1..n : next[cur] = q[k + 1] /\ k + 1 \in 1..n
  BY <1>2, <1>3, Place DEF IInv, Shape, Seeking
<1>5. Seeking(n, q)'
  BY <1>2, <1>3, <1>4 DEF Shape, Seeking, In
<1>6. Forward(n, q)' /\ Backward(n, q)' /\ Sleepers(n, q)'
  BY <1>2, <1>3 DEF Shape, Forward, Backward, Before, Sleepers
<1>7. Shape(n, q)'
  BY <1>3, <1>5, <1>6 DEF Shape
<1> QED
  BY <1>7 DEF Listing

LEMMA SeekEndShape == ASSUME IInv, SeekEnd
                      PROVE  Listing'
<1> USE Pointers
<1>1. PICK n \in Nat : \E q \in Arrays(n) : Shape(n, q)
  BY DEF IInv
<1>2. PICK q \in Arrays(n) : Shape(n, q)
  BY <1>1
<1>3. pc = "seek" /\ next[cur] = NoTimer /\ pc' = "run" /\ cur' = NoTimer /\ self' = NoTimer
      /\ next' = [next EXCEPT ![cur] = self, ![self] = NoTimer]
      /\ prev' = [prev EXCEPT ![self] = cur]
      /\ UNCHANGED <<count, front, timeout, fired, waiting, mtc, slice>>
  BY DEF SeekEnd
<1>4. Forward(n, q) /\ Backward(n, q) /\ Sleepers(n, q) /\ Seeking(n, q)
  BY <1>2, <1>3 DEF Shape
<1>5. q[n] = cur /\ n \in 1..n /\ cur \in Timer /\ self \in Timer
  BY <1>3, <1>4, Place DEF IInv, Seeking
<1>6. /\ next \in [Timer -> Pointer] /\ prev \in [Timer -> Pointer]
      /\ \A i \in 1..n : q[i] \in Timer
  BY DEF IInv, TypeOK, Arrays
<1>7. CASE In(n, q, self)
  <2>1. self = Mt /\ cur = Mt
    BY <1>4, <1>5, <1>7 DEF Seeking
  <2>2. next' = next /\ prev' = [prev EXCEPT ![Mt] = Mt]
    BY <1>3, <1>5, <1>6, <2>1
  <2>3. Forward(n, q)' /\ Sleepers(n, q)'
    BY <1>3, <1>4, <2>2 DEF Forward, Sleepers
  <2>4. Backward(n, q)'
    <3> SUFFICES ASSUME NEW i \in 1..n
                 PROVE  prev'[q[i]] = Before(q, i) \/ (q[i] = Mt /\ prev'[Mt] = Mt)
      BY <1>3 DEF Backward, Before
    <3>1. prev[q[i]] = Before(q, i) \/ q[i] = Mt
      BY <1>4 DEF Backward
    <3> QED
      BY <1>6, <2>2, <3>1
  <2>5. Running(n, q)'
    BY <1>3, <1>4, <1>7, <2>1 DEF Running, Seeking, In
  <2>6. Shape(n, q)'
    BY <1>3, <2>3, <2>4, <2>5 DEF Shape
  <2> QED
    BY <2>6 DEF Listing
<1>8. CASE ~In(n, q, self)
  <2>1. \A i \in 1..n : q[i] # self
    BY <1>8 DEF In
  <2>2. PICK r \in Arrays(n + 1) : \A i \in 1..(n + 1) : r[i] = IF i = n + 1 THEN self ELSE q[i]
    <3>1. [i \in 1..(n + 1) |-> IF i = n + 1 THEN self ELSE q[i]] \in Arrays(n + 1)
      BY <1>5, <1>6 DEF Arrays
    <3> QED
      BY <3>1
  <2>3. /\ \A i \in 1..n : i \in 1..(n + 1) /\ r[i] = q[i]
        /\ n + 1 \in 1..(n + 1) /\ r[n + 1] = self
        /\ \A i \in 1..(n + 1) : i # n + 1 => i \in 1..n
    BY <2>2
  <2>4. /\ next'[self] = NoTimer /\ next'[cur] = self
        /\ \A i \in 1..n : i # n => next'[q[i]] = next[q[i]]
    <3>1. cur # self
      BY <1>5, <2>1
    <3>2. \A i \in 1..n : i # n => q[i] # cur
      BY <1>4, <1>5 DEF Forward
    <3> QED
      BY <1>3, <1>5, <1>6, <2>1, <3>1, <3>2
  <2>5. prev'[self] = cur /\ \A i \in 1..n : prev'[q[i]] = prev[q[i]]
    BY <1>3, <1>5, <1>6, <2>1
  <2>6. Forward(n + 1, r)'
    <3>1. \A i, j \in 1..(n + 1) : r[i] = r[j] => i = j
      BY <1>4, <2>1, <2>3 DEF Forward
    <3>2. front' = r[1]
      BY <1>3, <1>4, <1>5, <2>3 DEF Forward
    <3>3. ASSUME NEW i \in 1..(n + 1)
          PROVE  next'[r[i]] = IF i = n + 1 THEN NoTimer ELSE r[i + 1]
      <4>1. CASE i = n + 1
        BY <2>3, <2>4, <4>1
      <4>2. CASE i = n
        BY <1>5, <2>3, <2>4, <4>2
      <4>3. CASE i # n /\ i # n + 1
        <5>1. i \in 1..n /\ i + 1 \in 1..n
          BY <4>3
        <5>2. next[q[i]] = q[i + 1]
          BY <1>4, <4>3, <5>1 DEF Forward
        <5> QED
          BY <2>3, <2>4, <4>3, <5>1, <5>2
      <4> QED
        BY <4>1, <4>2, <4>3
    <3> QED
      BY <3>1, <3>2, <3>3 DEF Forward
  <2>7. Backward(n + 1, r)'
    <3> SUFFICES ASSUME NEW i \in 1..(n + 1)
                 PROVE  prev'[r[i]] = Before(r, i) \/ (r[i] = Mt /\ prev'[Mt] = Mt)
      BY <1>3 DEF Backward, Before
    <3>1. CASE i = n + 1
      BY <1>5, <2>3, <2>5, <3>1 DEF Before
    <3>2. CASE i # n + 1
      <4>1. i \in 1..n /\ (i = 1 \/ i - 1 \in 1..n)
        BY <3>2
      <4>2. Before(r, i) = Before(q, i)
        BY <2>3, <4>1 DEF Before
      <4>3. prev[q[i]] = Before(q, i) \/ (q[i] = Mt /\ prev[Mt] = IF self = Mt THEN NoTimer ELSE Mt)
        BY <1>3, <1>4, <4>1 DEF Backward
      <4>4. q[i] = Mt => self # Mt
        BY <2>1, <4>1
      <4> QED
        BY <2>3, <2>5, <4>1, <4>2, <4>3, <4>4
    <3> QED
      BY <3>1, <3>2
  <2>8. Sleepers(n + 1, r)'
    <3>1. self # Mt => self \in waiting /\ ~fired[self]
      BY <1>4 DEF Seeking
    <3> QED
      BY <1>3, <1>4, <2>3, <3>1 DEF Sleepers
  <2>9. Running(n + 1, r)'
    <3>1. self = Mt \/ In(n, q, Mt)
      BY <1>4 DEF Seeking
    <3>2. \E i \in 1..(n + 1) : r[i] = Mt
      BY <2>3, <3>1 DEF In
    <3> QED
      BY <1>3, <1>4, <3>2 DEF Running, Seeking, In
  <2>a. Shape(n + 1, r)'
    BY <1>3, <2>6, <2>7, <2>8, <2>9 DEF Shape
  <2> QED
    BY <2>a DEF Listing
<1> QED
  BY <1>7, <1>8

-------------------------------------------------------------------------------
(* The handler *)

LEMMA TickShape == ASSUME IInv, Tick
                   PROVE  Listing'
<1>1. PICK n \in Nat : \E q \in Arrays(n) : Shape(n, q)
  BY DEF IInv
<1>2. PICK q \in Arrays(n) : Shape(n, q)
  BY <1>1
<1>3. pc = "run" /\ pc' = "walk" /\ cur' = front
      /\ UNCHANGED <<front, next, prev, timeout, fired, waiting, self, mtc>>
  BY DEF Tick, links
<1>4. Forward(n, q) /\ Backward(n, q) /\ Sleepers(n, q) /\ Running(n, q)
  BY <1>2, <1>3 DEF Shape
<1>5. Forward(n, q)' /\ Backward(n, q)' /\ Sleepers(n, q)'
  BY <1>3, <1>4 DEF Forward, Backward, Before, Sleepers
<1>6. PICK m \in 1..n : q[m] = Mt
  BY <1>4 DEF Running, In
<1>7. cur' = q[1] /\ 1 \in 1..m /\ 1 \in 1..n
  BY <1>3, <1>4, <1>6 DEF Forward
<1>8. Walking(n, q)'
  BY <1>3, <1>4, <1>6, <1>7 DEF Walking, Running, Ahead, In
<1>9. Shape(n, q)'
  BY <1>3, <1>5, <1>8 DEF Shape
<1> QED
  BY <1>9 DEF Listing

LEMMA PendingShape == ASSUME IInv, Pending
                      PROVE  Listing'
<1>1. PICK n \in Nat : \E q \in Arrays(n) : Shape(n, q)
  BY DEF IInv
<1>2. PICK q \in Arrays(n) : Shape(n, q)
  BY <1>1
<1>3. pc = "walk" /\ cur # NoTimer /\ count < timeout[cur] /\ cur' = next[cur]
      /\ UNCHANGED <<count, front, next, prev, timeout, fired, waiting, pc, self, mtc, slice>>
  BY DEF Pending, links
<1>4. Forward(n, q) /\ Backward(n, q) /\ Sleepers(n, q) /\ Walking(n, q)
  BY <1>2, <1>3 DEF Shape
<1>5. Forward(n, q)' /\ Backward(n, q)' /\ Sleepers(n, q)'
  BY <1>3, <1>4 DEF Forward, Backward, Before, Sleepers
<1>6. PICK k \in 1..n : /\ q[k] = cur /\ next[cur] = IF k = n THEN NoTimer ELSE q[k + 1]
                        /\ k # n => k + 1 \in 1..n
  BY <1>3, <1>4, Place DEF IInv, Walking
<1>7. mtc \/ Ahead(n, q)'
  <2>1. CASE mtc
    BY <2>1
  <2>2. CASE ~mtc
    <3>1. PICK m \in 1..n : q[m] = Mt /\ (count >= timeout[Mt] => \E j \in 1..m : cur = q[j])
      BY <1>4, <2>2 DEF Walking, Ahead
    <3>2. ASSUME count >= timeout[Mt] PROVE cur' = q[k + 1] /\ k + 1 \in 1..m
      <4>1. PICK j \in 1..m : cur = q[j]
        BY <3>1, <3>2
      <4>2. j \in 1..n /\ j = k
        BY <1>4, <1>6, <4>1 DEF Forward
      <4>3. cur # Mt
        <5>1. count \in Int /\ timeout[Mt] \in Int
          BY Pointers DEF IInv, TypeOK
        <5> QED
          BY <1>3, <3>2, <5>1
      <4>4. k # m
        BY <1>6, <3>1, <4>3
      <4> QED
        BY <1>3, <1>6, <4>2, <4>4
    <3> QED
      BY <1>3, <3>1, <3>2 DEF Ahead
  <2> QED
    BY <2>1, <2>2
<1>8. Walking(n, q)'
  BY <1>3, <1>4, <1>6, <1>7 DEF Walking, In
<1>9. Shape(n, q)'
  BY <1>3, <1>5, <1>8 DEF Shape
<1> QED
  BY <1>9 DEF Listing

\* An expired timer is taken out of the list, but mt when it has itself before it.
LEMMA ExpiredShape == ASSUME IInv, Expired
                      PROVE  Listing'
<1> USE Pointers
<1>1. PICK n \in Nat : \E q \in Arrays(n) : Shape(n, q)
  BY DEF IInv
<1>2. PICK q \in Arrays(n) : Shape(n, q)
  BY <1>1
<1>3. pc = "walk" /\ cur # NoTimer /\ cur' = next'[cur]
      /\ fired' = [fired EXCEPT ![cur] = TRUE] /\ mtc' = (mtc \/ cur = Mt)
      /\ UNCHANGED <<count, timeout, waiting, pc, self, slice>>
  BY DEF Expired
<1>4. Forward(n, q) /\ Backward(n, q) /\ Sleepers(n, q) /\ Walking(n, q)
  BY <1>2, <1>3 DEF Shape
<1>5. PICK k \in 1..n : /\ q[k] = cur /\ cur \in Timer
                        /\ next[cur] = IF k = n THEN NoTimer ELSE q[k + 1]
                        /\ k # n => k + 1 \in 1..n
  BY <1>3, <1>4, Place DEF IInv, Walking
<1>6. /\ next \in [Timer -> Pointer] /\ prev \in [Timer -> Pointer] /\ fired \in [Timer -> BOOLEAN]
      /\ \A i \in 1..n : q[i] \in Timer /\ (q[i] = cur => i = k)
  BY <1>4, <1>5 DEF IInv, TypeOK, Arrays, Forward
<1>7. /\ IF prev[cur] # NoTimer
         THEN next' = [next EXCEPT ![prev[cur]] = next[cur]] /\ front' = front
         ELSE front' = next[cur] /\ next' = next
      /\ prev' = IF next[cur] # NoTimer THEN [prev EXCEPT ![next[cur]] = prev[cur]] ELSE prev
  BY DEF Expired
<1>8. ASSUME NEW i \in 1..n, i # k, q[i] # Mt PROVE q[i] \in waiting /\ ~fired'[q[i]]
  BY <1>3, <1>4, <1>5, <1>6, <1>8 DEF Sleepers
<1>9. CASE prev[cur] = Before(q, k)
  <2>1. PICK r \in Arrays(n - 1) : \A i \in 1..(n - 1) : r[i] = IF i < k THEN q[i] ELSE q[i + 1]
    <3>1. \A i \in 1..(n - 1) : i \in 1..n /\ i + 1 \in 1..n
      OBVIOUS
    <3>2. [i \in 1..(n - 1) |-> IF i < k THEN q[i] ELSE q[i + 1]] \in Arrays(n - 1)
      BY <1>6, <3>1 DEF Arrays
    <3> QED
      BY <3>2
  <2>2. n - 1 \in Nat
    BY <1>5
  <2>3. /\ \A i \in 1..(n - 1) : i < k => i \in 1..n /\ i # k /\ r[i] = q[i]
        /\ \A i \in 1..(n - 1) : i >= k => i + 1 \in 1..n /\ i + 1 # k /\ r[i] = q[i + 1]
    BY <2>1
  <2>4. k # 1 => k - 1 \in 1..n /\ k - 1 # k /\ prev[cur] = q[k - 1] /\ q[k - 1] # cur
    BY <1>6, <1>9 DEF Before
  <2>5. k = 1 => prev[cur] = NoTimer
    BY <1>9 DEF Before
  <2>6. ASSUME NEW i \in 1..n, i # k
        PROVE  next'[q[i]] = IF i = k - 1 THEN next[cur] ELSE next[q[i]]
    <3>1. CASE k = 1
      BY <1>7, <2>5, <2>6, <3>1
    <3>2. CASE k # 1
      <4>1. next' = [next EXCEPT ![q[k - 1]] = next[cur]]
        BY <1>6, <1>7, <2>4, <3>2
      <4>2. q[i] = q[k - 1] <=> i = k - 1
        BY <1>4, <2>4, <3>2 DEF Forward
      <4> QED
        BY <1>6, <4>1, <4>2
    <3> QED
      BY <3>1, <3>2
  <2>7. next'[cur] = next[cur]
    <3>1. prev[cur] # cur
      BY <1>5, <2>4, <2>5
    <3> QED
      BY <1>5, <1>6, <1>7, <3>1
  <2>8. cur' = IF k = n THEN NoTimer ELSE q[k + 1]
    BY <1>3, <1>5, <2>7
  <2>9. ASSUME NEW i \in 1..n, i # k
        PROVE  prev'[q[i]] = IF i = k + 1 THEN prev[cur] ELSE prev[q[i]]
    <3>1. CASE k = n
      BY <1>5, <1>7, <2>9, <3>1
    <3>2. CASE k # n
      <4>1. prev' = [prev EXCEPT ![q[k + 1]] = prev[cur]]
        BY <1>5, <1>6, <1>7, <3>2
      <4>2. q[i] = q[k + 1] <=> i = k + 1
        BY <1>4, <1>5, <3>2 DEF Forward
      <4> QED
        BY <1>6, <4>1, <4>2
    <3> QED
      BY <3>1, <3>2
  <2>a. Forward(n - 1, r)'
    <3>1. ASSUME NEW i \in 1..(n - 1), NEW j \in 1..(n - 1), r[i] = r[j] PROVE i = j
      <4>1. /\ i < k => r[i] = q[i] /\ i \in 1..n
            /\ i >= k => r[i] = q[i + 1] /\ i + 1 \in 1..n
            /\ j < k => r[j] = q[j] /\ j \in 1..n
            /\ j >= k => r[j] = q[j + 1] /\ j + 1 \in 1..n
        BY <2>3
      <4>2. \A a, b \in 1..n : q[a] = q[b] => a = b
        BY <1>4 DEF Forward
      <4>3. CASE i < k /\ j < k
        BY <3>1, <4>1, <4>2, <4>3
      <4>4. CASE i < k /\ j >= k
        <5>1. i = j + 1
          BY <3>1, <4>1, <4>2, <4>4
        <5> QED
          BY <4>4, <5>1
      <4>5. CASE i >= k /\ j < k
        <5>1. i + 1 = j
          BY <3>1, <4>1, <4>2, <4>5
        <5> QED
          BY <4>5, <5>1
      <4>6. CASE i >= k /\ j >= k
        <5>1. i + 1 = j + 1
          BY <3>1, <4>1, <4>2, <4>6
        <5> QED
          BY <5>1
      <4> QED
        BY <4>3, <4>4, <4>5, <4>6
    <3>2. front' = IF n - 1 = 0 THEN NoTimer ELSE r[1]
      <4>1. CASE k = 1
        <5>1. front' = next[cur]
          BY <1>7, <2>5, <4>1
        <5>2. n # 1 => 1 \in 1..(n - 1) /\ r[1] = q[2]
          BY <1>5, <2>3, <4>1
        <5> QED
          BY <1>5, <4>1, <5>1, <5>2
      <4>2. CASE k # 1
        <5>1. front' = q[1]
          BY <1>4, <1>5, <1>6, <1>7, <2>4, <4>2 DEF Forward
        <5>2. 1 \in 1..(n - 1) /\ r[1] = q[1]
          BY <1>5, <2>3, <4>2
        <5> QED
          BY <5>1, <5>2
      <4> QED
        BY <4>1, <4>2
    <3>3. ASSUME NEW i \in 1..(n - 1)
          PROVE  next'[r[i]] = IF i = n - 1 THEN NoTimer ELSE r[i + 1]
      <4>1. CASE i < k - 1
        <5>1. i \in 1..n /\ i # k /\ i # k - 1 /\ i # n /\ i + 1 \in 1..(n - 1) /\ i + 1 < k
          BY <4>1
        <5>2. r[i] = q[i] /\ r[i + 1] = q[i + 1]
          BY <2>3, <4>1, <5>1
        <5>3. next[q[i]] = q[i + 1]
          BY <1>4, <5>1 DEF Forward
        <5> QED
          BY <2>6, <5>1, <5>2, <5>3
      <4>2. CASE i = k - 1
        <5>1. i \in 1..n /\ i # k /\ r[i] = q[i]
          BY <2>3, <4>2
        <5>2. next'[r[i]] = next[cur]
          BY <2>6, <4>2, <5>1
        <5>3. k # n => i + 1 \in 1..(n - 1) /\ r[i + 1] = q[k + 1]
          BY <2>3, <4>2
        <5> QED
          BY <1>5, <4>2, <5>2, <5>3
      <4>3. CASE i >= k
        <5>1. i + 1 \in 1..n /\ i + 1 # k /\ i + 1 # k - 1 /\ r[i] = q[i + 1]
          BY <2>3, <4>3
        <5>2. next[q[i + 1]] = IF i + 1 = n THEN NoTimer ELSE q[i + 2]
          <6>1. next[q[i + 1]] = IF i + 1 = n THEN NoTimer ELSE q[(i + 1) + 1]
            BY <1>4, <5>1 DEF Forward
          <6> QED
            BY <6>1
        <5>3. next'[r[i]] = next[q[i + 1]]
          BY <2>6, <5>1
        <5>4. i # n - 1 => i + 1 \in 1..(n - 1) /\ r[i + 1] = q[i + 2]
          <6>1. i # n - 1 => i + 1 \in 1..(n - 1) /\ r[i + 1] = q[(i + 1) + 1]
            BY <2>3, <4>3
          <6> QED
            BY <6>1
        <5> QED
          BY <5>2, <5>3, <5>4
      <4> QED
        BY <4>1, <4>2, <4>3
    <3> QED
      BY <3>1, <3>2, <3>3 DEF Forward
  <2>b. Backward(n - 1, r)'
    <3> SUFFICES ASSUME NEW i \in 1..(n - 1)
                 PROVE  prev'[r[i]] = Before(r, i) \/ (r[i] = Mt /\ prev'[Mt] = Mt)
      BY <1>3 DEF Backward, Before
    <3>0. \A j \in 1..n : prev[q[j]] = Before(q, j) \/ (q[j] = Mt /\ prev[Mt] = Mt)
      BY <1>3, <1>4 DEF Backward
    <3>1. CASE i < k
      <4>1. i \in 1..n /\ i # k /\ i # k + 1 /\ r[i] = q[i]
        BY <2>3, <3>1
      <4>2. i # 1 => i - 1 \in 1..(n - 1) /\ r[i - 1] = q[i - 1]
        BY <2>3, <3>1
      <4>3. Before(r, i) = Before(q, i)
        BY <4>2 DEF Before
      <4>4. prev'[q[i]] = prev[q[i]]
        BY <2>9, <4>1
      <4> QED
        BY <3>0, <4>1, <4>3, <4>4
    <3>2. CASE i = k
      <4>1. i + 1 \in 1..n /\ i + 1 # k /\ r[i] = q[i + 1]
        BY <2>3, <3>2
      <4>2. prev'[q[i + 1]] = prev[cur]
        BY <2>9, <3>2, <4>1
      <4>3. i # 1 => i - 1 \in 1..(n - 1) /\ r[i - 1] = q[i - 1]
        BY <2>3, <3>2
      <4>4. Before(r, i) = Before(q, k)
        BY <3>2, <4>3 DEF Before
      <4> QED
        BY <1>9, <4>1, <4>2, <4>4
    <3>3. CASE i > k
      <4>1. i + 1 \in 1..n /\ i + 1 # k /\ i + 1 # k + 1 /\ r[i] = q[i + 1]
        BY <2>3, <3>3
      <4>2. prev'[q[i + 1]] = prev[q[i + 1]]
        BY <2>9, <4>1
      <4>3. i - 1 \in 1..(n - 1) /\ i - 1 >= k
        BY <3>3
      <4>4. r[i - 1] = q[i]
        <5>1. r[i - 1] = q[(i - 1) + 1]
          BY <2>3, <4>3
        <5> QED
          BY <5>1
      <4>5. Before(r, i) = q[i] /\ Before(q, i + 1) = q[i]
        BY <3>3, <4>4 DEF Before
      <4> QED
        BY <3>0, <4>1, <4>2, <4>5
    <3> QED
      BY <3>1, <3>2, <3>3
  <2>c. Sleepers(n - 1, r)'
    <3> SUFFICES ASSUME NEW i \in 1..(n - 1), r[i] # Mt
                 PROVE  r[i] \in waiting /\ ~fired'[r[i]]
      BY <1>3 DEF Sleepers
    <3> QED
      BY <1>8, <2>3
  <2>d. mtc' \/ Ahead(n - 1, r)'
    <3> SUFFICES ASSUME ~mtc, cur # Mt
                 PROVE  Ahead(n - 1, r)'
      BY <1>3
    <3>1. PICK m \in 1..n : q[m] = Mt /\ (count >= timeout[Mt] => \E j \in 1..m : cur = q[j])
      BY <1>4 DEF Walking, Ahead
    <3>2. m # k
      BY <1>5, <3>1
    <3>3. PICK p \in 1..(n - 1) : r[p] = Mt /\ (m < k => p = m) /\ (m > k => p = m - 1)
      <4>1. CASE m < k
        BY <2>3, <3>1, <4>1
      <4>2. CASE m > k
        <5>1. m - 1 \in 1..(n - 1) /\ m - 1 >= k
          BY <4>2
        <5>2. r[m - 1] = q[(m - 1) + 1]
          BY <2>3, <5>1
        <5> QED
          BY <3>1, <4>2, <5>1, <5>2
      <4> QED
        BY <3>2, <4>1, <4>2
    <3>4. ASSUME count >= timeout[Mt] PROVE \E j \in 1..p : cur' = r[j]
      <4>1. PICK j \in 1..m : cur = q[j]
        BY <3>1, <3>4
      <4>2. j = k
        BY <1>6, <4>1
      <4>3. m > k /\ p = m - 1 /\ k # n /\ k \in 1..p
        BY <3>2, <3>3, <4>2
      <4>4. r[k] = q[k + 1]
        BY <2>3, <4>3
      <4> QED
        BY <2>8, <4>3, <4>4
    <3> QED
      BY <1>3, <3>3, <3>4 DEF Ahead
  <2>e. Walking(n - 1, r)'
    <3>1. cur' = NoTimer \/ In(n - 1, r, cur')
      <4>1. CASE k # n
        <5>1. k \in 1..(n - 1) /\ r[k] = q[k + 1]
          BY <2>3, <4>1
        <5> QED
          BY <2>8, <4>1, <5>1 DEF In
      <4> QED
        BY <2>8, <4>1
    <3> QED
      BY <1>3, <1>4, <2>d, <3>1 DEF Walking, In
  <2>f. Shape(n - 1, r)'
    BY <1>3, <2>a, <2>b, <2>c, <2>e DEF Shape
  <2> QED
    BY <2>2, <2>f DEF Listing
<1>a. CASE prev[cur] # Before(q, k)
  <2>1. cur = Mt /\ prev[Mt] = Mt
    BY <1>3, <1>4, <1>5, <1>a DEF Backward
  <2>2. next' = next /\ front' = front /\ mtc'
    <3>1. next' = [next EXCEPT ![Mt] = next[Mt]] /\ front' = front
      BY <1>7, <2>1
    <3>2. next' = next
      BY <1>6, <3>1
    <3>3. mtc'
      BY <1>3, <2>1
    <3> QED
      BY <3>1, <3>2, <3>3
  <2>3. \A i \in 1..n : prev'[q[i]] = prev[q[i]] \/ (i = k + 1 /\ prev'[q[i]] = Before(q, i))
    <3>1. CASE k = n
      BY <1>5, <1>7, <3>1
    <3>2. CASE k # n
      <4>1. prev' = [prev EXCEPT ![q[k + 1]] = Mt]
        BY <1>5, <1>6, <1>7, <2>1, <3>2
      <4>2. \A i \in 1..n : q[i] = q[k + 1] => i = k + 1
        BY <1>4, <1>5, <3>2 DEF Forward
      <4>3. Before(q, k + 1) = Mt
        BY <1>5, <2>1 DEF Before
      <4> QED
        BY <1>6, <4>1, <4>2, <4>3
    <3> QED
      BY <3>1, <3>2
  <2>4. prev'[Mt] = Mt
    <3>1. k = n \/ q[k + 1] # Mt
      BY <1>5, <1>6, <2>1
    <3> QED
      BY <1>5, <1>6, <1>7, <2>1, <3>1
  <2>5. Forward(n, q)'
    BY <1>4, <2>2 DEF Forward
  <2>6. Backward(n, q)'
    <3> SUFFICES ASSUME NEW i \in 1..n
                 PROVE  prev'[q[i]] = Before(q, i) \/ (q[i] = Mt /\ prev'[Mt] = Mt)
      BY <1>3 DEF Backward, Before
    <3>1. prev[q[i]] = Before(q, i) \/ q[i] = Mt
      BY <1>4 DEF Backward
    <3> QED
      BY <2>3, <2>4, <3>1
  <2>7. Sleepers(n, q)'
    <3> SUFFICES ASSUME NEW i \in 1..n, q[i] # Mt
                 PROVE  q[i] \in waiting /\ ~fired'[q[i]]
      BY <1>3 DEF Sleepers
    <3> QED
      BY <1>5, <1>8, <2>1
  <2>8. Walking(n, q)'
    <3>1. cur' = IF k = n THEN NoTimer ELSE q[k + 1]
      BY <1>3, <1>5, <2>2
    <3> QED
      BY <1>3, <1>4, <1>5, <2>2, <3>1 DEF Walking, In
  <2>9. Shape(n, q)'
    BY <1>3, <2>5, <2>6, <2>7, <2>8 DEF Shape
  <2> QED
    BY <2>9 DEF Listing
<1> QED
  BY <1>9, <1>a

LEMMA WalkEndShape == ASSUME IInv, WalkEnd
                      PROVE  Listing' /\ SetAgo'
<1>1. PICK n \in Nat : \E q \in Arrays(n) : Shape(n, q)
  BY DEF IInv
<1>2. PICK q \in Arrays(n) : Shape(n, q)
  BY <1>1
<1>3. pc = "walk" /\ cur = NoTimer /\ mtc' = FALSE /\ UNCHANGED <<count, fired, waiting>>
  BY DEF WalkEnd
<1>4. Forward(n, q) /\ Backward(n, q) /\ Sleepers(n, q) /\ Walking(n, q)
  BY <1>2, <1>3 DEF Shape
<1>5. CASE mtc
  <2>1. StartSet(Mt, SwitchCyc)
    BY <1>5 DEF WalkEnd
  <2>2. Listing'
    BY <1>3, <1>4, <2>1, StartSetShape, Pointers, Numbers DEF IInv, Walking, Listing
  <2>3. SetAgo'
    BY <1>3, <2>1, StartSetAgo, Pointers, Numbers DEF IInv
  <2> QED
    BY <2>2, <2>3
<1>6. CASE ~mtc
  <2>1. pc' = "run" /\ UNCHANGED <<front, next, prev, timeout, cur, self, slice>>
    BY <1>6 DEF WalkEnd, links
  <2>2. PICK m \in 1..n : q[m] = Mt /\ (count >= timeout[Mt] => \E k \in 1..m : cur = q[k])
    BY <1>4, <1>6 DEF Walking, Ahead
  <2>3. ~ count >= timeout[Mt]
    BY <1>3, <2>2, Pointers DEF Arrays
  <2>4. slice < SwitchCyc
    BY <2>3, DueNow, Numbers DEF IInv, TypeOK
  <2>5. Forward(n, q)' /\ Backward(n, q)' /\ Sleepers(n, q)'
    BY <1>3, <1>4, <2>1 DEF Forward, Backward, Before, Sleepers
  <2>6. Running(n, q)'
    BY <1>3, <1>4, <2>1, <2>2, <2>4 DEF Running, Walking, In
  <2>7. Shape(n, q)'
    BY <2>1, <2>5, <2>6 DEF Shape
  <2>8. SetAgo'
    BY <1>3, <2>1 DEF IInv, SetAgo
  <2> QED
    BY <2>7, <2>8 DEF Listing
<1> QED
  BY <1>5, <1>6

-------------------------------------------------------------------------------
(* The callers *)

LEMMA CallersShape ==
  ASSUME IInv, \/ VoluntarySwitch
               \/ \E t \in Others, d \in 1..MaxDelay : SleepBegin(t, d)
  PROVE  Listing' /\ SetAgo'
<1>1. PICK n \in Nat : \E q \in Arrays(n) : Shape(n, q)
  BY DEF IInv
<1>2. PICK q \in Arrays(n) : Shape(n, q)
  BY <1>1
<1>3. pc = "run"
  BY DEF VoluntarySwitch, SleepBegin
<1>4. Forward(n, q) /\ Backward(n, q) /\ Sleepers(n, q) /\ Running(n, q)
  BY <1>2, <1>3 DEF Shape
<1>5. CASE VoluntarySwitch
  <2>1. StartSet(Mt, SwitchCyc) /\ UNCHANGED <<count, fired, waiting, mtc>>
    BY <1>5 DEF VoluntarySwitch
  <2>2. Listing'
    BY <1>3, <1>4, <2>1, StartSetShape, Pointers, Numbers DEF IInv, TypeOK, Running, Listing
  <2>3. SetAgo'
    BY <2>1, StartSetAgo, Pointers, Numbers DEF IInv
  <2> QED
    BY <2>2, <2>3
<1>6. CASE \E t \in Others, d \in 1..MaxDelay : SleepBegin(t, d)
  <2>1. PICK t \in Others, d \in 1..MaxDelay : SleepBegin(t, d)
    BY <1>6
  <2>2. /\ StartSet(t, d) /\ UNCHANGED <<count, mtc>> /\ t \notin waiting
        /\ waiting' = waiting \cup {t} /\ fired' = [fired EXCEPT ![t] = FALSE]
    BY <2>1 DEF SleepBegin
  <2>3. t \in Timer /\ t # Mt /\ d \in Nat
    BY PointersAssumption, NumbersAssumption DEF Timer
  <2>4. Listing'
    BY <1>3, <1>4, <2>2, <2>3, StartSetShape DEF IInv, TypeOK, Running, Listing
  <2>5. SetAgo'
    BY <2>2, <2>3, StartSetAgo DEF IInv
  <2> QED
    BY <2>4, <2>5
<1> QED
  BY <1>5, <1>6

LEMMA SleepEndShape == ASSUME IInv, NEW t \in Others, SleepEnd(t)
                       PROVE  Listing'
<1>1. PICK n \in Nat : \E q \in Arrays(n) : Shape(n, q)
  BY DEF IInv
<1>2. PICK q \in Arrays(n) : Shape(n, q)
  BY <1>1
<1>3. pc = "run" /\ fired[t] /\ waiting' = waiting \ {t}
      /\ UNCHANGED <<count, front, next, prev, timeout, fired, pc, cur, self, mtc, slice>>
  BY DEF SleepEnd, links
<1>4. Forward(n, q) /\ Backward(n, q) /\ Sleepers(n, q) /\ Running(n, q)
  BY <1>2, <1>3 DEF Shape
<1>5. Forward(n, q)' /\ Backward(n, q)' /\ Running(n, q)'
  BY <1>3, <1>4 DEF Forward, Backward, Before, Running, In
<1>6. Sleepers(n, q)'
  BY <1>3, <1>4 DEF Sleepers
<1>7. Shape(n, q)'
  BY <1>3, <1>5, <1>6 DEF Shape
<1> QED
  BY <1>7 DEF Listing

-------------------------------------------------------------------------------
(* The invariant *)

LEMMA TypeInit == Init => TypeOK
<1> SUFFICES ASSUME Init PROVE TypeOK
  OBVIOUS
<1>1. next \in [Timer -> Pointer] /\ prev \in [Timer -> Pointer] /\ fired \in [Timer -> BOOLEAN]
  BY Pointers DEF Init
<1>2. 0 \in 0..(Modulus - 1) /\ SwitchCyc \in 0..(Modulus - 1) /\ 0 \in 0..SwitchCyc
  BY Numbers
<1>3. timeout \in [Timer -> 0..(Modulus - 1)]
  BY <1>2 DEF Init
<1>4. front \in Pointer /\ cur \in Pointer /\ self \in Pointer
  BY Pointers DEF Init
<1>5. pc \in {"run", "walk", "seek"} /\ mtc \in BOOLEAN /\ switched \in BOOLEAN
      /\ waiting \in SUBSET Others
  BY DEF Init
<1> QED
  BY <1>1, <1>2, <1>3, <1>4, <1>5 DEF Init, TypeOK

LEMMA TypeNext == ASSUME IInv, Next PROVE TypeOK'
<1> USE Pointers, Numbers
<1>0. TypeOK
  BY DEF IInv
<1>1. CASE Tick
  <2>1. slice < SwitchCyc
    BY <1>1 DEF IInv, Shape, Running, Tick
  <2>2. (count + 1) % Modulus \in 0..(Modulus - 1)
    BY <1>0, Mod DEF TypeOK
  <2> QED
    BY <1>0, <1>1, <2>1, <2>2 DEF Tick, TypeOK, links
<1>2. CASE Pending \/ SeekNext
  <2>1. cur \in Timer
    BY <1>2 DEF IInv, Shape, Walking, Seeking, In, Arrays, Pending, SeekNext
  <2>2. next[cur] \in Pointer
    BY <1>0, <2>1 DEF TypeOK
  <2> QED
    BY <1>0, <1>2, <2>2 DEF Pending, SeekNext, TypeOK, links
<1>3. CASE Expired
  <2>1. cur \in Timer
    BY <1>0, <1>3 DEF Expired, TypeOK, Pointer
  <2>2. prev[cur] \in Pointer /\ next[cur] \in Pointer
    BY <1>0, <2>1 DEF TypeOK
  <2>3. next' \in [Timer -> Pointer] /\ front' \in Pointer
    BY <1>0, <1>3, <2>2 DEF Expired, TypeOK
  <2>4. prev' \in [Timer -> Pointer]
    BY <1>0, <1>3, <2>2 DEF Expired, TypeOK
  <2>5. cur' \in Pointer /\ fired' \in [Timer -> BOOLEAN] /\ mtc' \in BOOLEAN
    BY <1>0, <1>3, <2>1, <2>3 DEF Expired, TypeOK
  <2> QED
    BY <1>0, <1>3, <2>3, <2>4, <2>5 DEF Expired, TypeOK
<1>4. CASE WalkEnd
  <2>1. CASE mtc
    <3>1. StartSet(Mt, SwitchCyc) /\ UNCHANGED <<count, fired, waiting, switched>> /\ mtc' = FALSE
      BY <1>4, <2>1 DEF WalkEnd
    <3>2. \/ /\ front' = Mt /\ pc' = "run" /\ cur' = NoTimer /\ self' = self
          \/ /\ front' = front /\ pc' = "seek" /\ cur' = front /\ self' = Mt
      BY <3>1 DEF StartSet
    <3>3. (count + SwitchCyc) % Modulus \in 0..(Modulus - 1)
      BY <1>0, Mod DEF TypeOK
    <3>4. timeout' \in [Timer -> 0..(Modulus - 1)]
      BY <1>0, <3>1, <3>3 DEF StartSet, TypeOK
    <3>5. next' \in [Timer -> Pointer] /\ prev' \in [Timer -> Pointer] /\ slice' = 0
      BY <1>0, <3>1 DEF StartSet, TypeOK
    <3>6. front' \in Pointer /\ cur' \in Pointer /\ self' \in Pointer
      BY <1>0, <3>2 DEF TypeOK
    <3>7. pc' \in {"run", "walk", "seek"} /\ mtc' \in BOOLEAN
      BY <3>1, <3>2
    <3>8. 0 \in 0..SwitchCyc
      OBVIOUS
    <3> QED
      BY <1>0, <3>1, <3>4, <3>5, <3>6, <3>7, <3>8 DEF TypeOK
  <2>2. CASE ~mtc
    BY <1>0, <1>4, <2>2 DEF WalkEnd, TypeOK, links
  <2> QED
    BY <2>1, <2>2
<1>5. CASE SeekEnd
  <2>1. self \in Timer /\ cur \in Timer
    BY <1>5 DEF IInv, Shape, Seeking, In, Arrays, SeekEnd
  <2> QED
    BY <1>0, <1>5, <2>1 DEF SeekEnd, TypeOK
<1>6. CASE VoluntarySwitch
  <2>1. StartSet(Mt, SwitchCyc) /\ UNCHANGED <<count, fired, waiting, mtc>> /\ switched' = TRUE
    BY <1>6 DEF VoluntarySwitch
  <2>2. \/ /\ front' = Mt /\ pc' = "run" /\ cur' = NoTimer /\ self' = self
        \/ /\ front' = front /\ pc' = "seek" /\ cur' = front /\ self' = Mt
    BY <2>1 DEF StartSet
  <2>3. (count + SwitchCyc) % Modulus \in 0..(Modulus - 1)
    BY <1>0, Mod DEF TypeOK
  <2>4. timeout' \in [Timer -> 0..(Modulus - 1)]
    BY <1>0, <2>1, <2>3 DEF StartSet, TypeOK
  <2>5. next' \in [Timer -> Pointer] /\ prev' \in [Timer -> Pointer] /\ slice' = 0
    BY <1>0, <2>1 DEF StartSet, TypeOK
  <2> QED
    BY <1>0, <2>1, <2>2, <2>4, <2>5 DEF TypeOK
<1>7. CASE \E t \in Others, d \in 1..MaxDelay : SleepBegin(t, d)
  <2>1. PICK t \in Others, d \in 1..MaxDelay : SleepBegin(t, d)
    BY <1>7
  <2>2. StartSet(t, d) /\ UNCHANGED <<count, mtc, switched>> /\ waiting' = waiting \cup {t}
        /\ fired' = [fired EXCEPT ![t] = FALSE]
    BY <2>1 DEF SleepBegin
  <2>3. t \in Timer /\ d \in Nat
    BY NumbersAssumption DEF Timer
  <2>4. \/ /\ front' = t /\ pc' = "run" /\ cur' = NoTimer /\ self' = self
        \/ /\ front' = front /\ pc' = "seek" /\ cur' = front /\ self' = t
    BY <2>2 DEF StartSet
  <2>5. (count + d) % Modulus \in 0..(Modulus - 1)
    BY <1>0, <2>3, Mod DEF TypeOK
  <2>6. timeout' \in [Timer -> 0..(Modulus - 1)]
    BY <1>0, <2>2, <2>5 DEF StartSet, TypeOK
  <2>7. next' \in [Timer -> Pointer] /\ prev' \in [Timer -> Pointer] /\ slice' \in 0..SwitchCyc
    BY <1>0, <2>2 DEF StartSet, TypeOK
  <2>8. fired' \in [Timer -> BOOLEAN] /\ waiting' \in SUBSET Others
    BY <1>0, <2>2 DEF TypeOK
  <2> QED
    BY <1>0, <2>2, <2>3, <2>4, <2>6, <2>7, <2>8 DEF TypeOK
<1>8. CASE \E t \in Others : SleepEnd(t)
  BY <1>0, <1>8 DEF SleepEnd, TypeOK, links
<1> QED
  BY <1>1, <1>2, <1>3, <1>4, <1>5, <1>6, <1>7, <1>8 DEF Next, Handler, Seek

LEMMA IInvInit == Init => IInv
<1> SUFFICES ASSUME Init PROVE IInv
  OBVIOUS
<1>1. TypeOK
  BY TypeInit
<1>2. SetAgo
  <2>1. timeout[Mt] = SwitchCyc /\ count + (SwitchCyc - slice) = SwitchCyc
    BY Pointers, Numbers DEF Init
  <2>2. SwitchCyc % Modulus = SwitchCyc
    BY Mod, Numbers
  <2> QED
    BY <2>1, <2>2 DEF SetAgo
<1>3. PICK q \in Arrays(1) : q[1] = Mt
  <2>1. [i \in 1..1 |-> Mt] \in Arrays(1)
    BY Pointers DEF Arrays
  <2> QED
    BY <2>1
<1>4. \A i \in 1..1 : i = 1
  OBVIOUS
<1>5. Forward(1, q)
  BY <1>3, <1>4, Pointers DEF Init, Forward
<1>6. Backward(1, q) /\ Sleepers(1, q)
  BY <1>3, <1>4, Pointers DEF Init, Backward, Before, Sleepers
<1>7. Running(1, q)
  BY <1>3, Numbers DEF Init, Running, In
<1>8. Shape(1, q)
  BY <1>5, <1>6, <1>7 DEF Init, Shape
<1> QED
  BY <1>1, <1>2, <1>8 DEF IInv

LEMMA IInvNext == IInv /\ [Next]_vars => IInv'
<1> SUFFICES ASSUME IInv, [Next]_vars PROVE IInv'
  OBVIOUS
<1>1. CASE Next
  <2>1. TypeOK'
    BY <1>1, TypeNext
  <2>2. Listing' /\ SetAgo'
    <3>1. CASE Tick
      <4>1. slice < SwitchCyc
        BY <3>1 DEF IInv, Shape, Running, Tick
      <4> QED
        BY <3>1, <4>1, TickShape, TickAgo DEF IInv
    <3>2. CASE WalkEnd
      BY <3>2, WalkEndShape
    <3>3. CASE VoluntarySwitch \/ \E t \in Others, d \in 1..MaxDelay : SleepBegin(t, d)
      BY <3>3, CallersShape
    <3>4. CASE Pending \/ Expired \/ SeekNext \/ SeekEnd \/ \E t \in Others : SleepEnd(t)
      <4>1. Listing'
        BY <3>4, PendingShape, ExpiredShape, SeekNextShape, SeekEndShape, SleepEndShape
      <4>2. UNCHANGED <<count, timeout, slice>>
        BY <3>4 DEF Pending, Expired, SeekNext, SeekEnd, SleepEnd
      <4> QED
        BY <4>1, <4>2 DEF IInv, SetAgo
    <3> QED
      BY <1>1, <3>1, <3>2, <3>3, <3>4 DEF Next, Handler, Seek
  <2> QED
    BY <2>1, <2>2 DEF IInv, Listing
<1>2. CASE UNCHANGED vars
  <2>1. TypeOK' /\ SetAgo'
    BY <1>2 DEF vars, links, IInv, TypeOK, SetAgo
  <2>2. PICK n \in Nat : \E q \in Arrays(n) : Shape(n, q)
    BY DEF IInv
  <2>3. PICK q \in Arrays(n) : Shape(n, q)
    BY <2>2
  <2>4. Shape(n, q)'
    BY <1>2, <2>3 DEF vars, links, Shape, Forward, Backward, Before, In, Sleepers, Ahead, Running,
                      Walking, Seeking
  <2> QED
    BY <2>1, <2>4 DEF IInv
<1> QED
  BY <1>1, <1>2

-------------------------------------------------------------------------------
(* What the list is made of *)

LEMMA LeastNatural ==
  ASSUME NEW T \in SUBSET Nat, T # {}
  PROVE  \E m \in T : \A k \in T : m <= k
<1> DEFINE I == {0..n : n \in T}
           R == StrictSubsetOrdering(Nat)
<1>1. IsWellFoundedOn(R, FiniteSubsetsOf(Nat))
  BY FS_StrictSubsetOrderingWellFounded
<1>2. I \subseteq FiniteSubsetsOf(Nat)
  <2> SUFFICES ASSUME NEW n \in T PROVE 0..n \in FiniteSubsetsOf(Nat)
    OBVIOUS
  <2>1. IsFiniteSet(0..n)
    BY FS_Interval
  <2> QED
    BY <2>1 DEF FiniteSubsetsOf
<1>3. I # {}
  OBVIOUS
<1> HIDE DEF I, R
<1>4. PICK x \in I : \A y \in I : <<y, x>> \notin R
  BY <1>1, <1>2, <1>3, WFMin
<1>5. PICK m \in T : x = 0..m
  BY DEF I
<1>6. ASSUME NEW k \in T, k < m PROVE FALSE
  <2>1. 0..k \in I
    BY DEF I
  <2>2. 0..k \subseteq 0..m /\ 0..k # 0..m
    <3>1. m \in 0..m /\ m \notin 0..k
      BY <1>6
    <3> QED
      BY <1>6, <3>1
  <2>3. <<0..k, 0..m>> \in R
    <3>1. 0..k \in SUBSET Nat /\ 0..m \in SUBSET Nat
      OBVIOUS
    <3> QED
      BY <2>2, <3>1 DEF R, StrictSubsetOrdering
  <2> QED
    BY <1>4, <1>5, <2>1, <2>3
<1> QED
  BY <1>6

\* Induction up to n
LEMMA Induction ==
  ASSUME NEW n \in Nat, NEW S, 0 \in S, \A k \in 0..(n - 1) : k \in S => k + 1 \in S
  PROVE  0..n \subseteq S
<1> DEFINE T == (0..n) \ S
<1> SUFFICES ASSUME T # {} PROVE FALSE
  OBVIOUS
<1>1. PICK m \in T : \A k \in T : m <= k
  <2>1. T \in SUBSET Nat
    OBVIOUS
  <2> HIDE DEF T
  <2> QED
    BY <2>1, LeastNatural
<1>2. m # 0
  OBVIOUS
<1>3. m - 1 \in 0..(n - 1) /\ m - 1 \in S
  BY <1>1, <1>2
<1> QED
  BY <1>3

\* The array of timers is the list that can be reached from front.
LEMMA ArrayListed ==
  ASSUME NEW n \in Nat, NEW q \in Arrays(n), Forward(n, q)
  PROVE  Listed = {q[i] : i \in 1..n}
<1> DEFINE L == {q[i] : i \in 1..n}
<1>1. L \subseteq Timer /\ \A i \in 1..n : q[i] \in Timer /\ q[i] # NoTimer
  BY Pointers DEF Arrays
<1>2. ClosedList(L)
  <2>1. front # NoTimer => front \in L
    <3> SUFFICES ASSUME front # NoTimer PROVE front \in L
      OBVIOUS
    <3>1. n # 0 /\ front = q[1] /\ 1 \in 1..n
      BY DEF Forward
    <3> QED
      BY <3>1
  <2>2. ASSUME NEW i \in 1..n, next[q[i]] # NoTimer PROVE next[q[i]] \in L
    <3>1. i # n /\ next[q[i]] = q[i + 1] /\ i + 1 \in 1..n
      BY <2>2 DEF Forward
    <3> QED
      BY <3>1
  <2> QED
    BY <2>1, <2>2 DEF ClosedList
<1>3. ASSUME NEW X \in SUBSET Timer, ClosedList(X), NEW i \in 1..n PROVE q[i] \in X
  <2> DEFINE S == {k \in 0..n : k = 0 \/ q[k] \in X}
  <2>1. 0 \in S
    OBVIOUS
  <2>2. ASSUME NEW k \in 0..(n - 1), k \in S PROVE k + 1 \in S
    <3>1. k + 1 \in 1..n
      OBVIOUS
    <3>2. CASE k = 0
      <4>1. front = q[1] /\ front # NoTimer
        BY <1>1, <3>1, <3>2 DEF Forward
      <4> QED
        BY <1>3, <3>1, <3>2, <4>1 DEF ClosedList
    <3>3. CASE k # 0
      <4>1. k \in 1..n /\ k # n /\ q[k] \in X
        BY <2>2, <3>3
      <4>2. next[q[k]] = q[k + 1] /\ q[k + 1] # NoTimer
        BY <1>1, <3>1, <4>1 DEF Forward
      <4>3. q[k + 1] \in X
        BY <1>3, <4>1, <4>2 DEF ClosedList
      <4> QED
        BY <3>1, <4>3
    <3> QED
      BY <3>2, <3>3
  <2>3. 0..n \subseteq S
    <3> HIDE DEF S
    <3> QED
      BY <2>1, <2>2, Induction
  <2>4. i \in 0..n /\ i # 0
    OBVIOUS
  <2> QED
    BY <2>3, <2>4
<1>4. L \subseteq Listed
  BY <1>1, <1>3 DEF Listed
<1>5. Listed \subseteq L
  BY <1>1, <1>2 DEF Listed
<1> QED
  BY <1>4, <1>5

-------------------------------------------------------------------------------
(* Theorems *)

\* Whatever the range of count, the slice and the delays, and however many
\* tasks sleep or give up the processor: between two interrupts mt is in the
\* list that timerhandle() walks and less than switchcyc ticks old, although
\* taskswitch() sets it while it is linked and although count wraps.
THEOREM SliceAlwaysEnds == FairSpec => []SliceEnds
<1>1. IInv => SliceEnds
  <2> SUFFICES ASSUME IInv PROVE SliceEnds
    OBVIOUS
  <2>1. PICK n \in Nat : \E q \in Arrays(n) : Shape(n, q)
    BY DEF IInv
  <2>2. PICK q \in Arrays(n) : Shape(n, q)
    BY <2>1
  <2>3. ASSUME pc = "run" PROVE Mt \in Listed /\ slice < SwitchCyc
    <3>1. In(n, q, Mt) /\ slice < SwitchCyc
      BY <2>2, <2>3 DEF Shape, Running
    <3>2. Listed = {q[i] : i \in 1..n}
      BY <2>2, ArrayListed DEF Shape
    <3> QED
      BY <3>1, <3>2 DEF In
  <2> QED
    BY <2>3 DEF IInv, SliceEnds
<1> QED
  BY <1>1, IInvInit, IInvNext, PTL DEF FairSpec

\* A timer that timerd::sleep() has deleted is never in the list, whatever
\* set() cuts off: no handler follows a pointer into freed memory.
THEOREM NoneFreed == FairSpec => []NoFreedTimer
<1>1. IInv => NoFreedTimer
  <2> SUFFICES ASSUME IInv, NEW t \in Listed, t \in Others PROVE t \in waiting
    BY DEF NoFreedTimer
  <2>1. PICK n \in Nat : \E q \in Arrays(n) : Shape(n, q)
    BY DEF IInv
  <2>2. PICK q \in Arrays(n) : Shape(n, q)
    BY <2>1
  <2>3. Listed = {q[i] : i \in 1..n}
    BY <2>2, ArrayListed DEF Shape
  <2>4. PICK i \in 1..n : t = q[i]
    BY <2>3
  <2>5. t # Mt
    BY PointersAssumption
  <2> QED
    BY <2>2, <2>4, <2>5 DEF Shape, Sleepers
<1> QED
  BY <1>1, IInvInit, IInvNext, PTL DEF FairSpec
===============================================================================
