------------------------------- MODULE MCInput --------------------------------
(***************************************************************************)
(* Instances of Input for TLC: mice and tablets, keyboards, and a keyboard *)
(* with a mouse; two of them send reports.                                 *)
(***************************************************************************)
EXTENDS Input

\* The choices: report number, buttons, their filling, a vendor's input, wheel,
\* bits of an axis, absolute or relative.
Mice == {0, 1} \X {3, 8} \X {0, 1, 5} \X {0, 1} \X {2, 3} \X {8, 12} \X {2, 6}
MouseOf(p) == (IF p[1] = 1 THEN ReportId ELSE <<>>) \o Mouse \o Buttons(p[2])
              \o (CASE p[3] = 0 -> <<>> [] p[3] = 1 -> FillingBits(5) [] p[3] = 5 -> Filling(5))
              \o (IF p[4] = 1 THEN Vendor ELSE <<>>)
              \o Axes(SubSeq(<<48, 49, 56>>, 1, p[5]), p[6], p[7])

\* Report number, filling behind the modifiers, LEDs, keys, and a mouse in a
\* second report.
Keyboards == {0, 1} \X {0, 1} \X {0, 1} \X {2, 6} \X {0, 1}
KeyboardOf(p) == (IF p[1] = 1 THEN ReportId ELSE <<>>) \o Keyboard \o Modifiers
                 \o (IF p[2] = 1 THEN Reserved ELSE <<>>) \o (IF p[3] = 1 THEN Leds ELSE <<>>)
                 \o KeyArray(p[4])
                 \o IF p[5] = 1 THEN ReportId \o Mouse \o Buttons(8) \o Axes(<<48, 49>>, 8, 6)
                    ELSE <<>>

MCDescriptors == [p \in Mice \cup Keyboards |-> IF p \in Mice THEN MouseOf(p) ELSE KeyboardOf(p)]
MCLive == {<<0, 1, 1, 2, 0>>, <<0, 3, 5, 0, 2, 8, 6>>}
===============================================================================
