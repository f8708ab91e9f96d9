------------------------------- MODULE MCScene -------------------------------
(* The mode the kernel starts in through two calendars, and other screens, *)
(* consoles and pointers for a few ticks.                                  *)
EXTENDS Scene

Full == <<63, 63, 63, 63, 63>>
S(w, h, v, rows, p, m, n, s) ==
  [w |-> w, h |-> h, visible |-> v, rows |-> rows, prompt |-> p, pointer |-> m, until |-> n, scripts |-> s]
MCScenes ==
  { S(800, 600, TRUE, <<45, 58>>, 0, <<400, 300>>, 530, FALSE) }
  \cup { S(m[1], m[2], v, Full, 127, <<m[1] - 1, 0>>, 60, FALSE) :
           m \in {<<648, 480>>, <<800, 600>>, <<1024, 768>>}, v \in BOOLEAN }
  \cup { S(m[1], m[2], TRUE, <<0, 63, 20, 63>>, p, <<0, m[2] - 1>>, 6, TRUE) :
           m \in {<<640, 480>>, <<648, 274>>, <<648, 121>>, <<1280, 1024>>, <<320, 200>>, <<36, 100>>}, p \in {0, 1, 94, 127} }
=============================================================================
