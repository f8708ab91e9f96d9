------------------------------- MODULE MCVbe -------------------------------
(* Values for the constants of VbeSystem, numbers of seven bits.           *)
EXTENDS VbeSystem, TLC

MCColor == {"ink", "paper"}
MCFont == ("x" :> {<<0, 0>>, <<7, 7>>, <<3, 4>>})

Screen(w, h, p) == [w |-> w, h |-> h, pitch |-> p]

(* Shapes: a screen of 7 by 6 in rows of 8.                                *)
Shapes == [ mode |-> Screen(7, 6, 8), ops |-> {"pixel", "rect", "line", "circle", "disc"},
            xs |-> 0 .. 8 \cup {63, 66, 124, 127}, ys |-> 0 .. 6 \cup {63, 67, 125, 127},
            sizes |-> 0 .. 5 \cup {8, 123, 127}, strings |-> {}, calls |-> 1 ]

(* Circles so large that their sums overflow.                              *)
Huge == [ mode |-> Screen(7, 6, 8), ops |-> {"circle", "disc"}, xs |-> {0, 63, 66, 124},
          ys |-> {3, 67, 127}, sizes |-> {62, 63}, strings |-> {}, calls |-> 1 ]

(* Text: a screen of 26 by 23, three letters to a line from the left.      *)
Texts == [ mode |-> Screen(26, 23, 26), ops |-> {"string"},
           xs |-> {0, 9, 25, 26}, ys |-> {0, 13, 22}, sizes |-> {},
           strings |-> UNION {[1 .. n -> {"x", NEWLINE}] : n \in 0 .. 4}, calls |-> 1 ]

(* Frames: buffers of an even and of an odd number of pixels.              *)
Frames(w, h) == [ mode |-> Screen(w, h, w), ops |-> {"rect", "clear", "swap"},
                  xs |-> {0, 1}, ys |-> {0, 1, 2}, sizes |-> {1, 2}, strings |-> {}, calls |-> 4 ]

MCSessions == {Shapes, Huge, Texts, Frames(2, 3)}
OddFrames  == {Frames(3, 3)}
=============================================================================
