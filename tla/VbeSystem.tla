----------------------------- MODULE VbeSystem -----------------------------
(***************************************************************************)
(* The primitives called one after the other with arguments a script may   *)
(* give them: any 32-bit numbers, on the screen or not.                    *)
(***************************************************************************)
EXTENDS Vbe

CONSTANTS
  Sessions,    \* a mode each, and what is called in it: the primitives ops,
               \* the coordinates xs and ys, the widths, heights and radii
               \* sizes, the texts strings, and calls, a bound on the calls
  Ink, Paper   \* colours

ASSUME SessionsAssumption ==
  /\ \A s \in Sessions :
       /\ Mode(s.mode)
       /\ s.xs \subseteq 0 .. WORD - 1 /\ s.ys \subseteq 0 .. WORD - 1
       /\ s.sizes \subseteq 0 .. WORD - 1
       /\ s.strings \subseteq Seq(DOMAIN Font \cup {NEWLINE})
  /\ {Ink, Paper} \subseteq Color

VARIABLES
  session,     \* the one we are in, which never changes
  ops          \* how many calls have been made

vars == <<vbeVars, session, ops>>

Init ==
  /\ session \in Sessions
  /\ VbeInit(session.mode, Paper)
  /\ ops = 0

Calls(op) ==
  /\ op \in session.ops
  /\ ops < session.calls
  /\ ops' = ops + 1
  /\ UNCHANGED session

X == session.xs
Y == session.ys
Size == session.sizes

CallPixel  == Calls("pixel") /\ \E x \in X, y \in Y : Pixel(x, y, Ink)
CallRect   == Calls("rect") /\ \E x \in X, y \in Y, w, h \in Size : vbe_fill_rect(x, y, w, h, Ink)
CallLine   == Calls("line") /\ \E x, u \in X, y, v \in Y : vbe_draw_line(x, y, u, v, Ink)
CallCircle == Calls("circle") /\ \E x \in X, y \in Y, r \in Size : vbe_draw_circle(x, y, r, Ink)
CallDisc   == Calls("disc") /\ \E x \in X, y \in Y, r \in Size : vbe_fill_circle(x, y, r, Ink)
CallString == Calls("string") /\ \E x \in X, y \in Y, t \in session.strings, bg \in {Paper, COLOR_TRANSPARENT} :
                                    vbe_draw_string(x, y, t, Ink, bg)
CallClear  == Calls("clear") /\ \E c \in {Ink, Paper} : vbe_clear(c)
CallSwap   == Calls("swap") /\ vbe_swap_buffers

Run == JobStep /\ UNCHANGED <<session, ops>>

Return ==
  /\ Finished
  /\ job' = Idle
  /\ touched' = {}
  /\ UNCHANGED <<mode, backbuffer, lfb, session, ops>>

(* Nothing is drawn.                                                       *)
Wait == job = Idle /\ UNCHANGED vars

Next ==
  \/ CallPixel \/ CallRect \/ CallLine \/ CallCircle \/ CallDisc \/ CallString \/ CallClear \/ CallSwap
  \/ Run \/ Return \/ Wait

Spec == Init /\ [][Next]_vars
FairSpec == Spec /\ WF_vars(Run) /\ WF_vars(Return)

-----------------------------------------------------------------------------
(* Properties.                                                             *)

On == (0 .. fb_w - 1) \X (0 .. fb_h - 1)
CellsOf(points) == {At(p) : p \in points}
Done(op) == job.op = op /\ Finished

(* No primitive but vbe_clear writes off the screen, neither into the      *)
(* padding of a row, where it would come out on the next row of a wider    *)
(* buffer, nor past the buffer's end, whatever the arguments               *)
(* (vbe.c:125-129, 157-209).                                               *)
StaysOnScreen == job.op # "clear" => touched \subseteq CellsOf(On)

(* A rectangle covers the points of the screen in it, its ends beyond the  *)
(* range of the numbers included (vbe.c:157-170).                          *)
RectIsExact ==
  Done("rect") =>
    touched = CellsOf({p \in On : /\ job.x <= p[1] /\ p[1] < job.x + job.w
                                  /\ job.y <= p[2] /\ p[2] < job.y + job.h})

(* A line has both ends, the points of the screen nearest to those asked   *)
(* for, one point in each column, or each row if it is steep, and none     *)
(* farther than half a pixel from the true line (vbe.c:172-197).           *)
Nearest(v, size) == CHOOSE n \in 0 .. size - 1 :
                      \A m \in 0 .. size - 1 : Apart(n, ToInt(v)) <= Apart(m, ToInt(v))
LineIsStraight ==
  Done("line") =>
    LET dx == job.to[1] - job.from[1]
        dy == job.to[2] - job.from[2]
        longer == IF Apart(0, dx) > Apart(0, dy) THEN Apart(0, dx) ELSE Apart(0, dy)
        points == {p \in On : At(p) \in touched}
    IN /\ job.from = <<Nearest(job.asked[1], fb_w), Nearest(job.asked[2], fb_h)>>
       /\ job.to   = <<Nearest(job.asked[3], fb_w), Nearest(job.asked[4], fb_h)>>
       /\ {job.from, job.to} \subseteq points
       /\ Cardinality(points) = longer + 1
       /\ \A p \in points :
            2 * Apart(0, dx * (p[2] - job.from[2]) - dy * (p[1] - job.from[1])) <= longer

(* How far p is from the centre, squared.  A point is off the circle of    *)
(* radius r by at most half a pixel when this is within r of r * r.        *)
Square(p) == (p[1] - job.cx) * (p[1] - job.cx) + (p[2] - job.cy) * (p[2] - job.cy)
Beyond     == {p \in On : Square(p) > job.r * job.r + job.r}
Within(k)  == {p \in On : Square(p) < job.r * job.r - k * job.r}

(* No sum of its centre and its radius overflows, nor the test for the     *)
(* next step.                                                              *)
Moderate ==
  /\ IsInt(job.cx - job.r) /\ IsInt(job.cx + job.r)
  /\ IsInt(job.cy - job.r) /\ IsInt(job.cy + job.r)
  /\ 16 * job.r < WORD

(* A circle is round: no point is more than half a pixel out or one and a  *)
(* half in, and its four points on the axes, as far as they are on the     *)
(* screen, are drawn (vbe.c:211-239).                                      *)
CircleIsRound ==
  Done("circle") /\ job.r > 0 /\ Moderate =>
    /\ touched \cap CellsOf(Beyond \cup Within(3)) = {}
    /\ \A p \in On : Square(p) = job.r * job.r /\ (p[1] = job.cx \/ p[2] = job.cy)
                       => At(p) \in touched

(* A filled circle is filled, over all of its part on the screen, and      *)
(* nothing is drawn outside, unless it crosses the left edge: there spans  *)
(* are lost (vbe.c:199-209, 241-265).                                      *)
Filled ==
  /\ CellsOf(Within(3)) \subseteq touched
  /\ touched \cap CellsOf(Beyond) = {}
DiscIsFilledInside == Done("disc") /\ job.r > 0 /\ Moderate /\ job.cx >= job.r => Filled

(* No two glyphs of a string share a point, and the text runs left to      *)
(* right and downwards, wherever the string starts and breaks              *)
(* (vbe.c:290-306).                                                        *)
TextIsReadable ==
  job.op = "string" =>
    \A i, j \in 1 .. Len(job.placed) : i < j =>
      LET p == job.placed[i]  q == job.placed[j]
      IN \/ p[2] + 10 <= q[2]
         \/ p[2] = q[2] /\ p[1] + 8 <= q[1] /\ q[1] + 8 <= fb_w

(* "The trailing-byte remainder (framebuffer bytes not a multiple of 8) is *)
(* handled" (vbe.c:135-136): clearing clears and swapping shows every      *)
(* pixel.                                                                  *)
Cleared == job.op = "clear" => \A c \in Cell : backbuffer[c] = job.color
Shown   == job.op = "swap" => lfb = backbuffer
RemainderHandled == Cleared /\ Shown

(* Clearing clears and swapping shows every pixel of a buffer with an even *)
(* number of them.                                                         *)
FrameIsComplete == Pixels % 2 = 0 => Cleared /\ Shown

(* Every primitive returns, whatever its arguments: a script that draws    *)
(* cannot stop the machine (vbe.c:190-196, 222-238, 294-305).              *)
CallsReturn == []<>(job = Idle)
=============================================================================
