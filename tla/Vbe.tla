-------------------------------- MODULE Vbe --------------------------------
(***************************************************************************)
(* The drawing primitives, kernel/drivers/vbe.c.  Pixels go to a back      *)
(* buffer that vbe_swap_buffers copies to the screen.  Loops over whole    *)
(* spans are one step; the Bresenham loops, whose length and path are in   *)
(* question, and the loop over the characters of a string take one step    *)
(* per turn.                                                               *)
(***************************************************************************)
EXTENDS Integers, FiniteSets, Sequences

CONSTANTS
  WORD,                \* a uint32_t holds 0 .. WORD - 1 (2^32)
  Color,               \* colours, of which
  COLOR_TRANSPARENT,   \* one leaves a background alone
  Font                 \* glyphs: character -> set of <<col, row>>

ASSUME VbeAssumption ==
  /\ WORD \in Nat \ {0} /\ WORD % 2 = 0
  /\ \A c \in DOMAIN Font : Font[c] \subseteq (0 .. 7) \X (0 .. 7)

VARIABLES
  mode,         \* what vbe_init has left in fb_w, fb_h, fb_pitch_pixels
  backbuffer,   \* [Cell -> Color]
  lfb,          \* what the screen shows, [Cell -> Color]
  job,          \* the primitive that is drawing, with its locals
  touched       \* history: the cells it has written

vbeVars == <<mode, backbuffer, lfb, job, touched>>

fb_w == mode.w                   \* the screen
fb_h == mode.h
fb_pitch_pixels == mode.pitch    \* pixels from one row of the buffer to the next

Cell == 0 .. fb_h * fb_pitch_pixels - 1

Idle == [op |-> "idle"]

(* A screen no wider than its rows and small against the range of numbers: *)
(* twice a distance on it is an int.                                       *)
Mode(m) ==
  /\ m \in [w : Nat, h : Nat, pitch : Nat]
  /\ m.w <= m.pitch
  /\ 4 * m.w < WORD /\ 4 * m.h < WORD

VbeInit(m, color) ==
  /\ mode = m
  /\ backbuffer = [c \in Cell |-> color]
  /\ lfb = [c \in Cell |-> color]
  /\ job = Idle
  /\ touched = {}

(* (int) of a uint32_t and back; an int, and what the sum of two of them   *)
(* is in the processor.                                                    *)
ToInt(v)   == IF v < WORD \div 2 THEN v ELSE v - WORD
ToUint(i) == i % WORD
IsInt(i)  == -(WORD \div 2) <= i /\ i < WORD \div 2
Wrap(i)   == ToInt(ToUint(i))

(* vbe_put_pixel, for a set of points.                                     *)
At(p) == ToUint(p[2]) * fb_pitch_pixels + ToUint(p[1])
Put(points, color) ==
  LET cells == {At(p) : p \in points}
  IN /\ backbuffer' = [c \in Cell |-> IF c \in cells THEN color ELSE backbuffer[c]]
     /\ touched' = touched \cup cells
     /\ UNCHANGED lfb

(* vbe_draw_pixel, for a set of points whose coordinates are ints.         *)
MutVisible(points) == points
Visible(points) == {p \in points : ToUint(p[1]) < fb_w /\ ToUint(p[2]) < fb_h}

Start(j) == job = Idle /\ job' = j /\ UNCHANGED mode

-----------------------------------------------------------------------------
(* Whole spans.                                                            *)

Pixel(x, y, color) ==
  /\ Start([op |-> "done"])
  /\ Put(Visible({<<x, y>>}), color)

(* The ends wrap; an end in front of its start means the edge.             *)
MutRectEnd(from, size, limit) ==     \* no test of the wrap
  LET end == ToUint(from + size) IN IF end > limit THEN limit ELSE end
RectEnd(from, size, limit) ==
  LET end == ToUint(from + size) IN IF end > limit \/ end < from THEN limit ELSE end

vbe_fill_rect(x, y, w, h, color) ==
  /\ Start([op |-> "rect", x |-> x, y |-> y, w |-> w, h |-> h])
  /\ Put(IF x >= fb_w \/ y >= fb_h THEN {}
         ELSE (x .. RectEnd(x, w, fb_w) - 1) \X (y .. RectEnd(y, h, fb_h) - 1), color)

(* rep stosq leaves the count, quads, at zero: an odd last pixel is aimed  *)
(* at from there and the first one is written instead.                     *)
Pixels == fb_h * fb_pitch_pixels
Quads  == Pixels \div 2
MutStored(c) == c < 2 * (Quads - 1)        \* one quad short
Stored(c) == c < 2 * Quads \/ (Pixels % 2 = 1 /\ c = 0)

vbe_clear(color) ==
  /\ Start([op |-> "clear", color |-> color])
  /\ backbuffer' = [c \in Cell |-> IF Stored(c) THEN color ELSE backbuffer[c]]
  /\ touched' = {c \in Cell : Stored(c)}
  /\ UNCHANGED lfb

(* The same in rep movsq.                                                  *)
vbe_swap_buffers ==
  /\ Start([op |-> "swap"])
  /\ lfb' = [c \in Cell |-> IF Stored(c) THEN backbuffer[c] ELSE lfb[c]]
  /\ UNCHANGED <<backbuffer, touched>>

-----------------------------------------------------------------------------
(* vbe_draw_line.                                                          *)

(* What is off the screen counts as its edge, what is negative as int as 0. *)
MutEdge(v, size) == IF v < size THEN v ELSE size - 1
Edge(v, size) == IF v < size THEN v ELSE IF v >= WORD \div 2 THEN 0 ELSE size - 1

Apart(a, b) == IF b > a THEN b - a ELSE a - b

vbe_draw_line(u0, v0, u1, v1, color) ==
  LET x0 == Edge(u0, fb_w)  x1 == Edge(u1, fb_w)
      y0 == Edge(v0, fb_h)  y1 == Edge(v1, fb_h)
  IN /\ Start(IF fb_w = 0 \/ fb_h = 0 THEN [op |-> "done"]
              ELSE [op |-> "line", asked |-> <<u0, v0, u1, v1>>, from |-> <<x0, y0>>,
                    to |-> <<x1, y1>>, x |-> x0, y |-> y0, more |-> TRUE, color |-> color,
                    err |-> Apart(x0, x1) - Apart(y0, y1)])
     /\ UNCHANGED <<backbuffer, lfb, touched>>

MutAhead(j, k) == IF j.from[k] <= j.to[k] THEN 1 ELSE 0     \* never backwards
Ahead(j, k) == IF j.from[k] < j.to[k] THEN 1 ELSE -1

(* One pixel, then one step along either axis or both.                     *)
LineStep ==
  /\ job.op = "line" /\ job.more
  /\ Put(Visible({<<job.x, job.y>>}), job.color)
  /\ LET dx == Apart(job.from[1], job.to[1])
         dy == Apart(job.from[2], job.to[2])
         across == 2 * job.err > -dy
         along  == 2 * job.err < dx
     IN job' = IF <<job.x, job.y>> = job.to THEN [job EXCEPT !.more = FALSE]
               ELSE [job EXCEPT !.x = IF across THEN @ + Ahead(job, 1) ELSE @,
                                !.y = IF along THEN @ + Ahead(job, 2) ELSE @,
                                !.err = @ - (IF across THEN dy ELSE 0) + (IF along THEN dx ELSE 0)]

-----------------------------------------------------------------------------
(* vbe_draw_circle and vbe_fill_circle.                                    *)

vbe_circle(op, u, v, radius, color) ==
  /\ Start(IF radius = 0 \/ fb_w = 0 \/ fb_h = 0 THEN [op |-> "done"]
           ELSE [op |-> op, cx |-> ToInt(u), cy |-> ToInt(v), r |-> ToInt(radius),
                 x |-> ToInt(radius), y |-> 0, err |-> 0, color |-> color])
  /\ Put(IF radius = 0 THEN Visible({<<u, v>>}) ELSE {}, color)
vbe_draw_circle(u, v, radius, color) == vbe_circle("circle", u, v, radius, color)
vbe_fill_circle(u, v, radius, color) == vbe_circle("disc", u, v, radius, color)

(* The eight points of a turn.                                             *)
Octants(j) ==
  {<<j.cx + a[1], j.cy + a[2]>> :
     a \in ({-j.x, j.x} \X {-j.y, j.y}) \cup ({-j.y, j.y} \X {-j.x, j.x})}

(* vbe_draw_hline.  A start left of the screen, a large number as unsigned, *)
(* makes it return before the line that would move the start to 0.         *)
MutHline(x0, x1, y) == IF y < 0 \/ y >= fb_h THEN {} ELSE (x0 .. x1) \X {y}    \* not cut
Hline(x0, x1, y) ==
  LET left  == IF x0 > x1 THEN x1 ELSE x0
      right == IF x0 > x1 THEN x0 ELSE x1
  IN IF y < 0 \/ y >= fb_h \/ right < 0 \/ ToUint(left) >= fb_w THEN {}
     ELSE (left .. IF right >= fb_w THEN fb_w - 1 ELSE right) \X {y}

(* The four spans of a turn, whose ends are sums of ints.                  *)
Spans(j) == UNION {Hline(Wrap(j.cx - s[1]), Wrap(j.cx + s[1]), Wrap(j.cy + s[2])) :
                     s \in {<<j.x, j.y>>, <<j.x, -j.y>>, <<j.y, j.x>>, <<j.y, -j.x>>}}

(* The test 2 * (err - x) + 1 > 0.  Beyond the range of an int, which only *)
(* huge radii reach, it is undefined; one compiler wraps, another compares *)
(* err with x.                                                             *)
MutInward(err, x) == {2 * (err - x) + 1 < 0}       \* the comparison is turned round
Inward(err, x) == IF IsInt(2 * (err - x) + 1) THEN {2 * (err - x) + 1 > 0} ELSE BOOLEAN

CircleStep ==
  /\ job.op \in {"circle", "disc"}
  /\ job.x >= job.y
  /\ Put(IF job.op = "disc" THEN Spans(job) ELSE Visible(Octants(job)), job.color)
  /\ LET y == job.y + 1
         err == Wrap(job.err + 1 + 2 * y)
     IN \E inward \in Inward(err, job.x) :
          job' = IF inward
                 THEN [job EXCEPT !.y = y, !.x = @ - 1, !.err = Wrap(err + 1 - 2 * (job.x - 1))]
                 ELSE [job EXCEPT !.y = y, !.err = err]

-----------------------------------------------------------------------------
(* vbe_draw_char and vbe_draw_string.                                      *)

Box(x, y) == (x .. x + 7) \X (y .. y + 7)
Glyph(x, y, c) == {<<x + g[1], y + g[2]>> : g \in Font[c]}

vbe_draw_char(x, y, c, fg, bg) ==
  LET ink == {At(p) : p \in Visible(Glyph(x, y, c))}
      box == {At(p) : p \in Visible(Box(x, y))}
  IN /\ backbuffer' = [k \in Cell |-> IF k \in ink THEN fg
                                      ELSE IF k \in box /\ bg # COLOR_TRANSPARENT THEN bg
                                      ELSE backbuffer[k]]
     /\ touched' = touched \cup (IF bg = COLOR_TRANSPARENT THEN ink ELSE box)
     /\ UNCHANGED lfb

vbe_draw_string(x, y, text, fg, bg) ==
  /\ Start(IF x >= fb_w \/ y >= fb_h THEN [op |-> "done"]
           ELSE [op |-> "string", x |-> x, cx |-> x, cy |-> y, text |-> text, fg |-> fg, bg |-> bg,
                 placed |-> << >>])
  /\ UNCHANGED <<backbuffer, lfb, touched>>

NEWLINE == "\n"

(* A newline, or no room for a whole glyph: the next line, ten pixels down. *)
MutWraps(j) == Head(j.text) = NEWLINE
Wraps(j) == Head(j.text) = NEWLINE \/ j.cx + 8 > fb_w

(* placed is history: where the glyphs went.                               *)
StringStep ==
  /\ job.op = "string"
  /\ job.text # << >>
  /\ LET cx == IF Wraps(job) THEN job.x ELSE job.cx
         cy == IF Wraps(job) THEN job.cy + 10 ELSE job.cy
         c  == Head(job.text)
     IN IF cy >= fb_h
        THEN job' = [job EXCEPT !.text = << >>] /\ UNCHANGED <<backbuffer, lfb, touched>>
        ELSE IF c = NEWLINE
        THEN /\ job' = [job EXCEPT !.text = Tail(@), !.cx = cx, !.cy = cy]
             /\ UNCHANGED <<backbuffer, lfb, touched>>
        ELSE /\ vbe_draw_char(cx, cy, c, job.fg, job.bg)
             /\ job' = [job EXCEPT !.text = Tail(@), !.cx = cx + 8, !.cy = cy,
                                   !.placed = Append(@, <<cx, cy>>)]

JobStep == (LineStep \/ CircleStep \/ StringStep) /\ UNCHANGED mode

(* The primitive has returned.                                             *)
Finished ==
  CASE job.op = "line" -> ~job.more
    [] job.op \in {"circle", "disc"} -> job.x < job.y
    [] job.op = "string" -> job.text = << >>
    [] job.op = "idle" -> FALSE
    [] OTHER -> TRUE
=============================================================================
