------------------------------ MODULE VbeProofs ------------------------------
(***************************************************************************)
(* Theorems about the drawing primitives, for every mode, every width of   *)
(* the numbers and any arguments; and about the frame the main loop draws  *)
(* with them, for every screen, console and date.                          *)
(***************************************************************************)
EXTENDS VbeSystem, Scene, LoopProofs, FiniteSetTheorems, TLAPS

-----------------------------------------------------------------------------
(* Numbers.                                                                *)

Uint == 0 .. WORD - 1

(* The remainder is the one number of the range at a multiple's distance.  *)
LEMMA ModUnique ==
  ASSUME NEW n \in Nat \ {0}, NEW a \in Int, NEW k \in Int, NEW x \in 0 .. n - 1, a = n * k + x
  PROVE  a % n = x
<1> DEFINE q == a \div n  r == a % n
<1>1. q \in Int /\ r \in 0 .. n - 1 /\ a = n * q + r
  OBVIOUS
<1> HIDE DEF q, r
<1>2. n * (q - k) = x - r
  BY <1>1
<1>3. CASE q - k >= 1
  <2>1. n * (q - k) >= n
    BY <1>1, <1>3
  <2> QED BY <2>1, <1>1, <1>2
<1>4. CASE q - k <= -1
  <2>1. n * (q - k) <= -n
    BY <1>1, <1>4
  <2> QED BY <2>1, <1>1, <1>2
<1>5. CASE q = k
  BY <1>1, <1>2, <1>5 DEF r
<1> QED BY <1>1, <1>3, <1>4, <1>5

(* One turn of the range to either side.                                   *)
LEMMA ToUintIs ==
  ASSUME NEW i \in Int, NEW k \in {-1, 0, 1}, i + k * WORD \in Uint
  PROVE  ToUint(i) = i + k * WORD
<1>1. WORD \in Nat \ {0} /\ i + k * WORD \in 0 .. WORD - 1
  BY VbeAssumption DEF Uint
<1>2. i = WORD * (-k) + (i + k * WORD)
  BY <1>1
<1> HIDE DEF Uint
<1>3. i % WORD = i + k * WORD
  BY <1>1, <1>2, ModUnique
<1> QED BY <1>3 DEF ToUint

LEMMA ToUintType ==
  ASSUME NEW i \in Int
  PROVE  ToUint(i) \in Uint
BY VbeAssumption DEF ToUint, Uint

LEMMA ToUintSame ==
  ASSUME NEW i \in Uint
  PROVE  ToUint(i) = i
<1>1. i \in Int /\ i + 0 * WORD = i /\ i + 0 * WORD \in Uint
  BY VbeAssumption DEF Uint
<1> QED BY <1>1, ToUintIs

(* The two halves.                                                         *)
LEMMA Half ==
  /\ WORD \div 2 \in Nat \ {0} /\ WORD = 2 * (WORD \div 2)
BY VbeAssumption

LEMMA ToIntType ==
  ASSUME NEW v \in Uint
  PROVE  ToInt(v) \in Int /\ IsInt(ToInt(v))
BY Half DEF Uint, ToInt, IsInt

LEMMA WrapIs ==
  ASSUME NEW i \in Int
  PROVE  /\ Wrap(i) \in Int /\ IsInt(Wrap(i))
         /\ IsInt(i) => Wrap(i) = i
<1>1. Wrap(i) \in Int /\ IsInt(Wrap(i))
  BY ToUintType, ToIntType DEF Wrap
<1>2. ASSUME IsInt(i), i >= 0
      PROVE  Wrap(i) = i
  <2>1. i \in Uint /\ i < WORD \div 2
    BY <1>2, Half DEF IsInt, Uint
  <2> QED BY <2>1, ToUintSame DEF Wrap, ToInt
<1>3. ASSUME IsInt(i), i < 0
      PROVE  Wrap(i) = i
  <2>1. i + 1 * WORD \in Uint /\ i + 1 * WORD = i + WORD /\ i + WORD >= WORD \div 2
    BY <1>3, Half DEF IsInt, Uint
  <2>2. ToUint(i) = i + WORD
    BY <2>1, ToUintIs
  <2> QED BY <2>1, <2>2, Half DEF Wrap, ToInt
<1> QED BY <1>1, <1>2, <1>3

-----------------------------------------------------------------------------
(* The screen.                                                             *)

Screen == CellsOf(On)

LEMMA AtOn ==
  ASSUME Mode(mode), NEW p \in On
  PROVE  /\ p[1] \in Uint /\ p[2] \in Uint
         /\ p[1] < fb_w /\ p[2] < fb_h
         /\ At(p) = p[2] * fb_pitch_pixels + p[1]
<1>1. p[1] \in Uint /\ p[2] \in Uint /\ p[1] < fb_w /\ p[2] < fb_h
  BY VbeAssumption DEF Mode, On, fb_w, fb_h, Uint
<1> QED BY <1>1, ToUintSame DEF At

(* Different points have different cells.                                  *)
LEMMA AtInjective ==
  ASSUME Mode(mode), NEW p \in On, NEW q \in On, At(p) = At(q)
  PROVE  p = q
<1> DEFINE m == fb_pitch_pixels
<1>1. /\ p[1] \in Nat /\ p[2] \in Nat /\ q[1] \in Nat /\ q[2] \in Nat
      /\ m \in Nat /\ p[1] < m /\ q[1] < m
      /\ p = <<p[1], p[2]>> /\ q = <<q[1], q[2]>>
  BY DEF On, Mode, fb_w, fb_h, fb_pitch_pixels
<1> HIDE DEF m
<1>2. p[2] * m + p[1] = q[2] * m + q[1]
  BY AtOn DEF m
<1>3. ASSUME p[2] < q[2]
      PROVE  FALSE
  <2>1. (p[2] + 1) * m <= q[2] * m
    BY <1>1, <1>3
  <2> QED BY <1>1, <1>2, <2>1
<1>4. ASSUME q[2] < p[2]
      PROVE  FALSE
  <2>1. (q[2] + 1) * m <= p[2] * m
    BY <1>1, <1>4
  <2> QED BY <1>1, <1>2, <2>1
<1>5. p[2] = q[2]
  BY <1>1, <1>3, <1>4
<1>6. p[1] = q[1]
  <2> DEFINE k == p[2] * m
  <2>1. k \in Int /\ k + p[1] = k + q[1]
    BY <1>1, <1>2, <1>5
  <2> HIDE DEF k
  <2> QED BY <1>1, <2>1
<1> QED BY <1>1, <1>5, <1>6

(* What vbe_draw_pixel lets through is on the screen.                      *)
Folded(p) == <<ToUint(p[1]), ToUint(p[2])>>

LEMMA FoldedOn ==
  ASSUME Mode(mode), NEW p \in Int \X Int, ToUint(p[1]) < fb_w, ToUint(p[2]) < fb_h
  PROVE  Folded(p) \in On /\ At(Folded(p)) = At(p)
<1>1. ToUint(p[1]) \in Uint /\ ToUint(p[2]) \in Uint
  BY ToUintType
<1>2. Folded(p) \in On
  BY <1>1 DEF Folded, On, Uint, Mode, fb_w, fb_h
<1> QED BY <1>1, <1>2, ToUintSame DEF Folded, At

LEMMA VisibleOnScreen ==
  ASSUME Mode(mode), NEW points \in SUBSET (Int \X Int)
  PROVE  CellsOf(Visible(points)) \subseteq Screen
BY FoldedOn DEF Visible, CellsOf, Screen

LEMMA SameScreen ==
  ASSUME UNCHANGED mode
  PROVE  Screen' = Screen /\ On' = On /\ Cell' = Cell
BY DEF Screen, On, Cell, CellsOf, At, fb_w, fb_h, fb_pitch_pixels

-----------------------------------------------------------------------------
(* The state.                                                              *)

LineJob == [op : {"line"}, asked : Uint \X Uint \X Uint \X Uint, from : On, to : On,
            x : Int, y : Int, more : BOOLEAN, color : Color, err : Int]
Ints == {i \in Int : IsInt(i)}
CircleJob == [op : {"circle", "disc"}, cx : Ints, cy : Ints, r : Ints, x : Int, y : Nat,
              err : Int, color : Color]
StringJob == [op : {"string"}, x : Nat, cx : Nat, cy : Nat, text : Seq(DOMAIN Font \cup {NEWLINE}),
              fg : Color, bg : Color \cup {COLOR_TRANSPARENT}, placed : Seq(Nat \X Nat)]

JobOK ==
  /\ job.op \in {"idle", "done", "rect", "clear", "swap", "line", "circle", "disc", "string"}
  /\ job.op = "line" => job \in LineJob
  /\ job.op \in {"circle", "disc"} => job \in CircleJob
  /\ job.op = "string" => job \in StringJob

(* The types, the buffers', and that what a primitive has written is on    *)
(* the screen, vbe_clear apart.                                            *)
VInv ==
  /\ session \in Sessions /\ mode = session.mode
  /\ backbuffer \in [Cell -> Color] /\ lfb \in [Cell -> Color]
  /\ JobOK
  /\ job.op = "idle" => touched = {}
  /\ StaysOnScreen

LEMMA ModeOK == VInv => Mode(mode)
BY SessionsAssumption DEF VInv

LEMMA Arguments ==
  ASSUME VInv
  PROVE  /\ X \subseteq Uint /\ Y \subseteq Uint /\ Size \subseteq Uint
         /\ session.strings \subseteq Seq(DOMAIN Font \cup {NEWLINE})
         /\ Ink \in Color /\ Paper \in Color
BY SessionsAssumption DEF VInv, X, Y, Size, Uint

LEMMA InitV == Init => VInv
<1> SUFFICES ASSUME Init PROVE VInv
  OBVIOUS
<1>1. Paper \in Color
  BY SessionsAssumption
<1>2. job.op = "idle" /\ touched = {}
  BY DEF Init, VbeInit, Idle
<1> QED BY <1>1, <1>2 DEF Init, VbeInit, VInv, JobOK, StaysOnScreen

(* What is common to the steps of the primitives.                          *)
LEMMA Drawing ==
  ASSUME VInv, UNCHANGED <<mode, session>>, JobOK',
         backbuffer' \in [Cell -> Color], UNCHANGED lfb,
         job'.op # "idle", job.op # "clear",
         NEW cells \in SUBSET Screen, touched' \subseteq touched \cup cells
  PROVE  VInv'
<1>1. Screen' = Screen /\ Cell' = Cell
  BY SameScreen
<1>2. touched' \subseteq Screen
  BY DEF VInv, StaysOnScreen, Screen
<1>3. StaysOnScreen'
  BY <1>1, <1>2 DEF StaysOnScreen, Screen
<1> QED BY <1>1, <1>3 DEF VInv

LEMMA PutKeeps ==
  ASSUME VInv, NEW points, NEW color \in Color, Put(points, color)
  PROVE  /\ backbuffer' \in [Cell -> Color]
         /\ touched' = touched \cup CellsOf(points)
         /\ UNCHANGED lfb
BY DEF Put, VInv, CellsOf

LEMMA IdleStart ==
  ASSUME VInv, NEW j, Start(j)
  PROVE  job' = j /\ UNCHANGED mode /\ job.op = "idle" /\ touched = {}
BY DEF Start, VInv, Idle

-----------------------------------------------------------------------------
(* Whole spans.                                                            *)

LEMMA PixelKeeps ==
  ASSUME VInv, CallPixel
  PROVE  VInv'
<1>1. PICK x \in X, y \in Y : Pixel(x, y, Ink)
  BY DEF CallPixel
<1>2. job' = [op |-> "done"] /\ UNCHANGED <<mode, session>> /\ job.op = "idle"
  BY <1>1, IdleStart DEF Pixel, CallPixel, Calls
<1>3. {<<x, y>>} \in SUBSET (Int \X Int) /\ Ink \in Color
  BY Arguments, VbeAssumption DEF Uint
<1>4. CellsOf(Visible({<<x, y>>})) \in SUBSET Screen
  BY <1>3, VisibleOnScreen, ModeOK
<1>5. /\ backbuffer' \in [Cell -> Color] /\ UNCHANGED lfb
      /\ touched' = touched \cup CellsOf(Visible({<<x, y>>}))
  BY <1>1, <1>3, PutKeeps DEF Pixel
<1>6. JobOK'
  BY <1>2 DEF JobOK
<1> QED BY <1>2, <1>4, <1>5, <1>6, Drawing

(* The points of a rectangle, its ends where they are without wrapping.    *)
RectOf(x, y, w, h) == {p \in On : x <= p[1] /\ p[1] < x + w /\ y <= p[2] /\ p[2] < y + h}

LEMMA RectEndIs ==
  ASSUME NEW from \in Uint, NEW size \in Uint, NEW limit \in Uint, from < limit
  PROVE  RectEnd(from, size, limit) = IF from + size < limit THEN from + size ELSE limit
<1>1. WORD \in Nat /\ from \in Nat /\ size \in Nat /\ limit \in Nat
      /\ from < WORD /\ size < WORD /\ limit < WORD
  BY VbeAssumption DEF Uint
<1>2. CASE from + size < WORD
  <2>1. from + size + 0 * WORD \in Uint /\ from + size + 0 * WORD = from + size /\ from + size \in Int
    BY <1>1, <1>2 DEF Uint
  <2>2. ToUint(from + size) = from + size
    BY <2>1, ToUintIs
  <2> QED BY <1>1, <2>2 DEF RectEnd
<1>3. CASE from + size >= WORD
  <2>1. from + size + (-1) * WORD \in Uint /\ from + size + (-1) * WORD = from + size - WORD /\ from + size \in Int
    BY <1>1, <1>3 DEF Uint
  <2>2. ToUint(from + size) = from + size - WORD
    BY <2>1, ToUintIs
  <2> QED BY <1>1, <1>3, <2>2 DEF RectEnd
<1> QED BY <1>1, <1>2, <1>3

LEMMA RectPoints ==
  ASSUME Mode(mode), NEW x \in Uint, NEW y \in Uint, NEW w \in Uint, NEW h \in Uint
  PROVE  (IF x >= fb_w \/ y >= fb_h THEN {}
          ELSE (x .. RectEnd(x, w, fb_w) - 1) \X (y .. RectEnd(y, h, fb_h) - 1)) = RectOf(x, y, w, h)
<1>1. fb_w \in Uint /\ fb_h \in Uint
  BY VbeAssumption DEF Mode, fb_w, fb_h, Uint
<1>2. CASE x >= fb_w \/ y >= fb_h
  BY <1>1, <1>2 DEF RectOf, On, Uint
<1>3. CASE x < fb_w /\ y < fb_h
  BY <1>1, <1>3, RectEndIs DEF RectOf, On, Uint
<1> QED BY <1>1, <1>2, <1>3 DEF Uint

LEMMA RectKeeps ==
  ASSUME VInv, CallRect
  PROVE  VInv' /\ RectIsExact'
<1>1. PICK x \in X, y \in Y, w \in Size, h \in Size : vbe_fill_rect(x, y, w, h, Ink)
  BY DEF CallRect
<1>2. /\ job' = [op |-> "rect", x |-> x, y |-> y, w |-> w, h |-> h]
      /\ UNCHANGED <<mode, session>> /\ job.op = "idle" /\ touched = {}
  BY <1>1, IdleStart DEF vbe_fill_rect, CallRect, Calls
<1>3. x \in Uint /\ y \in Uint /\ w \in Uint /\ h \in Uint /\ Ink \in Color
  BY Arguments
<1>4. Put(RectOf(x, y, w, h), Ink)
  <2> DEFINE points == IF x >= fb_w \/ y >= fb_h THEN {}
                       ELSE (x .. RectEnd(x, w, fb_w) - 1) \X (y .. RectEnd(y, h, fb_h) - 1)
  <2>1. Put(points, Ink)
    BY <1>1 DEF vbe_fill_rect
  <2>2. points = RectOf(x, y, w, h)
    BY <1>3, RectPoints, ModeOK
  <2> HIDE DEF points
  <2> QED BY <2>1, <2>2
<1>5. CellsOf(RectOf(x, y, w, h)) \in SUBSET Screen
  BY DEF CellsOf, RectOf, Screen
<1>6. /\ backbuffer' \in [Cell -> Color] /\ UNCHANGED lfb
      /\ touched' = touched \cup CellsOf(RectOf(x, y, w, h))
  BY <1>3, <1>4, PutKeeps
<1>7. JobOK'
  BY <1>2 DEF JobOK
<1>8. VInv'
  BY <1>2, <1>5, <1>6, <1>7, Drawing
<1>9. RectIsExact'
  BY <1>2, <1>6, SameScreen DEF RectIsExact, Done, RectOf, CellsOf, At, fb_pitch_pixels
<1> QED BY <1>8, <1>9

(* An even number of pixels is a whole number of pairs.                    *)
LEMMA AllStored ==
  ASSUME Mode(mode), Pixels % 2 = 0, NEW c \in Cell
  PROVE  Stored(c)
<1>1. Pixels \in Nat
  BY DEF Mode, Pixels, fb_h, fb_pitch_pixels
<1>2. c < Pixels /\ c \in Nat
  BY <1>1 DEF Cell, Pixels
<1> QED BY <1>1, <1>2 DEF Stored, Quads

LEMMA ClearKeeps ==
  ASSUME VInv, CallClear
  PROVE  VInv' /\ FrameIsComplete'
<1>1. PICK c \in {Ink, Paper} : vbe_clear(c)
  BY DEF CallClear
<1>2. /\ job' = [op |-> "clear", color |-> c]
      /\ UNCHANGED <<mode, session, lfb>> /\ c \in Color
      /\ backbuffer' = [k \in Cell |-> IF Stored(k) THEN c ELSE backbuffer[k]]
  BY <1>1, IdleStart, Arguments DEF vbe_clear, CallClear, Calls
<1>3. backbuffer' \in [Cell -> Color]
  BY <1>2 DEF VInv
<1>4. JobOK'
  BY <1>2 DEF JobOK
<1>5. VInv'
  BY <1>2, <1>3, <1>4, SameScreen DEF VInv, StaysOnScreen
<1>6. Pixels' = Pixels
  BY <1>2 DEF Pixels, fb_h, fb_pitch_pixels
<1>7. ASSUME Pixels % 2 = 0
      PROVE  \A k \in Cell : backbuffer'[k] = c
  BY <1>2, <1>7, AllStored, ModeOK
<1>8. FrameIsComplete'
  BY <1>2, <1>6, <1>7, SameScreen DEF FrameIsComplete, Cleared, Shown
<1> QED BY <1>5, <1>8

LEMMA SwapKeeps ==
  ASSUME VInv, CallSwap
  PROVE  VInv' /\ FrameIsComplete'
<1>1. /\ job' = [op |-> "swap"] /\ job.op = "idle" /\ touched = {}
      /\ UNCHANGED <<mode, session, backbuffer, touched>>
      /\ lfb' = [k \in Cell |-> IF Stored(k) THEN backbuffer[k] ELSE lfb[k]]
  BY IdleStart DEF vbe_swap_buffers, CallSwap, Calls
<1>2. lfb' \in [Cell -> Color]
  BY <1>1 DEF VInv
<1>3. JobOK'
  BY <1>1 DEF JobOK
<1>4. VInv'
  BY <1>1, <1>2, <1>3, SameScreen DEF VInv, StaysOnScreen
<1>5. Pixels' = Pixels
  BY <1>1 DEF Pixels, fb_h, fb_pitch_pixels
<1>6. ASSUME Pixels % 2 = 0
      PROVE  lfb' = backbuffer
  BY <1>1, <1>6, AllStored, ModeOK DEF VInv
<1>7. FrameIsComplete'
  BY <1>1, <1>5, <1>6 DEF FrameIsComplete, Cleared, Shown
<1> QED BY <1>4, <1>7

-----------------------------------------------------------------------------
(* Text.                                                                   *)

(* Where a glyph is against the place of the next one.                     *)
Before(p, cx, cy) == p[2] + 10 <= cy \/ (p[2] = cy /\ p[1] + 8 <= cx)
TextInv ==
  job.op = "string" =>
    /\ \A i \in 1 .. Len(job.placed) : Before(job.placed[i], job.cx, job.cy)
    /\ TextIsReadable

LEMMA BeforeNextLine ==
  ASSUME NEW p \in Nat \X Nat, NEW a \in Nat, NEW b \in Nat, NEW k \in Nat, Before(p, a, b)
  PROVE  Before(p, k, b + 10) /\ p[2] < b + 10
BY DEF Before

LEMMA BeforeNextGlyph ==
  ASSUME NEW p \in Nat \X Nat, NEW a \in Nat, NEW b \in Nat, Before(p, a, b)
  PROVE  /\ Before(p, a + 8, b)
         /\ \/ p[2] + 10 <= b
            \/ p[2] = b /\ p[1] + 8 <= a
BY DEF Before

LEMMA StringStarts ==
  ASSUME VInv, CallString
  PROVE  VInv' /\ TextInv'
<1>1. PICK x \in X, y \in Y, t \in session.strings, bg \in {Paper, COLOR_TRANSPARENT} :
        vbe_draw_string(x, y, t, Ink, bg)
  BY DEF CallString
<1>2. x \in Nat /\ y \in Nat /\ t \in Seq(DOMAIN Font \cup {NEWLINE})
      /\ Ink \in Color /\ bg \in Color \cup {COLOR_TRANSPARENT}
  BY Arguments, VbeAssumption DEF Uint
<1> DEFINE s == [op |-> "string", x |-> x, cx |-> x, cy |-> y, text |-> t, fg |-> Ink, bg |-> bg,
                 placed |-> << >>]
           j == IF x >= fb_w \/ y >= fb_h THEN [op |-> "done"] ELSE s
<1>3. Start(j) /\ UNCHANGED <<backbuffer, lfb, touched, session>>
  BY <1>1 DEF vbe_draw_string, CallString, Calls
<1>4. s \in StringJob
  BY <1>2 DEF StringJob
<1>5. j = [op |-> "done"] \/ j = s
  OBVIOUS
<1> HIDE DEF j
<1>6. job' = j /\ UNCHANGED <<mode, session>> /\ job.op = "idle" /\ touched = {}
  BY <1>3, IdleStart
<1>7. CASE j = [op |-> "done"]
  <2>1. JobOK' /\ job'.op = "done"
    BY <1>6, <1>7 DEF JobOK
  <2>2. backbuffer' \in [Cell -> Color] /\ touched' \subseteq touched \cup {} /\ {} \in SUBSET Screen
    BY <1>3 DEF VInv
  <2>3. VInv'
    BY <1>3, <1>6, <2>1, <2>2, Drawing
  <2> QED BY <2>1, <2>3 DEF TextInv
<1>8. CASE j = s
  <2>1. job'.op = "string" /\ job'.placed = << >>
    BY <1>6, <1>8
  <2>2. JobOK'
    BY <1>4, <1>6, <1>8, <2>1 DEF JobOK, StringJob
  <2>3. backbuffer' \in [Cell -> Color] /\ touched' \subseteq touched \cup {} /\ {} \in SUBSET Screen
    BY <1>3 DEF VInv
  <2>4. VInv'
    BY <1>3, <1>6, <2>1, <2>2, <2>3, Drawing
  <2> QED BY <2>1, <2>4 DEF TextInv, TextIsReadable
<1> QED BY <1>5, <1>7, <1>8

LEMMA CharKeeps ==
  ASSUME VInv, NEW x \in Nat, NEW y \in Nat, NEW c \in DOMAIN Font,
         NEW fg \in Color, NEW bg \in Color \cup {COLOR_TRANSPARENT}, vbe_draw_char(x, y, c, fg, bg)
  PROVE  /\ backbuffer' \in [Cell -> Color] /\ UNCHANGED lfb
         /\ \E cells \in SUBSET Screen : touched' \subseteq touched \cup cells
<1> DEFINE ink == CellsOf(Visible(Glyph(x, y, c)))
           box == CellsOf(Visible(Box(x, y)))
<1>1. Glyph(x, y, c) \in SUBSET (Int \X Int)
  <2>1. Font[c] \subseteq (0 .. 7) \X (0 .. 7)
    BY VbeAssumption
  <2> QED BY <2>1 DEF Glyph
<1>2. Box(x, y) \in SUBSET (Int \X Int)
  BY DEF Box
<1>3. ink \in SUBSET Screen /\ box \in SUBSET Screen
  BY <1>1, <1>2, VisibleOnScreen, ModeOK
<1>4. /\ backbuffer' = [k \in Cell |-> IF k \in ink THEN fg
                                      ELSE IF k \in box /\ bg # COLOR_TRANSPARENT THEN bg
                                      ELSE backbuffer[k]]
      /\ touched' = touched \cup (IF bg = COLOR_TRANSPARENT THEN ink ELSE box)
      /\ UNCHANGED lfb
  BY DEF vbe_draw_char, CellsOf
<1> HIDE DEF ink, box
<1>5. backbuffer' \in [Cell -> Color]
  BY <1>4 DEF VInv
<1> QED BY <1>3, <1>4, <1>5

LEMMA StringKeeps ==
  ASSUME VInv, TextInv, StringStep, UNCHANGED <<mode, session>>
  PROVE  VInv' /\ TextInv'
<1>1. job.op = "string" /\ job \in StringJob /\ job.text # << >>
  BY DEF StringStep, VInv, JobOK
<1> DEFINE cx == IF Wraps(job) THEN job.x ELSE job.cx
           cy == IF Wraps(job) THEN job.cy + 10 ELSE job.cy
           c  == Head(job.text)
<1>2. cx \in Nat /\ cy \in Nat /\ c \in DOMAIN Font \cup {NEWLINE}
      /\ Tail(job.text) \in Seq(DOMAIN Font \cup {NEWLINE})
      /\ job.cx \in Nat /\ job.cy \in Nat /\ job.placed \in Seq(Nat \X Nat)
      /\ job.fg \in Color /\ job.bg \in Color \cup {COLOR_TRANSPARENT}
  BY <1>1 DEF StringJob
<1>3. \/ /\ job' = [job EXCEPT !.text = << >>]
         /\ UNCHANGED <<backbuffer, lfb, touched>>
      \/ /\ job' = [job EXCEPT !.text = Tail(@), !.cx = cx, !.cy = cy]
         /\ c = NEWLINE
         /\ UNCHANGED <<backbuffer, lfb, touched>>
      \/ /\ vbe_draw_char(cx, cy, c, job.fg, job.bg) /\ c # NEWLINE
         /\ job' = [job EXCEPT !.text = Tail(@), !.cx = cx + 8, !.cy = cy,
                               !.placed = Append(@, <<cx, cy>>)]
  BY DEF StringStep
<1>4. \/ cx = job.cx /\ cy = job.cy /\ cx + 8 <= fb_w /\ c # NEWLINE
      \/ cy = job.cy + 10
  <2>1. fb_w \in Nat
    BY ModeOK DEF Mode, fb_w
  <2> HIDE DEF fb_w
  <2> QED BY <1>2, <2>1 DEF Wraps
<1> HIDE DEF cx, cy, c
<1>5. ASSUME NEW j \in StringJob, job' = j, j.op = "string",
             backbuffer' \in [Cell -> Color], UNCHANGED lfb,
             NEW cells \in SUBSET Screen, touched' \subseteq touched \cup cells
      PROVE  VInv'
  <2>1. JobOK'
    BY <1>5 DEF JobOK, StringJob
  <2> QED BY <1>1, <1>5, <2>1, Drawing
<1>6. CASE job' = [job EXCEPT !.text = << >>] /\ UNCHANGED <<backbuffer, lfb, touched>>
  <2>1. job' \in StringJob /\ job'.op = "string"
        /\ job'.cx = job.cx /\ job'.cy = job.cy /\ job'.placed = job.placed
    <3>1. << >> \in Seq(DOMAIN Font \cup {NEWLINE})
      OBVIOUS
    <3> QED BY <1>1, <1>6, <3>1 DEF StringJob
  <2>2. VInv'
    BY <1>5, <1>6, <2>1 DEF VInv
  <2>3. TextInv'
    BY <1>1, <2>1 DEF TextInv, TextIsReadable, fb_w
  <2> QED BY <2>2, <2>3
<1>7. CASE /\ job' = [job EXCEPT !.text = Tail(@), !.cx = cx, !.cy = cy]
           /\ c = NEWLINE /\ UNCHANGED <<backbuffer, lfb, touched>>
  <2>1. job' \in StringJob /\ job'.op = "string"
        /\ job'.cx = cx /\ job'.cy = cy /\ job'.placed = job.placed
    BY <1>1, <1>2, <1>7 DEF StringJob
  <2>2. VInv'
    BY <1>5, <1>7, <2>1 DEF VInv
  <2>3. cy = job.cy + 10
    BY <1>4, <1>7
  <2>4. ASSUME NEW i \in 1 .. Len(job.placed)
        PROVE  Before(job.placed[i], cx, cy)
    <3>1. job.placed[i] \in Nat \X Nat
      BY <1>2
    <3>2. Before(job.placed[i], job.cx, job.cy)
      BY <1>1 DEF TextInv
    <3> QED BY <1>2, <2>3, <3>1, <3>2, BeforeNextLine
  <2>5. TextInv'
    BY <1>1, <2>1, <2>4 DEF TextInv, TextIsReadable, fb_w
  <2> QED BY <2>2, <2>5
<1>8. CASE /\ vbe_draw_char(cx, cy, c, job.fg, job.bg) /\ c # NEWLINE
           /\ job' = [job EXCEPT !.text = Tail(@), !.cx = cx + 8, !.cy = cy,
                                 !.placed = Append(@, <<cx, cy>>)]
  <2> DEFINE p == job.placed  n == Len(p)  q == Append(p, <<cx, cy>>)
  <2>1. p \in Seq(Nat \X Nat) /\ n \in Nat /\ q \in Seq(Nat \X Nat) /\ Len(q) = n + 1
        /\ q[n + 1] = <<cx, cy>> /\ \A i \in 1 .. n : q[i] = p[i]
    BY <1>2
  <2>2. job' \in StringJob /\ job'.op = "string"
        /\ job'.cx = cx + 8 /\ job'.cy = cy /\ job'.placed = q
    <3>1. job' = [job EXCEPT !.text = Tail(job.text), !.cx = cx + 8, !.cy = cy, !.placed = q]
      BY <1>8
    <3> DEFINE t == Tail(job.text)
    <3>2. t \in Seq(DOMAIN Font \cup {NEWLINE})
      BY <1>2
    <3> HIDE DEF q, t
    <3>3. job' = [op |-> "string", x |-> job.x, cx |-> cx + 8, cy |-> cy, text |-> t,
                  fg |-> job.fg, bg |-> job.bg, placed |-> q]
      BY <1>1, <3>1 DEF StringJob, t
    <3>4. job.x \in Nat
      BY <1>1 DEF StringJob
    <3> QED BY <1>2, <2>1, <3>2, <3>3, <3>4 DEF StringJob
  <2>3. VInv'
    <3>1. c \in DOMAIN Font
      BY <1>2, <1>8
    <3>2. /\ backbuffer' \in [Cell -> Color] /\ UNCHANGED lfb
          /\ \E cells \in SUBSET Screen : touched' \subseteq touched \cup cells
      BY <1>2, <1>8, <3>1, CharKeeps
    <3> QED BY <1>5, <2>2, <3>2
  <2>4. \A i \in 1 .. n : p[i] \in Nat \X Nat /\ Before(p[i], job.cx, job.cy)
    BY <1>1, <2>1 DEF TextInv
  <2>9. \A i, k \in 1 .. n : i < k =>
          \/ p[i][2] + 10 <= p[k][2]
          \/ p[i][2] = p[k][2] /\ p[i][1] + 8 <= p[k][1] /\ p[k][1] + 8 <= fb_w
    BY <1>1 DEF TextInv, TextIsReadable
  <2> HIDE DEF p, n, q
  <2>5. ASSUME NEW i \in 1 .. n
        PROVE  Before(p[i], cx, cy) /\ (p[i][2] = cy => cx + 8 <= fb_w)
    <3>1. p[i] \in Nat \X Nat /\ Before(p[i], job.cx, job.cy)
      BY <2>4
    <3>2. cx \in Nat /\ cy \in Nat /\ job.cx \in Nat /\ job.cy \in Nat
      BY <1>2
    <3>3. CASE cx = job.cx /\ cy = job.cy /\ cx + 8 <= fb_w
      BY <3>1, <3>3
    <3>4. CASE cy = job.cy + 10
      <4>1. Before(p[i], cx, job.cy + 10) /\ p[i][2] < job.cy + 10
        BY <3>1, <3>2, BeforeNextLine
      <4>2. p[i][2] # cy
        <5>1. p[i][2] \in Nat
          BY <3>1
        <5> QED BY <3>2, <3>4, <4>1, <5>1
      <4> QED BY <3>4, <4>1, <4>2
    <3> QED BY <1>4, <3>3, <3>4
  <2>6. \A i \in 1 .. n + 1 : Before(q[i], cx + 8, cy)
    <3> SUFFICES ASSUME NEW i \in 1 .. n + 1 PROVE Before(q[i], cx + 8, cy)
      OBVIOUS
    <3>1. CASE i = n + 1
      BY <1>2, <2>1, <3>1 DEF Before
    <3>2. CASE i # n + 1
      <4>1. n \in Nat /\ \A m \in 1 .. n : q[m] = p[m]
        BY <2>1
      <4>2. i \in 1 .. n
        BY <3>2, <4>1
      <4>3. q[i] = p[i]
        BY <4>1, <4>2
      <4> QED BY <1>2, <2>4, <2>5, <4>2, <4>3, BeforeNextGlyph
    <3> QED BY <3>1, <3>2
  <2>7. \A i, k \in 1 .. n + 1 : i < k =>
          \/ q[i][2] + 10 <= q[k][2]
          \/ q[i][2] = q[k][2] /\ q[i][1] + 8 <= q[k][1] /\ q[k][1] + 8 <= fb_w
    <3> SUFFICES ASSUME NEW i \in 1 .. n + 1, NEW k \in 1 .. n + 1, i < k
                 PROVE  \/ q[i][2] + 10 <= q[k][2]
                        \/ q[i][2] = q[k][2] /\ q[i][1] + 8 <= q[k][1] /\ q[k][1] + 8 <= fb_w
      OBVIOUS
    <3>1. i \in 1 .. n /\ q[i] = p[i] /\ p[i] \in Nat \X Nat
      <4>1. n \in Nat /\ \A m \in 1 .. n : q[m] = p[m]
        BY <2>1
      <4>2. i \in 1 .. n
        BY <4>1
      <4> QED BY <2>4, <4>1, <4>2
    <3>2. CASE k = n + 1
      <4>1. Before(p[i], cx, cy) /\ (p[i][2] = cy => cx + 8 <= fb_w)
        BY <2>5, <3>1
      <4>2. q[k][1] = cx /\ q[k][2] = cy
        BY <2>1, <3>2
      <4> QED BY <1>2, <3>1, <4>1, <4>2, BeforeNextGlyph
    <3>3. CASE k # n + 1
      <4>1. n \in Nat /\ \A m \in 1 .. n : q[m] = p[m]
        BY <2>1
      <4>2. k \in 1 .. n
        BY <3>3, <4>1
      <4>3. q[k] = p[k]
        BY <4>1, <4>2
      <4> QED BY <2>9, <3>1, <4>2, <4>3
    <3> QED BY <3>2, <3>3
  <2>8. TextInv'
    BY <2>1, <2>2, <2>6, <2>7 DEF TextInv, TextIsReadable, fb_w
  <2> QED BY <2>3, <2>8
<1> QED BY <1>3, <1>6, <1>7, <1>8

-----------------------------------------------------------------------------
(* Lines.                                                                  *)

(* One turn in numbers: a is the longer way, b the shorter, i and j the    *)
(* parts of them that are done.  The longer one goes on at each turn, the  *)
(* shorter one when that brings the point nearer to the line.              *)
LEMMA Turn ==
  ASSUME NEW a \in Nat, NEW b \in Nat, b <= a,
         NEW i \in 0 .. a, NEW j \in 0 .. b, i # a \/ j # b,
         -a <= 2 * (a * j - b * i), 2 * (a * j - b * i) <= a,
         NEW e \in Int, e = a - b + (a * j - b * i)
  PROVE  /\ i < a
         /\ 2 * e > -b
         /\ 2 * e < a => /\ j < b
                         /\ -a <= 2 * (a * (j + 1) - b * (i + 1))
                         /\ 2 * (a * (j + 1) - b * (i + 1)) <= a
         /\ ~(2 * e < a) => /\ -a <= 2 * (a * j - b * (i + 1))
                            /\ 2 * (a * j - b * (i + 1)) <= a
<1>1. i < a
  <2> SUFFICES ASSUME i = a PROVE FALSE
    OBVIOUS
  <2>1. j <= b - 1
    OBVIOUS
  <2>2. a * j <= a * (b - 1) /\ a * (b - 1) = a * b - a /\ a * b = b * a
    BY <2>1
  <2>3. a * j - b * i <= -a
    BY <2>2
  <2>4. a = 0
    <3> DEFINE d == a * j - b * i
    <3>1. d \in Int /\ -a <= 2 * d /\ d <= -a
      BY <2>3
    <3> HIDE DEF d
    <3> QED BY <3>1
  <2> QED BY <2>4
<1> DEFINE A == a * j  B == b * i
<1>2. A \in Nat /\ B \in Nat /\ a * (j + 1) = A + a /\ b * (i + 1) = B + b
      /\ e = a - b + (A - B) /\ -a <= 2 * (A - B) /\ 2 * (A - B) <= a
  OBVIOUS
<1>3. 2 * e > -b
  <2>1. CASE b < a
    <3> HIDE DEF A, B
    <3> QED BY <1>2, <2>1
  <2>2. CASE b = a
    <3>1. A - B = a * (j - i)
      BY <2>2
    <3>2. CASE j - i >= 1
      <4>1. a * (j - i) >= a
        BY <3>2
      <4> HIDE DEF A, B
      <4> QED BY <1>1, <1>2, <2>2, <3>1, <4>1
    <3>3. CASE j - i <= -1
      <4>1. a * (j - i) <= -a
        BY <3>3
      <4> HIDE DEF A, B
      <4> QED BY <1>1, <1>2, <2>2, <3>1, <4>1
    <3>4. CASE j = i
      <4>1. A - B = 0
        BY <3>1, <3>4
      <4> HIDE DEF A, B
      <4> QED BY <1>1, <1>2, <2>2, <4>1
    <3> QED BY <3>2, <3>3, <3>4
  <2> QED BY <2>1, <2>2
<1>4. 2 * e < a => j < b
  <2> SUFFICES ASSUME 2 * e < a, j = b PROVE FALSE
    OBVIOUS
  <2>1. b * i <= b * (a - 1) /\ b * (a - 1) = a * b - b
    BY <1>1
  <2>2. B <= A - b
    BY <2>1
  <2> HIDE DEF A, B
  <2> QED BY <1>1, <1>2, <2>2
<1> HIDE DEF A, B
<1> QED BY <1>1, <1>2, <1>3, <1>4

(* On one axis: the way from f to t and the part of it up to p.            *)
Between(f, t, p) == (f <= p /\ p <= t) \/ (t <= p /\ p <= f)
Sign(f, t) == IF f < t THEN 1 ELSE -1

LEMMA Axis ==
  ASSUME NEW f \in Int, NEW t \in Int, NEW p \in Int, Between(f, t, p)
  PROVE  /\ Apart(f, t) \in Nat /\ Apart(f, p) \in 0 .. Apart(f, t)
         /\ Apart(f, p) = Apart(f, t) <=> p = t
         /\ Apart(f, p) < Apart(f, t) => /\ p + Sign(f, t) \in Int
                                         /\ Between(f, t, p + Sign(f, t))
                                         /\ Apart(f, p + Sign(f, t)) = Apart(f, p) + 1
BY DEF Between, Sign, Apart

(* In the plane.                                                           *)
Far(f, t, k) == Apart(f[k], t[k])
Longer(f, t) == IF Far(f, t, 1) >= Far(f, t, 2) THEN Far(f, t, 1) ELSE Far(f, t, 2)
Gone(f, t, p) == IF Far(f, t, 1) >= Far(f, t, 2) THEN Far(f, p, 1) ELSE Far(f, p, 2)
Aside(f, t, p) == Far(f, t, 1) * Far(f, p, 2) - Far(f, t, 2) * Far(f, p, 1)
Near(f, t, p) ==
  /\ Between(f[1], t[1], p[1]) /\ Between(f[2], t[2], p[2])
  /\ -Longer(f, t) <= 2 * Aside(f, t, p) /\ 2 * Aside(f, t, p) <= Longer(f, t)
ErrOf(f, t, p) == Far(f, t, 1) - Far(f, t, 2) + Aside(f, t, p)

(* The loop's decisions, and where they lead.                              *)
Across(f, t, e) == 2 * e > -Far(f, t, 2)
Along(f, t, e)  == 2 * e < Far(f, t, 1)
NextX(f, t, p, e) == IF Across(f, t, e) THEN p[1] + Sign(f[1], t[1]) ELSE p[1]
NextY(f, t, p, e) == IF Along(f, t, e) THEN p[2] + Sign(f[2], t[2]) ELSE p[2]
NextErr(f, t, e) == e - (IF Across(f, t, e) THEN Far(f, t, 2) ELSE 0)
                      + (IF Along(f, t, e) THEN Far(f, t, 1) ELSE 0)

LEMMA PathStep ==
  ASSUME NEW f \in Int \X Int, NEW t \in Int \X Int, NEW p \in Int \X Int,
         Near(f, t, p), p # t, NEW e \in Int, e = ErrOf(f, t, p),
         NEW q \in Int \X Int, q = <<NextX(f, t, p, e), NextY(f, t, p, e)>>
  PROVE  /\ Near(f, t, q)
         /\ Gone(f, t, q) = Gone(f, t, p) + 1 /\ Gone(f, t, p) < Longer(f, t)
         /\ NextErr(f, t, e) = ErrOf(f, t, q)
<1> DEFINE dx == Far(f, t, 1)  dy == Far(f, t, 2)  i == Far(f, p, 1)  j == Far(f, p, 2)
           k == Far(f, q, 1)  l == Far(f, q, 2)
<1>1. f[1] \in Int /\ f[2] \in Int /\ t[1] \in Int /\ t[2] \in Int /\ p[1] \in Int /\ p[2] \in Int
      /\ p = <<p[1], p[2]>> /\ t = <<t[1], t[2]>>
  OBVIOUS
<1>2. Between(f[1], t[1], p[1]) /\ Between(f[2], t[2], p[2])
  BY DEF Near
<1>3. /\ dx \in Nat /\ i \in 0 .. dx /\ (i = dx <=> p[1] = t[1])
      /\ dy \in Nat /\ j \in 0 .. dy /\ (j = dy <=> p[2] = t[2])
  BY <1>1, <1>2, Axis DEF Far
<1>4. i # dx \/ j # dy
  BY <1>1, <1>3
<1>5. /\ q[1] = NextX(f, t, p, e) /\ q[2] = NextY(f, t, p, e)
  OBVIOUS
<1>6. /\ i < dx /\ Across(f, t, e) => Between(f[1], t[1], q[1]) /\ k = i + 1
      /\ ~Across(f, t, e) => Between(f[1], t[1], q[1]) /\ k = i
  BY <1>1, <1>2, <1>5, Axis DEF NextX, Far
<1>7. /\ j < dy /\ Along(f, t, e) => Between(f[2], t[2], q[2]) /\ l = j + 1
      /\ ~Along(f, t, e) => Between(f[2], t[2], q[2]) /\ l = j
  BY <1>1, <1>2, <1>5, Axis DEF NextY, Far
<1>8. Aside(f, t, p) = dx * j - dy * i /\ Aside(f, t, q) = dx * l - dy * k
  BY DEF Aside
<1>9. e = dx - dy + (dx * j - dy * i)
  BY <1>8 DEF ErrOf
<1>10. /\ Across(f, t, e) <=> 2 * e > -dy
       /\ Along(f, t, e) <=> 2 * e < dx
       /\ NextErr(f, t, e) = e - (IF Across(f, t, e) THEN dy ELSE 0) + (IF Along(f, t, e) THEN dx ELSE 0)
       /\ ErrOf(f, t, q) = dx - dy + (dx * l - dy * k)
  BY <1>8 DEF Across, Along, NextErr, ErrOf
<1>11. /\ Longer(f, t) = (IF dx >= dy THEN dx ELSE dy)
       /\ Gone(f, t, p) = (IF dx >= dy THEN i ELSE j)
       /\ Gone(f, t, q) = (IF dx >= dy THEN k ELSE l)
  BY DEF Longer, Gone
<1>12. -Longer(f, t) <= 2 * (dx * j - dy * i) /\ 2 * (dx * j - dy * i) <= Longer(f, t)
  BY <1>8 DEF Near
<1>13. dx * (j + 1) = dx * j + dx /\ dy * (i + 1) = dy * i + dy
       /\ dx * j \in Int /\ dy * i \in Int
  BY <1>3
<1> HIDE DEF dx, dy, i, j, k, l
<1>14. CASE dx >= dy
  <2>1. /\ i < dx /\ Across(f, t, e)
        /\ Along(f, t, e) => /\ j < dy
                             /\ -dx <= 2 * (dx * (j + 1) - dy * (i + 1))
                             /\ 2 * (dx * (j + 1) - dy * (i + 1)) <= dx
        /\ ~Along(f, t, e) => /\ -dx <= 2 * (dx * j - dy * (i + 1))
                              /\ 2 * (dx * j - dy * (i + 1)) <= dx
    BY <1>3, <1>4, <1>9, <1>10, <1>11, <1>12, <1>14, Turn
  <2>2. Between(f[1], t[1], q[1]) /\ k = i + 1
    BY <1>6, <2>1
  <2>3. CASE Along(f, t, e)
    <3>1. Between(f[2], t[2], q[2]) /\ l = j + 1
      BY <1>7, <2>1, <2>3
    <3>2. Near(f, t, q)
      BY <1>8, <1>11, <1>14, <2>1, <2>2, <2>3, <3>1 DEF Near
    <3>3. NextErr(f, t, e) = ErrOf(f, t, q)
      BY <1>3, <1>9, <1>10, <1>13, <2>1, <2>2, <2>3, <3>1
    <3> QED BY <1>11, <1>14, <2>1, <2>2, <3>2, <3>3
  <2>4. CASE ~Along(f, t, e)
    <3>1. Between(f[2], t[2], q[2]) /\ l = j
      BY <1>7, <2>4
    <3>2. Near(f, t, q)
      BY <1>8, <1>11, <1>14, <2>1, <2>2, <2>4, <3>1 DEF Near
    <3>3. NextErr(f, t, e) = ErrOf(f, t, q)
      BY <1>3, <1>9, <1>10, <1>13, <2>1, <2>2, <2>4, <3>1
    <3> QED BY <1>11, <1>14, <2>1, <2>2, <3>2, <3>3
  <2> QED BY <2>3, <2>4
<1>15. CASE dx < dy
  <2> DEFINE m == -e
  <2>1. m \in Int /\ m = dy - dx + (dy * i - dx * j)
        /\ -dy <= 2 * (dy * i - dx * j) /\ 2 * (dy * i - dx * j) <= dy
        /\ (Along(f, t, e) <=> 2 * m > -dx) /\ (Across(f, t, e) <=> 2 * m < dy)
    BY <1>3, <1>9, <1>10, <1>11, <1>12, <1>13, <1>15
  <2> HIDE DEF m
  <2>2. /\ j < dy /\ Along(f, t, e)
        /\ Across(f, t, e) => /\ i < dx
                              /\ -dy <= 2 * (dy * (i + 1) - dx * (j + 1))
                              /\ 2 * (dy * (i + 1) - dx * (j + 1)) <= dy
        /\ ~Across(f, t, e) => /\ -dy <= 2 * (dy * i - dx * (j + 1))
                               /\ 2 * (dy * i - dx * (j + 1)) <= dy
    BY <1>3, <1>4, <1>15, <2>1, Turn
  <2>3. Between(f[2], t[2], q[2]) /\ l = j + 1
    BY <1>7, <2>2
  <2>4. CASE Across(f, t, e)
    <3>1. Between(f[1], t[1], q[1]) /\ k = i + 1
      BY <1>6, <2>2, <2>4
    <3>2. -dy <= 2 * (dx * l - dy * k) /\ 2 * (dx * l - dy * k) <= dy
      BY <1>3, <1>13, <2>2, <2>3, <2>4, <3>1
    <3>3. Near(f, t, q)
      BY <1>8, <1>11, <1>15, <1>3, <2>3, <3>1, <3>2 DEF Near
    <3>4. NextErr(f, t, e) = ErrOf(f, t, q)
      BY <1>3, <1>9, <1>10, <1>13, <2>2, <2>3, <2>4, <3>1
    <3> QED BY <1>3, <1>11, <1>15, <2>2, <2>3, <3>3, <3>4
  <2>5. CASE ~Across(f, t, e)
    <3>1. Between(f[1], t[1], q[1]) /\ k = i
      BY <1>6, <2>5
    <3>2. -dy <= 2 * (dx * l - dy * k) /\ 2 * (dx * l - dy * k) <= dy
      BY <1>3, <1>13, <2>2, <2>3, <2>5, <3>1
    <3>3. Near(f, t, q)
      BY <1>8, <1>11, <1>15, <1>3, <2>3, <3>1, <3>2 DEF Near
    <3>4. NextErr(f, t, e) = ErrOf(f, t, q)
      BY <1>3, <1>9, <1>10, <1>13, <2>2, <2>3, <2>5, <3>1
    <3> QED BY <1>3, <1>11, <1>15, <2>2, <2>3, <3>3, <3>4
  <2> QED BY <2>4, <2>5
<1> QED BY <1>3, <1>14, <1>15

(* The ends asked for are brought to the nearest points of the screen.     *)
LEMMA EdgeNearest ==
  ASSUME NEW v \in Uint, NEW size \in Nat \ {0}, 4 * size < WORD
  PROVE  Edge(v, size) \in 0 .. size - 1 /\ Nearest(v, size) = Edge(v, size)
<1> DEFINE i == ToInt(v)  edge == Edge(v, size)
           Closest(n) == \A m \in 0 .. size - 1 : Apart(n, i) <= Apart(m, i)
<1>1. /\ edge \in 0 .. size - 1 /\ i \in Int
      /\ \/ edge = i
         \/ i < 0 /\ edge = 0
         \/ i >= size /\ edge = size - 1
  BY Half DEF Edge, ToInt, Uint
<1> HIDE DEF i, edge
<1>2. Closest(edge)
  BY <1>1 DEF Apart
<1>3. ASSUME NEW n \in 0 .. size - 1, Closest(n)
      PROVE  n = edge
  <2>1. Apart(n, i) <= Apart(edge, i)
    BY <1>1, <1>3
  <2> QED BY <1>1, <2>1 DEF Apart
<1>4. Nearest(v, size) = CHOOSE n \in 0 .. size - 1 : Closest(n)
  BY DEF Nearest, i
<1> HIDE DEF Closest
<1>5. Nearest(v, size) = edge
  BY <1>1, <1>2, <1>3, <1>4
<1> QED BY <1>1, <1>5 DEF edge

(* The points drawn so far lie along the line, one for each step of its    *)
(* longer way.                                                             *)
Drawn == {p \in On : At(p) \in touched}
Asked == /\ job.from = <<Edge(job.asked[1], fb_w), Edge(job.asked[2], fb_h)>>
         /\ job.to   = <<Edge(job.asked[3], fb_w), Edge(job.asked[4], fb_h)>>
         /\ fb_w > 0 /\ fb_h > 0
Path(f, t, p, more, drawn) ==
  /\ Near(f, t, p)
  /\ IsFiniteSet(drawn) /\ \A q \in drawn : Near(f, t, q)
  /\ more => /\ Cardinality(drawn) = Gone(f, t, p)
             /\ \A q \in drawn : Gone(f, t, q) < Gone(f, t, p)
             /\ p = f \/ f \in drawn
  /\ ~more => Cardinality(drawn) = Longer(f, t) + 1 /\ {f, t} \subseteq drawn
LineInv ==
  job.op = "line" =>
    /\ Asked
    /\ job.err = ErrOf(job.from, job.to, <<job.x, job.y>>)
    /\ Path(job.from, job.to, <<job.x, job.y>>, job.more, Drawn)

LEMMA PathStarts ==
  ASSUME NEW f \in Int \X Int, NEW t \in Int \X Int
  PROVE  Path(f, t, f, TRUE, {}) /\ ErrOf(f, t, f) = Far(f, t, 1) - Far(f, t, 2)
<1>1. /\ f[1] \in Int /\ f[2] \in Int /\ t[1] \in Int /\ t[2] \in Int
  OBVIOUS
<1>2. Far(f, f, 1) = 0 /\ Far(f, f, 2) = 0 /\ Far(f, t, 1) \in Nat /\ Far(f, t, 2) \in Nat
  BY <1>1 DEF Far, Apart
<1>3. Aside(f, t, f) = 0 /\ Gone(f, t, f) = 0 /\ Longer(f, t) \in Nat
  BY <1>2 DEF Aside, Gone, Longer
<1>4. Near(f, t, f)
  BY <1>1, <1>3 DEF Near, Between
<1>5. ErrOf(f, t, f) = Far(f, t, 1) - Far(f, t, 2)
  BY <1>2, <1>3 DEF ErrOf
<1> QED BY <1>3, <1>4, <1>5, FS_EmptySet DEF Path

Onward(f, t, p) == <<NextX(f, t, p, ErrOf(f, t, p)), NextY(f, t, p, ErrOf(f, t, p))>>

LEMMA PathOnward ==
  ASSUME NEW f \in Int \X Int, NEW t \in Int \X Int, NEW p \in Int \X Int,
         NEW drawn \in SUBSET (Int \X Int), Path(f, t, p, TRUE, drawn), p # t,
         ErrOf(f, t, p) \in Int, Onward(f, t, p) \in Int \X Int
  PROVE  /\ Path(f, t, Onward(f, t, p), TRUE, drawn \cup {p})
         /\ NextErr(f, t, ErrOf(f, t, p)) = ErrOf(f, t, Onward(f, t, p))
<1> DEFINE e == ErrOf(f, t, p)  q == Onward(f, t, p)
<1>0. e \in Int /\ e = ErrOf(f, t, p) /\ q \in Int \X Int /\ q = <<NextX(f, t, p, e), NextY(f, t, p, e)>>
  BY DEF Onward
<1> HIDE DEF e, q
<1>1. /\ Near(f, t, p) /\ IsFiniteSet(drawn) /\ Cardinality(drawn) = Gone(f, t, p)
      /\ \A d \in drawn : Near(f, t, d) /\ Gone(f, t, d) < Gone(f, t, p)
      /\ p = f \/ f \in drawn
  BY DEF Path
<1>2. /\ Near(f, t, q) /\ Gone(f, t, q) = Gone(f, t, p) + 1
      /\ NextErr(f, t, e) = ErrOf(f, t, q)
  BY <1>0, <1>1, PathStep
<1>3. Gone(f, t, p) \in Nat
  BY <1>1, FS_CardinalityType
<1>4. p \notin drawn
  BY <1>1, <1>3
<1>5. IsFiniteSet(drawn \cup {p}) /\ Cardinality(drawn \cup {p}) = Gone(f, t, p) + 1
  BY <1>1, <1>4, FS_AddElement
<1>6. ASSUME NEW d \in drawn \cup {p}
      PROVE  Near(f, t, d) /\ Gone(f, t, d) < Gone(f, t, q)
  <2>1. CASE d = p
    BY <1>1, <1>2, <1>3, <2>1
  <2>2. CASE d \in drawn
    <3>1. Near(f, t, d) /\ Gone(f, t, d) < Gone(f, t, p)
      BY <1>1, <2>2
    <3>2. Gone(f, t, d) \in Int
      <4>1. f[1] \in Int /\ f[2] \in Int /\ d[1] \in Int /\ d[2] \in Int
        BY <2>2
      <4>2. Far(f, d, 1) \in Int /\ Far(f, d, 2) \in Int
        BY <4>1 DEF Far, Apart
      <4> QED BY <4>2 DEF Gone
    <3> QED BY <1>2, <1>3, <3>1, <3>2
  <2> QED BY <2>1, <2>2
<1>7. Path(f, t, q, TRUE, drawn \cup {p})
  BY <1>1, <1>2, <1>5, <1>6 DEF Path
<1> QED BY <1>0, <1>2, <1>7 DEF q

LEMMA PathEnds ==
  ASSUME NEW f \in Int \X Int, NEW t \in Int \X Int, NEW drawn, Path(f, t, t, TRUE, drawn)
  PROVE  Path(f, t, t, FALSE, drawn \cup {t})
<1>1. /\ Near(f, t, t) /\ IsFiniteSet(drawn) /\ Cardinality(drawn) = Gone(f, t, t)
      /\ \A d \in drawn : Near(f, t, d) /\ Gone(f, t, d) < Gone(f, t, t)
      /\ t = f \/ f \in drawn
  BY DEF Path
<1>2. Gone(f, t, t) = Longer(f, t) /\ Gone(f, t, t) \in Nat
  BY <1>1, FS_CardinalityType DEF Gone, Longer
<1>3. t \notin drawn
  BY <1>1, <1>2
<1>4. IsFiniteSet(drawn \cup {t}) /\ Cardinality(drawn \cup {t}) = Longer(f, t) + 1
  BY <1>1, <1>2, <1>3, FS_AddElement
<1> QED BY <1>1, <1>4 DEF Path

(* Turning a point on the screen into its cell and back.                   *)
LEMMA DrawnOne ==
  ASSUME VInv, NEW p \in On, UNCHANGED mode, touched' = touched \cup CellsOf(Visible({p}))
  PROVE  Drawn' = Drawn \cup {p} /\ CellsOf(Visible({p})) \in SUBSET Screen
<1>1. Mode(mode)
  BY ModeOK
<1>2. Visible({p}) = {p}
  BY <1>1, AtOn, ToUintSame DEF Visible
<1>3. CellsOf({p}) = {At(p)}
  BY DEF CellsOf
<1>4. \A q \in On : At(q) = At(p) => q = p
  BY <1>1, AtInjective
<1>5. On' = On /\ \A q \in On : At(q)' = At(q)
  BY SameScreen DEF At, fb_pitch_pixels
<1>6. Drawn' = {q \in On : At(q) \in touched'}
  BY <1>5 DEF Drawn, At, fb_pitch_pixels
<1>7. At(p) \in Screen
  BY DEF Screen, CellsOf
<1>8. touched' = touched \cup {At(p)}
  BY <1>2, <1>3
<1>9. Drawn' = Drawn \cup {p}
  <2>1. ASSUME NEW q \in On
        PROVE  At(q) \in touched' <=> At(q) \in touched \/ q = p
    BY <1>4, <1>8
  <2> QED BY <1>6, <2>1 DEF Drawn
<1>10. CellsOf(Visible({p})) \in SUBSET Screen
  BY <1>2, <1>3, <1>7
<1> QED BY <1>9, <1>10

LEMMA NearOn ==
  ASSUME NEW f \in On, NEW t \in On, NEW p \in Int \X Int, Mode(mode), Near(f, t, p)
  PROVE  p \in On
<1>1. /\ f[1] \in 0 .. fb_w - 1 /\ f[2] \in 0 .. fb_h - 1
      /\ t[1] \in 0 .. fb_w - 1 /\ t[2] \in 0 .. fb_h - 1
      /\ fb_w \in Nat /\ fb_h \in Nat
      /\ p[1] \in Int /\ p[2] \in Int /\ p = <<p[1], p[2]>>
  BY DEF On, Mode, fb_w, fb_h
<1>2. p[1] \in 0 .. fb_w - 1 /\ p[2] \in 0 .. fb_h - 1
  BY <1>1 DEF Near, Between
<1> QED BY <1>1, <1>2 DEF On

LEMMA LineStarts ==
  ASSUME VInv, CallLine
  PROVE  VInv' /\ LineInv'
<1>1. PICK x \in X, u \in X, y \in Y, v \in Y : vbe_draw_line(x, y, u, v, Ink)
  BY DEF CallLine
<1>2. x \in Uint /\ u \in Uint /\ y \in Uint /\ v \in Uint /\ Ink \in Color
  BY Arguments
<1> DEFINE f == <<Edge(x, fb_w), Edge(y, fb_h)>>  t == <<Edge(u, fb_w), Edge(v, fb_h)>>
           e == Apart(f[1], t[1]) - Apart(f[2], t[2])
           s == [op |-> "line", asked |-> <<x, y, u, v>>, from |-> f, to |-> t,
                 x |-> f[1], y |-> f[2], more |-> TRUE, color |-> Ink, err |-> e]
           none == fb_w = 0 \/ fb_h = 0
           j == IF none THEN [op |-> "done"] ELSE s
<1>3. Start(j) /\ UNCHANGED <<backbuffer, lfb, touched, session>>
  BY <1>1 DEF vbe_draw_line, CallLine, Calls
<1> HIDE DEF j
<1>4. job' = j /\ UNCHANGED <<mode, session>> /\ job.op = "idle" /\ touched = {}
  BY <1>3, IdleStart
<1>5. backbuffer' \in [Cell -> Color] /\ touched' \subseteq touched \cup {} /\ {} \in SUBSET Screen
  BY <1>3 DEF VInv
<1>6. CASE none
  <2>1. job' = [op |-> "done"]
    BY <1>4, <1>6 DEF j
  <2>2. JobOK' /\ job'.op = "done"
    BY <2>1 DEF JobOK
  <2>3. VInv'
    BY <1>3, <1>4, <1>5, <2>2, Drawing
  <2> QED BY <2>2, <2>3 DEF LineInv
<1>7. CASE ~none
  <2>1. fb_w \in Nat \ {0} /\ fb_h \in Nat \ {0} /\ 4 * fb_w < WORD /\ 4 * fb_h < WORD
    BY <1>7, ModeOK DEF Mode, fb_w, fb_h
  <2>2. f \in On /\ t \in On
    BY <1>2, <2>1, EdgeNearest DEF On
  <2>3. /\ f \in Int \X Int /\ t \in Int \X Int /\ f = <<f[1], f[2]>>
        /\ f[1] \in Int /\ f[2] \in Int /\ t[1] \in Int /\ t[2] \in Int
    BY <2>2 DEF On
  <2>4. e \in Int /\ e = Far(f, t, 1) - Far(f, t, 2)
    BY <2>3 DEF Apart, Far
  <2>5. job' = s
    BY <1>4, <1>7 DEF j
  <2> HIDE DEF e, f, t
  <2>6. s \in LineJob
    BY <1>2, <2>2, <2>3, <2>4 DEF LineJob
  <2>7. JobOK' /\ job'.op = "line"
    BY <1>4, <2>5, <2>6, SameScreen DEF JobOK, LineJob
  <2>8. VInv'
    BY <1>3, <1>4, <1>5, <2>7, Drawing
  <2>9. Drawn' = {}
    BY <1>3, <1>4 DEF Drawn
  <2>10. Asked'
    BY <1>4, <2>1, <2>5 DEF Asked, fb_w, fb_h, f, t
  <2>11. job'.err = ErrOf(f, t, f) /\ Path(f, t, f, TRUE, {})
    BY <2>3, <2>4, <2>5, PathStarts
  <2>12. job'.from = f /\ job'.to = t /\ <<job'.x, job'.y>> = f /\ job'.more = TRUE
    BY <2>3, <2>5
  <2> QED BY <2>8, <2>9, <2>10, <2>11, <2>12 DEF LineInv
<1> QED BY <1>6, <1>7

LEMMA LineKeeps ==
  ASSUME VInv, LineInv, LineStep, UNCHANGED <<mode, session>>
  PROVE  VInv' /\ LineInv'
<1> DEFINE f == job.from  t == job.to  p == <<job.x, job.y>>  e == job.err
           q == <<NextX(f, t, p, e), NextY(f, t, p, e)>>
<1>1. job.op = "line" /\ job.more /\ job \in LineJob
  BY DEF LineStep, VInv, JobOK
<1>2. /\ f \in On /\ t \in On /\ f \in Int \X Int /\ t \in Int \X Int
      /\ p \in Int \X Int /\ p[1] = job.x /\ p[2] = job.y /\ e \in Int /\ job.color \in Color
  BY <1>1 DEF LineJob, On
<1>3. Asked /\ e = ErrOf(f, t, p) /\ Path(f, t, p, TRUE, Drawn)
  BY <1>1 DEF LineInv, LineJob
<1>4. p \in On
  BY <1>2, <1>3, NearOn, ModeOK DEF Path
<1>5. /\ backbuffer' \in [Cell -> Color] /\ UNCHANGED lfb
      /\ touched' = touched \cup CellsOf(Visible({p}))
  BY <1>1, <1>2, PutKeeps DEF LineStep
<1>6. Drawn' = Drawn \cup {p} /\ CellsOf(Visible({p})) \in SUBSET Screen
  BY <1>4, <1>5, DrawnOne
<1>7. Drawn \in SUBSET (Int \X Int)
  BY DEF Drawn, On
<1>8. Across(f, t, e) <=> 2 * job.err > -Apart(job.from[2], job.to[2])
  BY DEF Across, Far
<1>9. Along(f, t, e) <=> 2 * job.err < Apart(job.from[1], job.to[1])
  BY DEF Along, Far
<1>10. job' = IF p = t THEN [job EXCEPT !.more = FALSE]
              ELSE [job EXCEPT !.x = q[1], !.y = q[2], !.err = NextErr(f, t, e)]
  BY <1>1, <1>2, <1>8, <1>9 DEF LineStep, NextX, NextY, NextErr, Ahead, Sign, Far
<1>11. /\ q \in Int \X Int /\ NextErr(f, t, e) \in Int /\ q = <<q[1], q[2]>>
  <2>1. Far(f, t, 1) \in Int /\ Far(f, t, 2) \in Int
    BY <1>2 DEF Far, Apart
  <2> QED BY <1>2, <2>1 DEF NextX, NextY, NextErr, Sign
<1>12. ASSUME NEW j \in LineJob, job' = j, j.from = f, j.to = t, j.asked = job.asked,
              j.err = ErrOf(f, t, <<j.x, j.y>>),
              Path(f, t, <<j.x, j.y>>, j.more, Drawn \cup {p})
       PROVE  VInv' /\ LineInv'
  <2>1. j.op = "line"
    BY <1>12 DEF LineJob
  <2>2. JobOK'
    BY <1>12, <2>1, SameScreen DEF JobOK, LineJob
  <2>3. VInv'
    BY <1>1, <1>5, <1>6, <1>12, <2>1, <2>2, Drawing
  <2>4. Asked'
    BY <1>3, <1>12 DEF Asked, fb_w, fb_h
  <2> QED BY <1>6, <1>12, <2>3, <2>4 DEF LineInv
<1> HIDE DEF f, t, p, e, q
<1>13. CASE p = t
  <2> DEFINE j == [job EXCEPT !.more = FALSE]
  <2>1. j \in LineJob /\ j.from = f /\ j.to = t /\ j.asked = job.asked /\ j.err = e
        /\ <<j.x, j.y>> = p /\ j.more = FALSE /\ job' = j
    BY <1>1, <1>10, <1>13 DEF LineJob, f, t, p, e
  <2>2. Path(f, t, p, FALSE, Drawn \cup {p})
    BY <1>2, <1>3, <1>13, PathEnds
  <2> HIDE DEF j
  <2> QED BY <1>3, <1>12, <2>1, <2>2
<1>14. CASE p # t
  <2> DEFINE n == NextErr(f, t, e)
             j == [op |-> "line", asked |-> job.asked, from |-> f, to |-> t, x |-> q[1], y |-> q[2],
                   more |-> TRUE, color |-> job.color, err |-> n]
  <2>1. n \in Int /\ job' = [job EXCEPT !.x = q[1], !.y = q[2], !.err = n]
    BY <1>10, <1>11, <1>14
  <2> HIDE DEF n
  <2>2. job' = j
    BY <1>1, <2>1 DEF LineJob, f, t
  <2>3. q[1] \in Int /\ q[2] \in Int /\ job.asked \in Uint \X Uint \X Uint \X Uint
    BY <1>1, <1>11 DEF LineJob
  <2>4. j \in LineJob
    BY <1>2, <2>1, <2>3 DEF LineJob
  <2>5. Path(f, t, q, TRUE, Drawn \cup {p}) /\ n = ErrOf(f, t, q)
    <3>1. q = <<NextX(f, t, p, e), NextY(f, t, p, e)>> /\ n = NextErr(f, t, e)
      BY DEF q, n
    <3>2. q \in Int \X Int
      BY <1>11
    <3> HIDE DEF n
    <3>3. e = ErrOf(f, t, p) /\ p \in Int \X Int /\ p # t /\ f \in Int \X Int /\ t \in Int \X Int
      BY <1>2, <1>3, <1>14
    <3>4. q = Onward(f, t, p) /\ NextErr(f, t, e) = NextErr(f, t, ErrOf(f, t, p))
      BY <3>1, <3>3 DEF Onward
    <3>5. Onward(f, t, p) \in Int \X Int /\ ErrOf(f, t, p) \in Int
      BY <1>2, <3>2, <3>3, <3>4
    <3>6. Path(f, t, Onward(f, t, p), TRUE, Drawn \cup {p})
      BY <1>3, <1>7, <3>3, <3>5, PathOnward
    <3>7. NextErr(f, t, ErrOf(f, t, p)) = ErrOf(f, t, Onward(f, t, p))
      BY <1>3, <1>7, <3>3, <3>5, PathOnward
    <3> QED BY <3>1, <3>4, <3>6, <3>7
  <2>6. j.from = f /\ j.to = t /\ j.asked = job.asked /\ j.err = n /\ <<j.x, j.y>> = q /\ j.more = TRUE
    BY <1>11
  <2> HIDE DEF j
  <2> QED BY <1>12, <2>2, <2>4, <2>5, <2>6
<1> QED BY <1>13, <1>14

LEMMA Signs ==
  ASSUME NEW a \in Int, NEW b \in Int
  PROVE  (-a) * b = -(a * b) /\ a * (-b) = -(a * b) /\ (-a) * (-b) = a * b /\ a * b \in Int
OBVIOUS

(* What the axes call apart is aside of the line, but for its sign.        *)
LEMMA AsideIs ==
  ASSUME NEW f \in Int \X Int, NEW t \in Int \X Int, NEW p \in Int \X Int, Near(f, t, p)
  PROVE  2 * Apart(0, (t[1] - f[1]) * (p[2] - f[2]) - (t[2] - f[2]) * (p[1] - f[1])) <= Longer(f, t)
<1> DEFINE dx == Far(f, t, 1)  dy == Far(f, t, 2)  i == Far(f, p, 1)  j == Far(f, p, 2)
           u == t[1] - f[1]  v == t[2] - f[2]  a == p[1] - f[1]  b == p[2] - f[2]
           A == dx * j  B == dy * i  U == u * b  V == v * a
<1>1. /\ f[1] \in Int /\ f[2] \in Int /\ t[1] \in Int /\ t[2] \in Int /\ p[1] \in Int /\ p[2] \in Int
      /\ Between(f[1], t[1], p[1]) /\ Between(f[2], t[2], p[2])
  BY DEF Near
<1>2. /\ dx \in Nat /\ i \in Nat /\ dy \in Nat /\ j \in Nat
      /\ u \in Int /\ v \in Int /\ a \in Int /\ b \in Int
      /\ (u = dx /\ a = i) \/ (u = -dx /\ a = -i)
      /\ (v = dy /\ b = j) \/ (v = -dy /\ b = -j)
  BY <1>1 DEF Far, Apart, Between
<1>3. -Longer(f, t) <= 2 * (A - B) /\ 2 * (A - B) <= Longer(f, t)
  BY DEF Near, Aside
<1>4. Longer(f, t) \in Int
  BY <1>2 DEF Longer
<1> HIDE DEF dx, dy, i, j, u, v, a, b
<1>5. A \in Int /\ B \in Int
  BY <1>2
<1>6. (U = A /\ V = B) \/ (U = -A /\ V = -B)
  <2>1. CASE u = dx /\ a = i /\ v = dy /\ b = j
    BY <2>1
  <2>2. CASE u = -dx /\ a = -i /\ v = dy /\ b = j
    BY <1>2, <2>2, Signs
  <2>3. CASE u = dx /\ a = i /\ v = -dy /\ b = -j
    BY <1>2, <2>3, Signs
  <2>4. CASE u = -dx /\ a = -i /\ v = -dy /\ b = -j
    BY <1>2, <2>4, Signs
  <2> QED BY <1>2, <2>1, <2>2, <2>3, <2>4
<1> HIDE DEF A, B, U, V
<1>7. 2 * Apart(0, U - V) <= Longer(f, t)
  BY <1>3, <1>4, <1>5, <1>6 DEF Apart
<1> QED BY <1>7 DEF U, V, u, v, a, b

LEMMA LineStraight ==
  ASSUME VInv, LineInv
  PROVE  LineIsStraight
<1> SUFFICES ASSUME job.op = "line", ~job.more PROVE LineIsStraight
  BY DEF LineIsStraight, Done, Finished
<1> DEFINE f == job.from  t == job.to
<1>1. job \in LineJob
  BY DEF VInv, JobOK
<1>2. /\ f \in Int \X Int /\ t \in Int \X Int
      /\ job.asked[1] \in Uint /\ job.asked[2] \in Uint /\ job.asked[3] \in Uint /\ job.asked[4] \in Uint
  BY <1>1 DEF LineJob, On
<1>3. /\ Asked /\ job.more = FALSE /\ \A q \in Drawn : Near(f, t, q)
      /\ Cardinality(Drawn) = Longer(f, t) + 1 /\ {f, t} \subseteq Drawn
  BY <1>1 DEF LineInv, Path, LineJob
<1>4. fb_w \in Nat \ {0} /\ fb_h \in Nat \ {0} /\ 4 * fb_w < WORD /\ 4 * fb_h < WORD
  BY <1>3, ModeOK DEF Mode, fb_w, fb_h, Asked
<1>5. /\ f = <<Nearest(job.asked[1], fb_w), Nearest(job.asked[2], fb_h)>>
      /\ t = <<Nearest(job.asked[3], fb_w), Nearest(job.asked[4], fb_h)>>
  BY <1>2, <1>3, <1>4, EdgeNearest DEF Asked
<1> DEFINE dx == t[1] - f[1]  dy == t[2] - f[2]
           longer == IF Apart(0, dx) > Apart(0, dy) THEN Apart(0, dx) ELSE Apart(0, dy)
<1>6. longer = Longer(f, t)
  <2>1. f[1] \in Int /\ f[2] \in Int /\ t[1] \in Int /\ t[2] \in Int
    BY <1>2
  <2> QED BY <2>1 DEF Longer, Far, Apart
<1>7. ASSUME NEW p \in Drawn
      PROVE  2 * Apart(0, dx * (p[2] - f[2]) - dy * (p[1] - f[1])) <= Longer(f, t)
  <2>1. p \in Int \X Int
    BY DEF Drawn, On
  <2>2. Near(f, t, p)
    BY <1>3
  <2> QED BY <1>2, <2>1, <2>2, AsideIs
<1>9. {f, t} \subseteq Drawn /\ Cardinality(Drawn) = Longer(f, t) + 1
  BY <1>3
<1> HIDE DEF longer, dx, dy, f, t
<1>8. \A p \in Drawn : 2 * Apart(0, dx * (p[2] - f[2]) - dy * (p[1] - f[1])) <= longer
  <2> SUFFICES ASSUME NEW p \in Drawn
               PROVE  2 * Apart(0, dx * (p[2] - f[2]) - dy * (p[1] - f[1])) <= longer
    OBVIOUS
  <2> QED BY <1>6, <1>7
<1>10. {f, t} \subseteq Drawn /\ Cardinality(Drawn) = longer + 1
  BY <1>6, <1>9
<1> QED BY <1>5, <1>8, <1>10 DEF LineIsStraight, Drawn, longer, dx, dy, f, t

-----------------------------------------------------------------------------
(* Circles.                                                                *)

(* What a turn starts from: err is the square of the distance from the     *)
(* centre less that of the radius, and two for every step along an axis.   *)
Rim(x, y, r, err) ==
  /\ x <= r /\ (y = 0 => x = r)
  /\ err = x * x + y * y - r * r + 2 * (y + r - x)
  /\ x = r => err >= 3 * y
  /\ x >= y => /\ -x <= err
               /\ err <= x - 1 \/ (x < r /\ y >= 1 /\ err <= 2 * y + 2 - x)

LEMMA RimStarts ==
  ASSUME NEW r \in Nat \ {0}
  PROVE  Rim(r, 0, r, 0)
BY DEF Rim

LEMMA RimNear ==
  ASSUME NEW x \in Int, NEW y \in Nat, NEW r \in Nat \ {0}, NEW err \in Int,
         Rim(x, y, r, err), x >= y
  PROVE  x * x + y * y >= r * r - 3 * r /\ x * x + y * y <= r * r + r
<1> DEFINE s == x * x + y * y  t == r * r
<1>1. s \in Int /\ t \in Int
  OBVIOUS
<1>2. s = t + err - 2 * (y + r - x)
  BY DEF Rim
<1> HIDE DEF s, t
<1>3. s >= t - 3 * r /\ s <= t + r
  BY <1>1, <1>2 DEF Rim
<1> QED BY <1>3 DEF s, t

LEMMA RimTurns ==
  ASSUME NEW x \in Int, NEW y \in Nat, NEW r \in Nat \ {0}, NEW err \in Int,
         Rim(x, y, r, err), x >= y, 16 * r < WORD,
         NEW e \in Int, e = err + 1 + 2 * (y + 1)
  PROVE  /\ IsInt(e) /\ IsInt(2 * (e - x) + 1)
         /\ 2 * (e - x) + 1 > 0 => /\ IsInt(e + 1 - 2 * (x - 1))
                                   /\ Rim(x - 1, y + 1, r, e + 1 - 2 * (x - 1))
         /\ ~(2 * (e - x) + 1 > 0) => Rim(x, y + 1, r, e)
<1> DEFINE h == WORD \div 2  s == x * x  t == y * y  u == r * r
           v == (x - 1) * (x - 1)  w == (y + 1) * (y + 1)  n == e + 1 - 2 * (x - 1)
<1>1. /\ s \in Int /\ t \in Int /\ u \in Int /\ v = s - 2 * x + 1 /\ w = t + 2 * y + 1
      /\ err = s + t - u + 2 * (y + r - x)
  BY DEF Rim
<1>2. h \in Int /\ 8 * r < h
  BY Half
<1> HIDE DEF h, s, t, u, v, w
<1>3. IsInt(e)
  BY <1>2 DEF Rim, IsInt, h
<1>4. IsInt(2 * (e - x) + 1)
  BY <1>2 DEF Rim, IsInt, h
<1>5. ASSUME 2 * (e - x) + 1 > 0
      PROVE  IsInt(n) /\ Rim(x - 1, y + 1, r, n)
  <2>1. IsInt(n)
    BY <1>2, <1>5 DEF Rim, IsInt, h
  <2>2. n = v + w - u + 2 * ((y + 1) + r - (x - 1))
    BY <1>1
  <2>3. /\ x - 1 <= r /\ (y + 1 = 0 => x - 1 = r)
        /\ x - 1 = r => n >= 3 * (y + 1)
        /\ x - 1 >= y + 1 => /\ -(x - 1) <= n
                             /\ x - 1 < r /\ y + 1 >= 1 /\ n <= 2 * (y + 1) + 2 - (x - 1)
    BY <1>5 DEF Rim
  <2> HIDE DEF n
  <2> QED BY <2>1, <2>2, <2>3 DEF Rim, u, v, w
<1>6. ASSUME ~(2 * (e - x) + 1 > 0)
      PROVE  Rim(x, y + 1, r, e)
  <2>1. e = s + w - u + 2 * ((y + 1) + r - x)
    BY <1>1
  <2>2. /\ x <= r /\ (y + 1 = 0 => x = r)
        /\ x = r => e >= 3 * (y + 1)
        /\ x >= y + 1 => -x <= e /\ e <= x - 1
    BY <1>6 DEF Rim
  <2> QED BY <2>1, <2>2 DEF Rim, u, s, w
<1> QED BY <1>3, <1>4, <1>5, <1>6

(* An int that is small as unsigned is not negative.                       *)
LEMMA SmallInt ==
  ASSUME NEW i \in Ints, NEW n \in Nat, 4 * n < WORD
  PROVE  ToUint(i) < n <=> 0 <= i /\ i < n
<1>1. WORD \div 2 \in Nat /\ WORD = 2 * (WORD \div 2) /\ i \in Int /\ IsInt(i)
  BY Half DEF Ints
<1>2. CASE i >= 0
  <2>1. i \in Uint
    BY <1>1, <1>2 DEF IsInt, Uint
  <2>2. ToUint(i) = i
    BY <2>1, ToUintSame
  <2> QED BY <1>1, <1>2, <2>2
<1>3. CASE i < 0
  <2>1. i + 1 * WORD \in Uint /\ i + 1 * WORD = i + WORD /\ i + WORD >= WORD \div 2
    BY <1>1, <1>3 DEF IsInt, Uint
  <2>2. ToUint(i) = i + WORD
    BY <1>1, <2>1, ToUintIs
  <2> QED BY <1>1, <1>3, <2>1, <2>2
<1> QED BY <1>1, <1>2, <1>3

LEMMA HlineOn ==
  ASSUME Mode(mode), NEW a \in Ints, NEW b \in Ints, NEW y \in Int
  PROVE  Hline(a, b, y) \subseteq On
<1> DEFINE left == IF a > b THEN b ELSE a
           right == IF a > b THEN a ELSE b
<1>1. left \in Ints /\ right \in Int
  BY DEF Ints
<1>2. fb_w \in Nat /\ 4 * fb_w < WORD /\ fb_h \in Nat
  BY DEF Mode, fb_w, fb_h
<1>3. Hline(a, b, y) = IF y < 0 \/ y >= fb_h \/ right < 0 \/ ToUint(left) >= fb_w THEN {}
                       ELSE (left .. IF right >= fb_w THEN fb_w - 1 ELSE right) \X {y}
  BY DEF Hline
<1>4. ToUint(left) \in Int
  BY <1>1, ToUintType, VbeAssumption DEF Uint, Ints
<1>5. left \in Int
  BY <1>1 DEF Ints
<1> HIDE DEF left, right
<1>6. CASE ToUint(left) < fb_w /\ 0 <= y /\ y < fb_h
  <2>1. 0 <= left /\ left < fb_w
    BY <1>1, <1>2, <1>6, SmallInt
  <2> QED BY <1>1, <1>2, <1>3, <1>5, <1>6, <2>1 DEF On
<1>7. CASE ~(ToUint(left) < fb_w /\ 0 <= y /\ y < fb_h)
  BY <1>2, <1>3, <1>4, <1>7
<1> QED BY <1>6, <1>7

LEMMA HlineIs ==
  ASSUME Mode(mode), NEW a \in Ints, NEW b \in Ints, NEW y \in Int, 0 <= a, a <= b
  PROVE  Hline(a, b, y) = {p \in On : p[2] = y /\ a <= p[1] /\ p[1] <= b}
<1>1. /\ fb_w \in Nat /\ 4 * fb_w < WORD /\ fb_h \in Nat
      /\ a \in Int /\ b \in Int /\ ~(a > b)
  BY DEF Mode, fb_w, fb_h, Ints
<1>2. ToUint(a) >= fb_w <=> a >= fb_w
  <2>1. ToUint(a) \in Int
    BY <1>1, ToUintType, VbeAssumption DEF Uint
  <2> QED BY <1>1, <2>1, SmallInt
<1>3. Hline(a, b, y) = IF y < 0 \/ y >= fb_h \/ b < 0 \/ a >= fb_w THEN {}
                       ELSE (a .. IF b >= fb_w THEN fb_w - 1 ELSE b) \X {y}
  BY <1>1, <1>2 DEF Hline
<1> QED BY <1>1, <1>3 DEF On

(* The points of a turn, whatever the centre and the radius.               *)
LEMMA SpansOn ==
  ASSUME Mode(mode), NEW j \in CircleJob
  PROVE  CellsOf(Spans(j)) \in SUBSET Screen
<1>1. /\ j.cx \in Int /\ j.cy \in Int /\ j.x \in Int /\ j.y \in Int
  BY DEF CircleJob, Ints
<1>2. ASSUME NEW a \in Int, NEW b \in Int
      PROVE  Hline(Wrap(j.cx - a), Wrap(j.cx + a), Wrap(j.cy + b)) \subseteq On
  <2>1. /\ Wrap(j.cx - a) \in Ints /\ Wrap(j.cx + a) \in Ints /\ Wrap(j.cy + b) \in Int
    BY <1>1, <1>2, WrapIs DEF Ints
  <2> QED BY <2>1, HlineOn
<1>3. ASSUME NEW s \in {<<j.x, j.y>>, <<j.x, -j.y>>, <<j.y, j.x>>, <<j.y, -j.x>>}
      PROVE  s[1] \in Int /\ s[2] \in Int
  BY <1>1, <1>3
<1>4. Spans(j) \subseteq On
  BY <1>2, <1>3 DEF Spans
<1> QED BY <1>4 DEF CellsOf, Screen

LEMMA OctantsOn ==
  ASSUME Mode(mode), NEW j \in CircleJob
  PROVE  CellsOf(Visible(Octants(j))) \in SUBSET Screen
<1>1. /\ j.cx \in Int /\ j.cy \in Int /\ j.x \in Int /\ j.y \in Int
  BY DEF CircleJob, Ints
<1>2. Octants(j) \in SUBSET (Int \X Int)
  BY <1>1 DEF Octants
<1> QED BY <1>2, VisibleOnScreen

LEMMA CircleStarts ==
  ASSUME VInv, NEW op \in {"circle", "disc"}, NEW u \in Uint, NEW v \in Uint, NEW radius \in Uint,
         vbe_circle(op, u, v, radius, Ink), UNCHANGED session
  PROVE  /\ VInv'
         /\ \/ job'.op = "done"
            \/ /\ job'.op = op /\ job'.y = 0 /\ job'.x = job'.r /\ touched' = {}
               /\ job'.r > 0 => Rim(job'.x, job'.y, job'.r, job'.err)
<1> DEFINE s == [op |-> op, cx |-> ToInt(u), cy |-> ToInt(v), r |-> ToInt(radius),
                 x |-> ToInt(radius), y |-> 0, err |-> 0, color |-> Ink]
           none == radius = 0 \/ fb_w = 0 \/ fb_h = 0
           j == IF none THEN [op |-> "done"] ELSE s
           points == IF radius = 0 THEN Visible({<<u, v>>}) ELSE {}
<1>1. Start(j) /\ Put(points, Ink)
  BY DEF vbe_circle
<1>2. job' = j /\ UNCHANGED <<mode, session>> /\ job.op = "idle" /\ touched = {}
  BY <1>1, IdleStart
<1>3. CellsOf(points) \in SUBSET Screen
  <2>1. {<<u, v>>} \in SUBSET (Int \X Int)
    BY DEF Uint
  <2>2. CellsOf(Visible({<<u, v>>})) \in SUBSET Screen
    BY <2>1, VisibleOnScreen, ModeOK
  <2> QED BY <2>2 DEF CellsOf
<1>4. Ink \in Color
  BY Arguments
<1>5. /\ backbuffer' \in [Cell -> Color] /\ UNCHANGED lfb
      /\ touched' = touched \cup CellsOf(points)
  BY <1>1, <1>4, PutKeeps
<1>6. CASE none
  <2>1. job' = [op |-> "done"]
    BY <1>2, <1>6
  <2>2. JobOK' /\ job'.op = "done"
    BY <2>1 DEF JobOK
  <2> QED BY <1>2, <1>3, <1>5, <2>2, Drawing
<1>7. CASE ~none
  <2>1. job' = s /\ touched' = {}
    BY <1>2, <1>5, <1>7 DEF CellsOf
  <2>2. ToInt(u) \in Ints /\ ToInt(v) \in Ints /\ ToInt(radius) \in Ints /\ ToInt(radius) \in Int
    BY ToIntType DEF Ints
  <2>3. s \in CircleJob
    BY <1>4, <2>2 DEF CircleJob
  <2>4. JobOK' /\ job'.op = op
    BY <2>1, <2>3 DEF JobOK, CircleJob
  <2>5. VInv'
    BY <1>2, <1>3, <1>5, <2>4, Drawing
  <2>6. ASSUME job'.r > 0
        PROVE  Rim(job'.x, job'.y, job'.r, job'.err)
    <3>1. job'.r \in Nat \ {0} /\ job'.x = job'.r /\ job'.y = 0 /\ job'.err = 0
      BY <2>1, <2>2, <2>6
    <3> QED BY <3>1, RimStarts
  <2>7. job'.r \in Int /\ job'.y = 0 /\ job'.x = job'.r
    BY <2>1, <2>2
  <2> QED BY <2>1, <2>4, <2>5, <2>6, <2>7
<1> QED BY <1>6, <1>7

TurnPoints == IF job.op = "disc" THEN Spans(job) ELSE Visible(Octants(job))

LEMMA CircleTurns ==
  ASSUME VInv, CircleStep, UNCHANGED <<mode, session>>
  PROVE  /\ VInv' /\ job \in CircleJob /\ job' \in CircleJob /\ job.x >= job.y
         /\ job'.op = job.op /\ job'.cx = job.cx /\ job'.cy = job.cy /\ job'.r = job.r
         /\ touched' = touched \cup CellsOf(TurnPoints)
         /\ job'.y = job.y + 1 /\ job'.x \in {job.x, job.x - 1}
         /\ job.r > 0 /\ Moderate /\ Rim(job.x, job.y, job.r, job.err)
              => Rim(job'.x, job'.y, job'.r, job'.err)
<1> DEFINE y == job.y + 1  err == Wrap(job.err + 1 + 2 * y)
           next == Wrap(err + 1 - 2 * (job.x - 1))
           less == job.x - 1
           in == [job EXCEPT !.y = y, !.x = less, !.err = next]
           on == [job EXCEPT !.y = y, !.err = err]
<1>1. job \in CircleJob /\ job.op \in {"circle", "disc"} /\ job.x >= job.y
  BY DEF CircleStep, VInv, JobOK
<1>2. /\ job.x \in Int /\ job.y \in Nat /\ job.err \in Int /\ job.r \in Int /\ job.color \in Color
  BY <1>1 DEF CircleJob, Ints
<1>3. PICK inward \in Inward(err, job.x) : job' = IF inward THEN in ELSE on
  BY DEF CircleStep
<1>4. /\ job.err + 1 + 2 * y \in Int /\ err \in Int /\ err + 1 - 2 * (job.x - 1) \in Int
      /\ next \in Int /\ y \in Nat
  <2>1. job.err + 1 + 2 * y \in Int
    BY <1>2
  <2>2. err \in Int
    BY <2>1, WrapIs
  <2> HIDE DEF err
  <2>3. err + 1 - 2 * (job.x - 1) \in Int
    BY <1>2, <2>2
  <2> QED BY <1>2, <2>1, <2>2, <2>3, WrapIs
<1>5. inward => /\ job'.x = job.x - 1 /\ job'.y = job.y + 1 /\ job'.op = job.op
                /\ job'.err = next
                /\ job'.cx = job.cx /\ job'.cy = job.cy /\ job'.r = job.r /\ job' \in CircleJob
  <2> SUFFICES ASSUME inward
               PROVE  /\ job'.x = job.x - 1 /\ job'.y = y /\ job'.op = job.op
                      /\ job'.err = next
                      /\ job'.cx = job.cx /\ job'.cy = job.cy /\ job'.r = job.r /\ job' \in CircleJob
    OBVIOUS
  <2>1. job' = in
    BY <1>3
  <2>2. less \in Int /\ y \in Nat /\ next \in Int
    BY <1>2, <1>4
  <2> HIDE DEF next, y, less
  <2>3. job \in CircleJob /\ job' = [job EXCEPT !.y = y, !.x = less, !.err = next]
    BY <1>1, <2>1
  <2> HIDE DEF in
  <2>4. /\ job' \in CircleJob /\ job'.op = job.op /\ job'.x = less /\ job'.y = y /\ job'.err = next
        /\ job'.cx = job.cx /\ job'.cy = job.cy /\ job'.r = job.r
    BY <2>2, <2>3 DEF CircleJob
  <2> QED BY <2>4 DEF less
<1>6. ~inward => /\ job'.x = job.x /\ job'.y = job.y + 1 /\ job'.op = job.op
                 /\ job'.err = err
                 /\ job'.cx = job.cx /\ job'.cy = job.cy /\ job'.r = job.r /\ job' \in CircleJob
  <2> HIDE DEF err
  <2> QED BY <1>1, <1>2, <1>3, <1>4 DEF CircleJob
<1>7. touched' = touched \cup CellsOf(TurnPoints) /\ backbuffer' \in [Cell -> Color] /\ UNCHANGED lfb
  BY <1>2, PutKeeps DEF CircleStep, TurnPoints
<1>8. CellsOf(TurnPoints) \in SUBSET Screen
  BY <1>1, SpansOn, OctantsOn, ModeOK DEF TurnPoints
<1>9. JobOK'
  BY <1>1, <1>5, <1>6 DEF JobOK
<1>10. VInv'
  <2>1. job'.op # "idle" /\ job.op # "clear"
    BY <1>1, <1>5, <1>6
  <2> QED BY <1>7, <1>8, <1>9, <2>1, Drawing
<1>11. ASSUME job.r > 0, Moderate, Rim(job.x, job.y, job.r, job.err)
       PROVE  Rim(job'.x, job'.y, job'.r, job'.err)
  <2> DEFINE e == job.err + 1 + 2 * (job.y + 1)  n == e + 1 - 2 * (job.x - 1)
             t == 2 * (e - job.x) + 1
  <2>1. e \in Int /\ 16 * job.r < WORD /\ job.r \in Nat \ {0} /\ n \in Int /\ t \in Int
    BY <1>2, <1>11 DEF Moderate
  <2>2. /\ IsInt(e) /\ IsInt(t)
        /\ t > 0 => IsInt(n) /\ Rim(job.x - 1, job.y + 1, job.r, n)
        /\ ~(t > 0) => Rim(job.x, job.y + 1, job.r, e)
    BY <1>1, <1>2, <1>11, <2>1, RimTurns
  <2>3. err = e
    BY <2>1, <2>2, WrapIs
  <2>4. Inward(err, job.x) = {t > 0}
    BY <2>2, <2>3 DEF Inward
  <2>5. inward <=> t > 0
    BY <1>3, <2>4
  <2>6. CASE t > 0
    <3>1. job'.err = n
      BY <1>5, <2>1, <2>2, <2>3, <2>5, <2>6, WrapIs
    <3> HIDE DEF n, t
    <3> QED BY <1>5, <2>2, <2>5, <2>6, <3>1
  <2>7. CASE ~(t > 0)
    <3>1. job'.err = e
      BY <1>6, <2>3, <2>5, <2>7
    <3> HIDE DEF e, t
    <3> QED BY <1>6, <2>2, <2>5, <2>7, <3>1
  <2> QED BY <2>6, <2>7
<1> HIDE DEF in, on, err, next
<1>12. job'.y = job.y + 1 /\ job'.x \in {job.x, job.x - 1} /\ job' \in CircleJob
       /\ job'.op = job.op /\ job'.cx = job.cx /\ job'.cy = job.cy /\ job'.r = job.r
  BY <1>5, <1>6
<1> QED BY <1>1, <1>7, <1>10, <1>11, <1>12

(* The turns of a moderate circle: what is drawn, and how far it is.       *)
LEMMA DrawnMore ==
  ASSUME VInv, UNCHANGED mode, NEW points \in SUBSET On, touched' = touched \cup CellsOf(points)
  PROVE  Drawn' = Drawn \cup points
<1>1. On' = On /\ \A q \in On : At(q)' = At(q)
  BY SameScreen DEF At, fb_pitch_pixels
<1>2. Drawn' = {q \in On : At(q) \in touched'}
  BY <1>1 DEF Drawn, At, fb_pitch_pixels
<1>3. ASSUME NEW q \in On
      PROVE  At(q) \in CellsOf(points) <=> q \in points
  BY AtInjective, ModeOK DEF CellsOf
<1>4. ASSUME NEW q \in On
      PROVE  At(q) \in touched' <=> At(q) \in touched \/ q \in points
  BY <1>3
<1> QED BY <1>2, <1>4 DEF Drawn

LEMMA CentreSums ==
  ASSUME job \in CircleJob, Moderate, NEW a \in Int, -job.r <= a, a <= job.r
  PROVE  /\ job.cx + a \in Ints /\ job.cy + a \in Ints
         /\ job.cx - a \in Ints /\ job.cy - a \in Ints
<1>1. job.cx \in Int /\ job.cy \in Int /\ job.r \in Int /\ WORD \div 2 \in Int
  BY Half DEF CircleJob, Ints
<1> QED BY <1>1 DEF Moderate, IsInt, Ints

LEMMA SquareIs ==
  ASSUME job \in CircleJob, NEW a \in Int, NEW b \in Int, NEW p, p = <<job.cx + a, job.cy + b>>
  PROVE  Square(p) = a * a + b * b
<1>1. job.cx \in Int /\ job.cy \in Int
  BY DEF CircleJob, Ints
<1>2. p[1] - job.cx = a /\ p[2] - job.cy = b
  BY <1>1
<1> QED BY <1>2 DEF Square

LEMMA OctantsAre ==
  ASSUME VInv, job \in CircleJob, job.op = "circle", Moderate, job.x >= job.y, job.x <= job.r
  PROVE  /\ TurnPoints = Octants(job) \cap On
         /\ \A p \in Octants(job) : Square(p) = job.x * job.x + job.y * job.y
<1>1. job.cx \in Int /\ job.cy \in Int /\ job.r \in Int /\ job.x \in Int /\ job.y \in Nat
  BY DEF CircleJob, Ints
<1>2. ASSUME NEW p \in Octants(job)
      PROVE  /\ p \in Visible(Octants(job)) <=> p \in On
             /\ Square(p) = job.x * job.x + job.y * job.y
  <2>1. PICK a \in ({-job.x, job.x} \X {-job.y, job.y}) \cup ({-job.y, job.y} \X {-job.x, job.x}) :
          p = <<job.cx + a[1], job.cy + a[2]>>
    BY DEF Octants
  <2>2. /\ a[1] \in Int /\ a[2] \in Int
        /\ -job.r <= a[1] /\ a[1] <= job.r /\ -job.r <= a[2] /\ a[2] <= job.r
    BY <1>1
  <2>3. p[1] \in Ints /\ p[2] \in Ints
    BY <2>1, <2>2, CentreSums
  <2>4. fb_w \in Nat /\ fb_h \in Nat /\ 4 * fb_w < WORD /\ 4 * fb_h < WORD
    BY ModeOK DEF Mode, fb_w, fb_h
  <2>5. /\ ToUint(p[1]) < fb_w <=> p[1] \in 0 .. fb_w - 1
        /\ ToUint(p[2]) < fb_h <=> p[2] \in 0 .. fb_h - 1
    BY <2>3, <2>4, SmallInt DEF Ints
  <2>6. p \in Visible(Octants(job)) <=> p \in On
    BY <2>1, <2>5 DEF Visible, On
  <2>7. Square(p) = a[1] * a[1] + a[2] * a[2]
    BY <2>1, <2>2, SquareIs
  <2>8. /\ (-job.x) * (-job.x) = job.x * job.x /\ (-job.y) * (-job.y) = job.y * job.y
        /\ job.x * job.x \in Int /\ job.y * job.y \in Int
    BY <1>1, Signs
  <2>9. a[1] * a[1] + a[2] * a[2] = job.x * job.x + job.y * job.y
    BY <2>8
  <2> QED BY <2>6, <2>7, <2>9
<1>3. Visible(Octants(job)) = Octants(job) \cap On
  BY <1>2 DEF Visible
<1> QED BY <1>2, <1>3 DEF TurnPoints

LEMMA SquareRoot ==
  ASSUME NEW a \in Int, NEW r \in Nat, a * a = r * r
  PROVE  a = r \/ a = -r
<1>1. ASSUME NEW b \in Nat, b * b = r * r
      PROVE  b = r
  <2>1. CASE b > r
    <3>1. b * b >= (r + 1) * b /\ (r + 1) * b >= (r + 1) * r /\ (r + 1) * r = r * r + r
      BY <2>1
    <3>2. b * b >= b * (r + 1) /\ b * (r + 1) = b * r + b /\ b * r >= r * r
      BY <2>1
    <3> QED BY <1>1, <2>1, <3>2
  <2>2. CASE b < r
    <3>1. r * r >= r * (b + 1) /\ r * (b + 1) = r * b + r /\ r * b >= b * b
      BY <2>2
    <3> QED BY <1>1, <2>2, <3>1
  <2> QED BY <2>1, <2>2
<1>2. CASE a >= 0
  BY <1>1, <1>2
<1>3. CASE a < 0
  <2>1. -a \in Nat /\ (-a) * (-a) = r * r
    BY <1>3, Signs
  <2> QED BY <1>1, <2>1
<1> QED BY <1>2, <1>3

(* The points drawn so far are near the circle, and after the first turn   *)
(* those on the axes are among them.                                       *)
Round(p) == Square(p) >= job.r * job.r - 3 * job.r /\ Square(p) <= job.r * job.r + job.r
OnAxis(p) == Square(p) = job.r * job.r /\ (p[1] = job.cx \/ p[2] = job.cy)
CircleInv ==
  job.op = "circle" /\ job.r > 0 /\ Moderate =>
    /\ Rim(job.x, job.y, job.r, job.err)
    /\ \A p \in Drawn : Round(p)
    /\ job.y > 0 => \A p \in On : OnAxis(p) => p \in Drawn

LEMMA FirstTurn ==
  ASSUME VInv, job \in CircleJob, job.r > 0, job.y = 0, job.x = job.r, NEW p \in On, OnAxis(p)
  PROVE  p \in Octants(job)
<1>1. job.cx \in Int /\ job.cy \in Int /\ job.r \in Nat
  BY DEF CircleJob, Ints
<1>2. p[1] \in Int /\ p[2] \in Int /\ p = <<p[1], p[2]>>
  BY DEF On
<1> DEFINE a == p[1] - job.cx  b == p[2] - job.cy
<1>3. a \in Int /\ b \in Int /\ p = <<job.cx + a, job.cy + b>> /\ (a = 0 \/ b = 0)
  BY <1>1, <1>2 DEF OnAxis
<1>4. a * a + b * b = job.r * job.r
  BY DEF OnAxis, Square
<1> HIDE DEF a, b
<1>6. a = 0 => b = job.r \/ b = -job.r
  <2> SUFFICES ASSUME a = 0 PROVE b = job.r \/ b = -job.r
    OBVIOUS
  <2>1. b * b = job.r * job.r
    BY <1>1, <1>3, <1>4
  <2> QED BY <1>1, <1>3, <2>1, SquareRoot
<1>7. b = 0 => a = job.r \/ a = -job.r
  <2> SUFFICES ASSUME b = 0 PROVE a = job.r \/ a = -job.r
    OBVIOUS
  <2>1. a * a = job.r * job.r
    BY <1>1, <1>3, <1>4
  <2> QED BY <1>1, <1>3, <2>1, SquareRoot
<1>5. <<a, b>> \in ({-job.x, job.x} \X {-job.y, job.y}) \cup ({-job.y, job.y} \X {-job.x, job.x})
  BY <1>1, <1>3, <1>6, <1>7
<1> QED BY <1>3, <1>5 DEF Octants

LEMMA CircleKeeps ==
  ASSUME VInv, CircleInv, CircleStep, UNCHANGED <<mode, session>>
  PROVE  CircleInv'
<1> SUFFICES ASSUME job'.op = "circle", job'.r > 0, Moderate' PROVE CircleInv'
  BY DEF CircleInv
<1>1. /\ job \in CircleJob /\ job.op = "circle" /\ job.x >= job.y
      /\ job'.cx = job.cx /\ job'.cy = job.cy /\ job'.r = job.r /\ job'.y = job.y + 1
      /\ touched' = touched \cup CellsOf(TurnPoints)
  BY CircleTurns
<1>2. job.r > 0 /\ Moderate
  BY <1>1 DEF Moderate
<1>3. /\ Rim(job.x, job.y, job.r, job.err) /\ \A p \in Drawn : Round(p)
      /\ job.y > 0 => \A p \in On : OnAxis(p) => p \in Drawn
  BY <1>1, <1>2 DEF CircleInv
<1>4. Rim(job'.x, job'.y, job'.r, job'.err)
  BY <1>2, <1>3, CircleTurns
<1>5. job.r \in Nat \ {0} /\ job.x \in Int /\ job.y \in Nat /\ job.err \in Int
  BY <1>1, <1>2 DEF CircleJob, Ints
<1>6. job.x <= job.r /\ (job.y = 0 => job.x = job.r)
  BY <1>3 DEF Rim
<1>7. /\ TurnPoints = Octants(job) \cap On
      /\ \A p \in Octants(job) : Square(p) = job.x * job.x + job.y * job.y
  BY <1>1, <1>2, <1>6, OctantsAre
<1>8. \A p \in Octants(job) : Round(p)
  <2>1. job.x * job.x + job.y * job.y >= job.r * job.r - 3 * job.r
        /\ job.x * job.x + job.y * job.y <= job.r * job.r + job.r
    BY <1>1, <1>3, <1>5, RimNear
  <2> QED BY <1>7, <2>1 DEF Round
<1>9. Drawn' = Drawn \cup (Octants(job) \cap On)
  BY <1>1, <1>7, DrawnMore
<1>10. On' = On
  BY SameScreen
<1>11. \A p : (Round(p)' <=> Round(p)) /\ (OnAxis(p)' <=> OnAxis(p))
  BY <1>1 DEF Round, OnAxis, Square
<1>12. \A p \in Drawn' : Round(p)'
  BY <1>3, <1>8, <1>9, <1>11
<1>13. ASSUME NEW p \in On, OnAxis(p)
       PROVE  p \in Drawn \cup (Octants(job) \cap On)
  <2>1. CASE job.y > 0
    BY <1>3, <1>13, <2>1
  <2>2. CASE job.y = 0
    BY <1>1, <1>2, <1>6, <1>13, <2>2, FirstTurn
  <2> QED BY <1>5, <2>1, <2>2
<1>14. \A p \in On' : OnAxis(p)' => p \in Drawn'
  BY <1>9, <1>10, <1>11, <1>13
<1> QED BY <1>4, <1>12, <1>14 DEF CircleInv

LEMMA CircleRound ==
  ASSUME VInv, CircleInv
  PROVE  CircleIsRound
<1> SUFFICES ASSUME job.op = "circle", job.x < job.y, job.r > 0, Moderate PROVE CircleIsRound
  BY DEF CircleIsRound, Done, Finished
<1>1. job.r \in Nat \ {0} /\ job.x \in Int /\ job.y \in Nat /\ job.cx \in Int /\ job.cy \in Int
  BY DEF VInv, JobOK, CircleJob, Ints
<1>2. /\ \A p \in Drawn : Round(p)
      /\ job.y > 0 => \A p \in On : OnAxis(p) => p \in Drawn
      /\ job.y = 0 => job.x = job.r
  BY DEF CircleInv, Rim
<1>3. job.y > 0
  BY <1>1, <1>2
<1>4. ASSUME NEW p \in On, At(p) \in touched
      PROVE  p \notin Beyond \cup Within(3)
  <2>1. Round(p)
    BY <1>2, <1>4 DEF Drawn
  <2>2. Square(p) \in Int /\ job.r * job.r \in Int
    BY <1>1 DEF Square, On
  <2> DEFINE r2 == job.r * job.r
  <2>3. r2 \in Int /\ Square(p) >= r2 - 3 * job.r /\ Square(p) <= r2 + job.r
    BY <2>1, <2>2 DEF Round
  <2> HIDE DEF r2
  <2>4. ~(Square(p) > r2 + job.r) /\ ~(Square(p) < r2 - 3 * job.r)
    BY <1>1, <2>2, <2>3
  <2> QED BY <2>4 DEF Beyond, Within, r2
<1>5. touched \cap CellsOf(Beyond \cup Within(3)) = {}
  BY <1>4 DEF CellsOf, Beyond, Within
<1>6. \A p \in On : OnAxis(p) => At(p) \in touched
  BY <1>2, <1>3 DEF Drawn
<1> QED BY <1>5, <1>6 DEF CircleIsRound, OnAxis

(* Discs, a span on a row.                                                 *)
LEMMA SquaresGrow ==
  ASSUME NEW a \in Nat, NEW b \in Nat
  PROVE  a <= b <=> a * a <= b * b
<1>1. a <= b => a * a <= b * b
  <2> SUFFICES ASSUME a <= b PROVE a * a <= b * b
    OBVIOUS
  <2>1. a * a <= a * b /\ a * b <= b * b
    OBVIOUS
  <2> QED BY <2>1
<1>2. b < a => b * b < a * a
  <2> SUFFICES ASSUME b < a PROVE b * b < a * a
    OBVIOUS
  <2>1. a * a >= a * (b + 1) /\ a * (b + 1) = a * b + a /\ a * b >= b * b
    OBVIOUS
  <2> QED BY <2>1
<1> QED BY <1>1, <1>2

Beside(p) == Apart(job.cx, p[1])
Over(p)   == Apart(job.cy, p[2])

LEMMA SquareApart ==
  ASSUME job \in CircleJob, NEW p \in On
  PROVE  /\ Beside(p) \in Nat /\ Over(p) \in Nat
         /\ Square(p) = Beside(p) * Beside(p) + Over(p) * Over(p)
<1> DEFINE a == p[1] - job.cx  b == p[2] - job.cy
<1>1. job.cx \in Int /\ job.cy \in Int /\ p[1] \in Int /\ p[2] \in Int
  BY DEF CircleJob, Ints, On
<1>2. /\ a \in Int /\ b \in Int /\ Beside(p) \in Nat /\ Over(p) \in Nat
      /\ Beside(p) = a \/ Beside(p) = -a
      /\ Over(p) = b \/ Over(p) = -b
  BY <1>1 DEF Beside, Over, Apart
<1>3. Square(p) = a * a + b * b
  BY DEF Square
<1> HIDE DEF a, b
<1>4. Beside(p) * Beside(p) = a * a
  BY <1>2, Signs
<1>5. Over(p) * Over(p) = b * b
  BY <1>2, Signs
<1> QED BY <1>2, <1>3, <1>4, <1>5

InSpan(p, a, b) == Over(p) = b /\ Beside(p) <= a

LEMMA SpansAre ==
  ASSUME VInv, job \in CircleJob, job.op = "disc", Moderate, job.cx >= job.r,
         job.x >= job.y, job.x <= job.r
  PROVE  TurnPoints = {p \in On : InSpan(p, job.x, job.y) \/ InSpan(p, job.y, job.x)}
<1>1. job.cx \in Int /\ job.cy \in Int /\ job.r \in Int /\ job.x \in Nat /\ job.y \in Nat
  BY DEF CircleJob, Ints
<1> DEFINE Span(a, b) == Hline(Wrap(job.cx - a), Wrap(job.cx + a), Wrap(job.cy + b))
<1>2. ASSUME NEW a \in Nat, a <= job.r, NEW b \in Int, -job.r <= b, b <= job.r
      PROVE  Span(a, b) = {p \in On : p[2] = job.cy + b /\ job.cx - a <= p[1] /\ p[1] <= job.cx + a}
  <2>1. job.cx - a \in Ints /\ job.cx + a \in Ints /\ job.cy + b \in Ints
    BY <1>1, <1>2, CentreSums
  <2>2. Wrap(job.cx - a) = job.cx - a /\ Wrap(job.cx + a) = job.cx + a /\ Wrap(job.cy + b) = job.cy + b
    BY <2>1, WrapIs DEF Ints
  <2>3. job.cy + b \in Int /\ 0 <= job.cx - a /\ job.cx - a <= job.cx + a
    BY <1>1, <1>2
  <2> QED BY <2>1, <2>2, <2>3, HlineIs, ModeOK
<1>3. ASSUME NEW p \in On, NEW a \in Nat, a <= job.r, NEW b \in Nat, b <= job.r
      PROVE  p \in Span(a, b) \cup Span(a, -b) <=> InSpan(p, a, b)
  <2>1. p[1] \in Int /\ p[2] \in Int
    BY DEF On
  <2>2. /\ p \in Span(a, b) <=> p[2] = job.cy + b /\ job.cx - a <= p[1] /\ p[1] <= job.cx + a
        /\ p \in Span(a, -b) <=> p[2] = job.cy + (-b) /\ job.cx - a <= p[1] /\ p[1] <= job.cx + a
    BY <1>1, <1>2, <1>3
  <2> HIDE DEF Span
  <2>3. InSpan(p, a, b) <=> /\ p[2] = job.cy + b \/ p[2] = job.cy + (-b)
                            /\ job.cx - a <= p[1] /\ p[1] <= job.cx + a
    BY <1>1, <2>1, <1>3 DEF InSpan, Over, Beside, Apart
  <2> QED BY <2>2, <2>3
<1>4. Spans(job) = (Span(job.x, job.y) \cup Span(job.x, -job.y))
                     \cup (Span(job.y, job.x) \cup Span(job.y, -job.x))
  BY DEF Spans
<1>5. Spans(job) \subseteq On
  <2>1. /\ Span(job.x, job.y) \subseteq On /\ Span(job.x, -job.y) \subseteq On
        /\ Span(job.y, job.x) \subseteq On /\ Span(job.y, -job.x) \subseteq On
    BY <1>1, <1>2
  <2> HIDE DEF Span
  <2> QED BY <1>4, <2>1
<1>6. ASSUME NEW p \in On
      PROVE  p \in Spans(job) <=> InSpan(p, job.x, job.y) \/ InSpan(p, job.y, job.x)
  <2>1. /\ p \in Span(job.x, job.y) \cup Span(job.x, -job.y) <=> InSpan(p, job.x, job.y)
        /\ p \in Span(job.y, job.x) \cup Span(job.y, -job.x) <=> InSpan(p, job.y, job.x)
    BY <1>1, <1>3
  <2> HIDE DEF Span
  <2> QED BY <1>4, <2>1
<1> QED BY <1>5, <1>6 DEF TurnPoints

(* The disc drawn so far: nothing outside, and all of it in the rows that  *)
(* are nearer to the centre than y or farther than x.                      *)
Inside(p) == Square(p) < job.r * job.r - 3 * job.r
DiscInv ==
  job.op = "disc" /\ job.r > 0 /\ Moderate /\ job.cx >= job.r =>
    /\ Rim(job.x, job.y, job.r, job.err)
    /\ \A p \in Drawn : Square(p) <= job.r * job.r + job.r
    /\ \A p \in On : Inside(p) /\ (Over(p) < job.y \/ Over(p) > job.x) => p \in Drawn

(* A span ends near the circle, its points are no farther and what is left *)
(* of the row is not inside.                                               *)
LEMMA SpanNear ==
  ASSUME job \in CircleJob, job.r \in Nat \ {0}, NEW p \in On, NEW a \in Nat, NEW b \in Nat,
         a * a + b * b >= job.r * job.r - 3 * job.r, a * a + b * b <= job.r * job.r + job.r
  PROVE  /\ InSpan(p, a, b) => Square(p) <= job.r * job.r + job.r
         /\ Inside(p) /\ Over(p) = b => InSpan(p, a, b)
<1> DEFINE c == Beside(p)  s == a * a  t == b * b  u == c * c  v == job.r * job.r
<1>1. /\ c \in Nat /\ Over(p) \in Nat /\ Square(p) = u + Over(p) * Over(p)
      /\ c <= a <=> u <= s
      /\ s \in Int /\ t \in Int /\ u \in Int /\ v \in Int /\ job.r \in Int
  BY SquareApart, SquaresGrow
<1>2. Over(p) = b => Square(p) = u + t
  BY <1>1
<1>3. s + t >= v - 3 * job.r /\ s + t <= v + job.r
  OBVIOUS
<1> HIDE DEF s, t, u, v
<1>4. InSpan(p, a, b) => Square(p) <= v + job.r
  BY <1>1, <1>2, <1>3 DEF InSpan
<1>5. Square(p) < v - 3 * job.r /\ Over(p) = b => InSpan(p, a, b)
  <2> SUFFICES ASSUME Square(p) < v - 3 * job.r, Over(p) = b PROVE c <= a
    BY DEF InSpan
  <2>1. u + t < s + t
    BY <1>1, <1>2, <1>3
  <2> QED BY <1>1, <2>1
<1> QED BY <1>4, <1>5 DEF Inside, v

LEMMA DiscKeeps ==
  ASSUME VInv, DiscInv, CircleStep, UNCHANGED <<mode, session>>
  PROVE  DiscInv'
<1> SUFFICES ASSUME job'.op = "disc", job'.r > 0, Moderate', job'.cx >= job'.r PROVE DiscInv'
  BY DEF DiscInv
<1>1. /\ job \in CircleJob /\ job.op = "disc" /\ job.x >= job.y
      /\ job'.cx = job.cx /\ job'.cy = job.cy /\ job'.r = job.r
      /\ job'.y = job.y + 1 /\ job'.x \in {job.x, job.x - 1}
      /\ touched' = touched \cup CellsOf(TurnPoints)
  BY CircleTurns
<1>2. job.r > 0 /\ Moderate /\ job.cx >= job.r
  BY <1>1 DEF Moderate
<1>3. /\ Rim(job.x, job.y, job.r, job.err)
      /\ \A p \in Drawn : Square(p) <= job.r * job.r + job.r
      /\ \A p \in On : Inside(p) /\ (Over(p) < job.y \/ Over(p) > job.x) => p \in Drawn
  BY <1>1, <1>2 DEF DiscInv
<1>4. Rim(job'.x, job'.y, job'.r, job'.err)
  BY <1>2, <1>3, CircleTurns
<1>5. job.r \in Nat \ {0} /\ job.x \in Nat /\ job.y \in Nat /\ job.err \in Int /\ job.x \in Int
  BY <1>1, <1>2 DEF CircleJob, Ints
<1>6. job.x <= job.r
  BY <1>3 DEF Rim
<1> DEFINE points == {p \in On : InSpan(p, job.x, job.y) \/ InSpan(p, job.y, job.x)}
<1>7. TurnPoints = points
  BY <1>1, <1>2, <1>6, SpansAre
<1>8. /\ job.x * job.x + job.y * job.y >= job.r * job.r - 3 * job.r
      /\ job.x * job.x + job.y * job.y <= job.r * job.r + job.r
      /\ job.y * job.y + job.x * job.x = job.x * job.x + job.y * job.y
  BY <1>1, <1>3, <1>5, RimNear
<1>9. ASSUME NEW p \in On
      PROVE  /\ p \in points => Square(p) <= job.r * job.r + job.r
             /\ Inside(p) /\ (Over(p) = job.x \/ Over(p) = job.y) => p \in points
  <2>1. /\ InSpan(p, job.x, job.y) => Square(p) <= job.r * job.r + job.r
        /\ Inside(p) /\ Over(p) = job.y => InSpan(p, job.x, job.y)
    BY <1>1, <1>5, <1>8, SpanNear
  <2>2. /\ InSpan(p, job.y, job.x) => Square(p) <= job.r * job.r + job.r
        /\ Inside(p) /\ Over(p) = job.x => InSpan(p, job.y, job.x)
    BY <1>1, <1>5, <1>8, SpanNear
  <2> QED BY <2>1, <2>2
<1>10. points \in SUBSET On
  OBVIOUS
<1> HIDE DEF points
<1>11. Drawn' = Drawn \cup points
  BY <1>1, <1>7, <1>10, DrawnMore
<1>12. On' = On
  BY SameScreen
<1>13. \A p : (Square(p)' = Square(p)) /\ (Inside(p)' <=> Inside(p)) /\ (Over(p)' = Over(p))
  BY <1>1 DEF Inside, Square, Over
<1>14. \A p \in Drawn' : Square(p)' <= job'.r * job'.r + job'.r
  BY <1>1, <1>3, <1>9, <1>10, <1>11, <1>13
<1>15. ASSUME NEW p \in On, Inside(p), Over(p) < job'.y \/ Over(p) > job'.x
       PROVE  p \in Drawn \cup points
  <2>1. Over(p) \in Nat
    BY <1>1, SquareApart
  <2>2. Over(p) < job.y \/ Over(p) > job.x \/ Over(p) = job.y \/ Over(p) = job.x
    BY <1>1, <1>5, <1>15, <2>1
  <2> QED BY <1>3, <1>9, <1>15, <2>2
<1>16. \A p \in On' : Inside(p)' /\ (Over(p)' < job'.y \/ Over(p)' > job'.x) => p \in Drawn'
  BY <1>11, <1>12, <1>13, <1>15
<1> QED BY <1>4, <1>14, <1>16 DEF DiscInv

LEMMA DiscFilled ==
  ASSUME VInv, DiscInv
  PROVE  DiscIsFilledInside
<1> SUFFICES ASSUME job.op = "disc", job.x < job.y, job.r > 0, Moderate, job.cx >= job.r
             PROVE  Filled
  BY DEF DiscIsFilledInside, Done, Finished
<1>1. job \in CircleJob /\ job.r \in Int /\ job.x \in Int /\ job.y \in Int
  BY DEF VInv, JobOK, CircleJob, Ints
<1>2. /\ \A p \in Drawn : Square(p) <= job.r * job.r + job.r
      /\ \A p \in On : Inside(p) /\ (Over(p) < job.y \/ Over(p) > job.x) => p \in Drawn
  BY DEF DiscInv
<1>3. ASSUME NEW p \in On, Inside(p)
      PROVE  At(p) \in touched
  <2>1. Over(p) \in Int
    BY <1>1, SquareApart
  <2>2. Over(p) < job.y \/ Over(p) > job.x
    BY <1>1, <2>1
  <2> QED BY <1>2, <1>3, <2>2 DEF Drawn
<1>4. CellsOf(Within(3)) \subseteq touched
  BY <1>3 DEF CellsOf, Within, Inside
<1>5. ASSUME NEW p \in On, At(p) \in touched
      PROVE  ~(Square(p) > job.r * job.r + job.r)
  <2> DEFINE k == job.r * job.r + job.r
  <2>1. Square(p) <= k
    BY <1>2, <1>5 DEF Drawn
  <2>2. Square(p) \in Int /\ k \in Int
    BY <1>1, SquareApart
  <2> HIDE DEF k
  <2>3. ~(Square(p) > k)
    BY <2>1, <2>2
  <2> QED BY <2>3 DEF k
<1>6. touched \cap CellsOf(Beyond) = {}
  BY <1>5 DEF CellsOf, Beyond
<1> QED BY <1>4, <1>6 DEF Filled

LEMMA CircleBegins ==
  ASSUME VInv, CallCircle
  PROVE  VInv' /\ job'.op \in {"done", "circle"} /\ CircleInv'
<1>1. PICK x \in X, y \in Y, r \in Size : vbe_circle("circle", x, y, r, Ink)
  BY DEF CallCircle, vbe_draw_circle
<1>2. x \in Uint /\ y \in Uint /\ r \in Uint /\ UNCHANGED session
  BY Arguments DEF CallCircle, Calls
<1>3. /\ VInv'
      /\ \/ job'.op = "done"
         \/ /\ job'.op = "circle" /\ job'.y = 0 /\ job'.x = job'.r /\ touched' = {}
            /\ job'.r > 0 => Rim(job'.x, job'.y, job'.r, job'.err)
  BY <1>1, <1>2, CircleStarts
<1>4. CASE job'.op = "done"
  BY <1>3, <1>4 DEF CircleInv
<1>5. CASE job'.op # "done"
  <2>1. Drawn' = {} /\ ~(job'.y > 0)
    BY <1>3, <1>5 DEF Drawn
  <2> QED BY <1>3, <1>5, <2>1 DEF CircleInv
<1> QED BY <1>4, <1>5

LEMMA DiscBegins ==
  ASSUME VInv, CallDisc
  PROVE  VInv' /\ job'.op \in {"done", "disc"} /\ DiscInv'
<1>1. PICK x \in X, y \in Y, size \in Size : vbe_circle("disc", x, y, size, Ink)
  BY DEF CallDisc, vbe_fill_circle
<1>2. x \in Uint /\ y \in Uint /\ size \in Uint /\ UNCHANGED session
  BY Arguments DEF CallDisc, Calls
<1>3. /\ VInv'
      /\ \/ job'.op = "done"
         \/ /\ job'.op = "disc" /\ job'.y = 0 /\ job'.x = job'.r /\ touched' = {}
            /\ job'.r > 0 => Rim(job'.x, job'.y, job'.r, job'.err)
  BY <1>1, <1>2, CircleStarts
<1>4. CASE job'.op = "done"
  BY <1>3, <1>4 DEF DiscInv
<1>5. CASE job'.op # "done"
  <2>1. Drawn' = {} /\ job'.op = "disc"
    BY <1>3, <1>5 DEF Drawn
  <2>2. (job \in CircleJob)'
    BY <1>3, <2>1 DEF VInv, JobOK
  <2>3. ASSUME job'.r > 0, NEW p \in On', Inside(p)'
        PROVE  ~(Over(p)' < job'.y \/ Over(p)' > job'.x)
    <3> DEFINE o == Over(p)'  b == Beside(p)'  r == job'.r
               s == o * o  t == b * b  u == r * r
    <3>1. o \in Nat /\ b \in Nat /\ Square(p)' = t + s /\ r \in Nat /\ s \in Nat /\ t \in Nat /\ u \in Nat
      <4>1. ((job \in CircleJob) /\ p \in On => /\ Beside(p) \in Nat /\ Over(p) \in Nat
              /\ Square(p) = Beside(p) * Beside(p) + Over(p) * Over(p))'
        BY SquareApart, PTL
      <4> QED BY <2>2, <2>3, <4>1 DEF CircleJob, Ints
    <3>2. o <= r <=> s <= u
      BY <3>1, SquaresGrow
    <3>3. t + s < u - 3 * r
      BY <2>3, <3>1 DEF Inside
    <3> HIDE DEF s, t, u, o, b
    <3>4. o <= r
      BY <2>3, <3>1, <3>2, <3>3
    <3> QED BY <1>3, <1>5, <3>1, <3>4 DEF o
  <2>4. (job.r > 0 => \A p \in On : Inside(p) /\ (Over(p) < job.y \/ Over(p) > job.x) => p \in Drawn)'
    BY <2>3
  <2>5. (job.r > 0 => \A p \in Drawn : Square(p) <= job.r * job.r + job.r)'
    BY <2>1
  <2> QED BY <1>3, <1>5, <2>4, <2>5 DEF DiscInv
<1> QED BY <1>4, <1>5

-----------------------------------------------------------------------------
(* The calls together.                                                     *)

CallsInv ==
  /\ VInv /\ TextInv /\ LineInv /\ CircleInv /\ DiscInv
  /\ RectIsExact /\ FrameIsComplete

(* What is said of one primitive says nothing of another.                  *)
LEMMA OnlyOf ==
  /\ job.op # "string" => TextInv
  /\ job.op # "line" => LineInv
  /\ job.op # "circle" => CircleInv
  /\ job.op # "disc" => DiscInv
  /\ job.op # "rect" => RectIsExact
  /\ job.op \notin {"clear", "swap"} => FrameIsComplete
BY DEF TextInv, LineInv, CircleInv, DiscInv, RectIsExact, Done, FrameIsComplete, Cleared, Shown

LEMMA OnlyOfNext ==
  /\ job'.op # "string" => TextInv'
  /\ job'.op # "line" => LineInv'
  /\ job'.op # "circle" => CircleInv'
  /\ job'.op # "disc" => DiscInv'
  /\ job'.op # "rect" => RectIsExact'
  /\ job'.op \notin {"clear", "swap"} => FrameIsComplete'
BY DEF TextInv, LineInv, CircleInv, DiscInv, RectIsExact, Done, FrameIsComplete, Cleared, Shown

(* What each call starts.                                                  *)
LEMMA Starts ==
  /\ CallPixel => job'.op = "done"
  /\ CallRect => job'.op = "rect"
  /\ CallLine => job'.op \in {"done", "line"}
  /\ CallString => job'.op \in {"done", "string"}
  /\ CallClear => job'.op = "clear"
  /\ CallSwap => job'.op = "swap"
<1>1. CallPixel => job'.op = "done"
  BY DEF CallPixel, Pixel, Start
<1>2. CallRect => job'.op = "rect"
  BY DEF CallRect, vbe_fill_rect, Start
<1>3. CallLine => job'.op \in {"done", "line"}
  BY DEF CallLine, vbe_draw_line, Start
<1>4. CallString => job'.op \in {"done", "string"}
  BY DEF CallString, vbe_draw_string, Start
<1>5. CallClear => job'.op = "clear"
  BY DEF CallClear, vbe_clear, Start
<1>6. CallSwap => job'.op = "swap"
  BY DEF CallSwap, vbe_swap_buffers, Start
<1> QED BY <1>1, <1>2, <1>3, <1>4, <1>5, <1>6

LEMMA InitInv == Init => CallsInv
<1> SUFFICES ASSUME Init PROVE CallsInv
  OBVIOUS
<1>1. job.op = "idle"
  BY DEF Init, VbeInit, Idle
<1> QED BY <1>1, InitV, OnlyOf DEF CallsInv

LEMMA NextInv == CallsInv /\ [Next]_vars => CallsInv'
<1> SUFFICES ASSUME CallsInv, [Next]_vars PROVE CallsInv'
  OBVIOUS
<1>1. VInv /\ TextInv /\ LineInv /\ CircleInv /\ DiscInv /\ RectIsExact /\ FrameIsComplete
  BY DEF CallsInv
<1>2. CASE CallPixel
  BY <1>1, <1>2, PixelKeeps, Starts, OnlyOfNext DEF CallsInv
<1>3. CASE CallRect
  BY <1>1, <1>3, RectKeeps, Starts, OnlyOfNext DEF CallsInv
<1>4. CASE CallLine
  BY <1>1, <1>4, LineStarts, Starts, OnlyOfNext DEF CallsInv
<1>5. CASE CallCircle
  BY <1>1, <1>5, CircleBegins, OnlyOfNext DEF CallsInv
<1>6. CASE CallDisc
  BY <1>1, <1>6, DiscBegins, OnlyOfNext DEF CallsInv
<1>7. CASE CallString
  BY <1>1, <1>7, StringStarts, Starts, OnlyOfNext DEF CallsInv
<1>8. CASE CallClear
  BY <1>1, <1>8, ClearKeeps, Starts, OnlyOfNext DEF CallsInv
<1>9. CASE CallSwap
  BY <1>1, <1>9, SwapKeeps, Starts, OnlyOfNext DEF CallsInv
<1>10. CASE Run
  <2>1. UNCHANGED <<mode, session>>
    BY <1>10 DEF Run, JobStep
  <2>2. CASE LineStep
    <3>1. job'.op = "line"
      <4>1. job.op = "line" /\ job \in LineJob
        BY <1>1, <2>2 DEF LineStep, VInv, JobOK
      <4> QED BY <2>2, <4>1 DEF LineStep, LineJob
    <3> QED BY <1>1, <2>1, <2>2, <3>1, LineKeeps, OnlyOfNext DEF CallsInv
  <2>3. CASE CircleStep
    <3>1. VInv' /\ CircleInv' /\ DiscInv' /\ job'.op \in {"circle", "disc"}
      BY <1>1, <2>1, <2>3, CircleTurns, CircleKeeps, DiscKeeps DEF CircleStep
    <3> QED BY <3>1, OnlyOfNext DEF CallsInv
  <2>4. CASE StringStep
    <3>1. job'.op = "string"
      <4>1. job.op = "string" /\ job \in StringJob
        BY <1>1, <2>4 DEF StringStep, VInv, JobOK
      <4> QED BY <2>4, <4>1 DEF StringStep, StringJob
    <3> QED BY <1>1, <2>1, <2>4, <3>1, StringKeeps, OnlyOfNext DEF CallsInv
  <2> QED BY <1>10, <2>2, <2>3, <2>4 DEF Run, JobStep
<1>11. CASE Return
  <2>1. job'.op = "idle" /\ touched' = {} /\ UNCHANGED <<mode, backbuffer, lfb, session>>
    BY <1>11 DEF Return, Idle
  <2>2. Cell' = Cell
    BY <2>1, SameScreen
  <2>3. VInv'
    BY <1>1, <2>1, <2>2 DEF VInv, JobOK, StaysOnScreen
  <2> QED BY <2>1, <2>3, OnlyOfNext DEF CallsInv
<1>12. CASE UNCHANGED vars
  <2>1. (VInv' <=> VInv) /\ (TextInv' <=> TextInv) /\ (RectIsExact' <=> RectIsExact)
        /\ (FrameIsComplete' <=> FrameIsComplete)
    BY <1>12 DEF vars, vbeVars, VInv, JobOK, StaysOnScreen, LineJob, CircleJob, StringJob, TextInv,
                 TextIsReadable, RectIsExact, FrameIsComplete, Done, Finished, Cleared, Shown,
                 Pixels, On, Cell, CellsOf, At, fb_w, fb_h, fb_pitch_pixels
  <2>2. LineInv' <=> LineInv
    BY <1>12 DEF vars, vbeVars, LineInv, Asked, Drawn, On, At, fb_w, fb_h, fb_pitch_pixels
  <2>3. (CircleInv' <=> CircleInv) /\ (DiscInv' <=> DiscInv)
    BY <1>12 DEF vars, vbeVars, CircleInv, DiscInv, Moderate, Round, OnAxis, Inside, Over, Square,
                 Drawn, On, At, fb_w, fb_h, fb_pitch_pixels
  <2> QED BY <1>1, <2>1, <2>2, <2>3 DEF CallsInv
<1>13. CASE Wait
  BY <1>12, <1>13 DEF Wait
<1> QED BY <1>2, <1>3, <1>4, <1>5, <1>6, <1>7, <1>8, <1>9, <1>10, <1>11, <1>12, <1>13 DEF Next

LEMMA Always == Spec => []CallsInv
BY InitInv, NextInv, PTL DEF Spec

(* Nothing but vbe_clear writes off the screen: not into the padding of a  *)
(* row nor past the buffer, whatever numbers the arguments are             *)
(* (vbe.c:125-129, 157-209).                                               *)
THEOREM StaysOnScreenAlways == Spec => []StaysOnScreen
<1>1. CallsInv => StaysOnScreen
  BY DEF CallsInv, VInv
<1> QED BY <1>1, Always, PTL

(* A rectangle is cut at the edges of the screen and nowhere else, also    *)
(* when its end is beyond the range of the numbers (vbe.c:157-170).        *)
THEOREM RectIsExactAlways == Spec => []RectIsExact
<1>1. CallsInv => RectIsExact
  BY DEF CallsInv
<1> QED BY <1>1, Always, PTL

(* A line joins the points nearest to the ends asked for, with one point   *)
(* for each step of its longer way, none more than half a pixel off        *)
(* (vbe.c:172-197).                                                        *)
THEOREM LineIsStraightAlways == Spec => []LineIsStraight
<1>1. CallsInv => LineIsStraight
  BY LineStraight DEF CallsInv
<1> QED BY <1>1, Always, PTL

(* A circle is at most half a pixel too wide and one and a half too        *)
(* narrow, and its points on the axes are drawn (vbe.c:211-239).           *)
THEOREM CircleIsRoundAlways == Spec => []CircleIsRound
<1>1. CallsInv => CircleIsRound
  BY CircleRound DEF CallsInv
<1> QED BY <1>1, Always, PTL

(* A filled circle right of the left edge has no hole and nothing outside  *)
(* (vbe.c:199-209, 241-265).                                               *)
THEOREM DiscIsFilledInsideAlways == Spec => []DiscIsFilledInside
<1>1. CallsInv => DiscIsFilledInside
  BY DiscFilled DEF CallsInv
<1> QED BY <1>1, Always, PTL

(* The glyphs of a string share no point and run as one reads them         *)
(* (vbe.c:290-306).                                                        *)
THEOREM TextIsReadableAlways == Spec => []TextIsReadable
<1>1. CallsInv => TextIsReadable
  BY DEF CallsInv, TextInv, TextIsReadable
<1> QED BY <1>1, Always, PTL

(* Clearing and swapping reach every pixel of a buffer with an even number *)
(* of them (vbe.c:131-155).                                                *)
THEOREM FrameIsCompleteAlways == Spec => []FrameIsComplete
<1>1. CallsInv => FrameIsComplete
  BY DEF CallsInv
<1> QED BY <1>1, Always, PTL
-----------------------------------------------------------------------------
(* Every primitive ends: a bound on the turns it has left goes down.       *)

TurnsLeft ==
  IF job.op = "line"
  THEN IF job.more THEN Longer(job.from, job.to) - Gone(job.from, job.to, <<job.x, job.y>>) + 1 ELSE 0
  ELSE IF job.op \in {"circle", "disc"} THEN IF job.x >= job.y THEN job.x - job.y + 1 ELSE 0
  ELSE IF job.op = "string" THEN Len(job.text)
  ELSE 0

LEMMA GoneIn ==
  ASSUME NEW f \in Int \X Int, NEW t \in Int \X Int, NEW p \in Int \X Int, Near(f, t, p)
  PROVE  Longer(f, t) \in Nat /\ Gone(f, t, p) \in 0 .. Longer(f, t)
<1>1. /\ f[1] \in Int /\ f[2] \in Int /\ t[1] \in Int /\ t[2] \in Int /\ p[1] \in Int /\ p[2] \in Int
      /\ Between(f[1], t[1], p[1]) /\ Between(f[2], t[2], p[2])
  BY DEF Near
<1>2. /\ Far(f, t, 1) \in Nat /\ Far(f, p, 1) \in 0 .. Far(f, t, 1)
      /\ Far(f, t, 2) \in Nat /\ Far(f, p, 2) \in 0 .. Far(f, t, 2)
  BY <1>1, Axis DEF Far
<1> QED BY <1>2 DEF Longer, Gone

LEMMA LineRunsOut ==
  ASSUME VInv, LineInv, LineStep, UNCHANGED <<mode, session>>
  PROVE  TurnsLeft \in Nat /\ TurnsLeft' \in Nat /\ TurnsLeft' < TurnsLeft
<1> DEFINE f == job.from  t == job.to  p == <<job.x, job.y>>  n == <<job'.x, job'.y>>
<1>1. job.op = "line" /\ job.more /\ job \in LineJob
  BY DEF LineStep, VInv, JobOK
<1>2. /\ f \in On /\ t \in On /\ f \in Int \X Int /\ t \in Int \X Int /\ p \in Int \X Int /\ job.color \in Color
  BY <1>1 DEF LineJob, On
<1>3. Path(f, t, p, TRUE, Drawn)
  BY <1>1 DEF LineInv, LineJob
<1>4. /\ Near(f, t, p) /\ IsFiniteSet(Drawn) /\ Cardinality(Drawn) = Gone(f, t, p)
      /\ \A d \in Drawn : Gone(f, t, d) < Gone(f, t, p)
  BY <1>3 DEF Path
<1>5. Longer(f, t) \in Nat /\ Gone(f, t, p) \in 0 .. Longer(f, t)
  BY <1>2, <1>4, GoneIn
<1>6. Drawn' = Drawn \cup {p}
  <2>1. p \in On
    BY <1>2, <1>4, NearOn, ModeOK
  <2>2. touched' = touched \cup CellsOf(Visible({p}))
    BY <1>2, PutKeeps DEF LineStep
  <2> QED BY <2>1, <2>2, DrawnOne
<1>7. p \notin Drawn
  BY <1>4, <1>5
<1>8. Cardinality(Drawn') = Gone(f, t, p) + 1
  BY <1>4, <1>6, <1>7, FS_AddElement
<1>9. VInv' /\ LineInv'
  BY LineKeeps
<1>10. job'.op = "line" /\ job'.from = f /\ job'.to = t /\ job'.more \in BOOLEAN
       /\ job'.x \in Int /\ job'.y \in Int
  <2>1. job'.op = "line" /\ job'.from = f /\ job'.to = t
    BY <1>1 DEF LineStep, LineJob
  <2>2. (job.op = "line" => job \in LineJob)'
    BY <1>9 DEF VInv, JobOK
  <2>3. (job \in LineJob => job.more \in BOOLEAN /\ job.x \in Int /\ job.y \in Int)'
    BY DEF LineJob
  <2> QED BY <2>1, <2>2, <2>3
<1>11. Path(f, t, n, job'.more, Drawn')
  BY <1>9, <1>10 DEF LineInv
<1>12. TurnsLeft = Longer(f, t) - Gone(f, t, p) + 1
  BY <1>1 DEF TurnsLeft
<1>13. TurnsLeft' = IF job'.more THEN Longer(f, t) - Gone(f, t, n) + 1 ELSE 0
  BY <1>10 DEF TurnsLeft
<1> HIDE DEF f, t, p, n
<1>14. CASE job'.more
  <2>1. Near(f, t, n) /\ Gone(f, t, n) = Gone(f, t, p) + 1
    BY <1>8, <1>11, <1>14 DEF Path
  <2>2. n \in Int \X Int
    BY <1>10 DEF n
  <2>3. Gone(f, t, n) \in 0 .. Longer(f, t)
    BY <1>2, <2>1, <2>2, GoneIn
  <2> QED BY <1>5, <1>12, <1>13, <1>14, <2>1, <2>3
<1>15. CASE ~job'.more
  BY <1>5, <1>12, <1>13, <1>15
<1> QED BY <1>14, <1>15

(* As a property of the steps.                                             *)
TurnsRunOut == [][Run => TurnsLeft \in Nat /\ TurnsLeft' \in Nat /\ TurnsLeft' < TurnsLeft]_vars

(* Every turn of a primitive's loop lowers the number of turns it has      *)
(* left, whatever it was called with: none loops for ever                  *)
(* (vbe.c:190-196, 222-238, 294-305).                                      *)
THEOREM TurnsRunOutAlways == Spec => TurnsRunOut
<1>1. ASSUME CallsInv, Run
      PROVE  TurnsLeft \in Nat /\ TurnsLeft' \in Nat /\ TurnsLeft' < TurnsLeft
  <2>1. VInv /\ LineInv /\ UNCHANGED <<mode, session>>
    BY <1>1 DEF CallsInv, Run, JobStep
  <2>2. CASE LineStep
    BY <2>1, <2>2, LineRunsOut
  <2>3. CASE CircleStep
    <3>1. /\ job \in CircleJob /\ job' \in CircleJob /\ job.x >= job.y
          /\ job'.op = job.op /\ job.op \in {"circle", "disc"}
          /\ job'.y = job.y + 1 /\ job'.x \in {job.x, job.x - 1}
      BY <2>1, <2>3, CircleTurns DEF CircleStep
    <3>2. job.x \in Int /\ job.y \in Int
      BY <3>1 DEF CircleJob
    <3> QED BY <3>1, <3>2 DEF TurnsLeft
  <2>4. CASE StringStep
    <3>1. job.op = "string" /\ job \in StringJob /\ job.text # << >>
      BY <2>1, <2>4 DEF StringStep, VInv, JobOK
    <3>2. job'.op = "string" /\ job'.text \in {<< >>, Tail(job.text)}
      BY <2>4, <3>1 DEF StringStep, StringJob
    <3>3. /\ Len(job.text) \in Nat /\ Len(job.text) > 0
          /\ Len(Tail(job.text)) = Len(job.text) - 1 /\ Len(<< >>) = 0
      BY <3>1 DEF StringJob
    <3> QED BY <3>1, <3>2, <3>3 DEF TurnsLeft
  <2> QED BY <1>1, <2>2, <2>3, <2>4 DEF Run, JobStep
<1> QED BY <1>1, Always, PTL DEF TurnsRunOut
-----------------------------------------------------------------------------
(* Frames: areas of the screen.                                            *)
Areas == [kind : {"shape", "text"}, l : Int, t : Int, r : Int, b : Int]
Shapes == {a \in Areas : a.kind = "shape"}
Up(y) == {a \in Areas : a.b <= y}
Down(y) == {a \in Areas : y <= a.t}
Left(x) == {a \in Areas : a.r <= x}
Right(x) == {a \in Areas : x <= a.l}

(* What is drawn one behind the other, no text covered by what follows.    *)
Legible(q) == \A j \in DOMAIN q : \A i \in 1 .. j - 1 : q[i].kind = "text" => ~Overlap(q[i], q[j])
Legibles(S) == {q \in Seq(S) : Legible(q)}
Free(S, T) == \A a \in S, b \in T : a.kind = "text" => ~Overlap(a, b)

LEMMA Sides ==
  /\ \A y \in Int : Free(Up(y), Down(y)) /\ Free(Down(y), Up(y))
  /\ \A x \in Int : Free(Left(x), Right(x)) /\ Free(Right(x), Left(x))
  /\ Free(Shapes, Areas)
BY DEF Free, Up, Down, Left, Right, Shapes, Overlap, Areas

(* Two sequences one behind the other.                                     *)
LEMMA BehindEachOther ==
  ASSUME NEW S, NEW T, NEW p \in Seq(S), NEW q \in Seq(T)
  PROVE  /\ p \o q \in Seq(S \cup T)
         /\ DOMAIN p = 1 .. Len(p) /\ DOMAIN q = 1 .. Len(q) /\ DOMAIN (p \o q) = 1 .. Len(p) + Len(q)
         /\ \A i \in 1 .. Len(p) : (p \o q)[i] = p[i] /\ p[i] \in S
         /\ \A i \in Len(p) + 1 .. Len(p) + Len(q) :
              /\ (p \o q)[i] = q[i - Len(p)] /\ q[i - Len(p)] \in T
              /\ i - Len(p) \in 1 .. Len(q)
<1>1. p \in Seq(S \cup T) /\ q \in Seq(S \cup T)
  OBVIOUS
<1>2. Len(p) \in Nat /\ Len(q) \in Nat
  OBVIOUS
<1>3. p \o q \in Seq(S \cup T) /\ Len(p \o q) = Len(p) + Len(q)
  BY <1>1
<1> QED BY <1>1, <1>2, <1>3

LEMMA BothLegible ==
  ASSUME NEW S, NEW T, NEW p \in Legibles(S), NEW q \in Legibles(T), Free(S, T)
  PROVE  p \o q \in Legibles(S \cup T)
<1> DEFINE u == p \o q  m == Len(p)  n == Len(q)
<1>1. p \in Seq(S) /\ q \in Seq(T) /\ m \in Nat /\ n \in Nat
  BY DEF Legibles
<1>2. /\ u \in Seq(S \cup T)
      /\ DOMAIN p = 1 .. m /\ DOMAIN q = 1 .. n /\ DOMAIN u = 1 .. m + n
      /\ \A i \in 1 .. m : u[i] = p[i] /\ p[i] \in S
      /\ \A i \in m + 1 .. m + n : u[i] = q[i - m] /\ q[i - m] \in T /\ i - m \in 1 .. n
  BY <1>1, BehindEachOther
<1> HIDE DEF u, m, n
<1>3. ASSUME NEW j \in DOMAIN u, NEW i \in 1 .. j - 1, u[i].kind = "text"
      PROVE  ~Overlap(u[i], u[j])
  <2>1. CASE j <= m
    <3>1. i \in 1 .. m /\ j \in 1 .. m /\ i \in 1 .. j - 1
      BY <1>1, <1>2, <2>1
    <3> QED BY <1>2, <1>3, <3>1 DEF Legibles, Legible
  <2>2. CASE m < j /\ i <= m
    <3>1. i \in 1 .. m /\ j \in m + 1 .. m + n
      BY <1>1, <1>2, <2>2
    <3> QED BY <1>2, <1>3, <3>1 DEF Free
  <2>3. CASE m < i
    <3>1. i \in m + 1 .. m + n /\ j \in m + 1 .. m + n /\ i - m \in 1 .. (j - m) - 1
      BY <1>1, <1>2, <2>3
    <3>2. u[i] = q[i - m] /\ u[j] = q[j - m] /\ j - m \in DOMAIN q
      BY <1>2, <3>1
    <3> QED BY <1>3, <3>1, <3>2 DEF Legibles, Legible
  <2> QED BY <1>1, <1>2, <2>1, <2>2, <2>3
<1> QED BY <1>2, <1>3 DEF Legibles, Legible, u

LEMMA LegibleOver ==
  ASSUME NEW S, NEW T, S \subseteq T
  PROVE  Legibles(S) \subseteq Legibles(T)
<1>1. Seq(S) \subseteq Seq(T)
  OBVIOUS
<1> QED BY <1>1 DEF Legibles

LEMMA NothingLegible == \A S : << >> \in Legibles(S)
BY DEF Legibles, Legible

LEMMA OneLegible == ASSUME NEW S, NEW a \in S PROVE <<a>> \in Legibles(S)
BY DEF Legibles, Legible

LEMMA ShapesLegible ==
  ASSUME NEW S \in SUBSET Shapes
  PROVE  Legibles(S) = Seq(S)
<1>1. ASSUME NEW q \in Seq(S) PROVE Legible(q)
  <2>1. \A i \in DOMAIN q : q[i].kind # "text"
    BY DEF Shapes
  <2>2. \A j \in DOMAIN q : 1 .. j - 1 \subseteq DOMAIN q
    OBVIOUS
  <2> QED BY <2>1, <2>2 DEF Legible
<1> QED BY <1>1 DEF Legibles

-----------------------------------------------------------------------------
(* Frames: the primitives.                                                 *)
LEMMA SceneIs ==
  ASSUME scene \in Scenes
  PROVE  /\ scene.w \in 1 .. UINT - 1 /\ scene.h \in 1 .. UINT - 1 /\ scene.visible \in BOOLEAN
         /\ scene.rows \in Seq(0 .. 63) /\ Len(scene.rows) \in 0 .. 5 /\ scene.prompt \in 0 .. 127
         /\ scene.pointer[1] \in Nat /\ scene.pointer[2] \in Nat
         /\ scene.until \in 0 .. TICKS - 1 /\ scene.scripts \in BOOLEAN
         /\ UINT \in Nat /\ UINT >= 1024
<1>1. scene \in [w : 1 .. UINT - 1, h : 1 .. UINT - 1, visible : BOOLEAN,
                 rows : {r \in Seq(0 .. 63) : Len(r) <= 5}, prompt : 0 .. 127,
                 pointer : (0 .. UINT - 1) \X (0 .. UINT - 1), until : 0 .. TICKS - 1, scripts : BOOLEAN]
  BY SceneAssumption
<1>2. UINT \in Nat /\ UINT >= 1024
  BY SceneAssumption
<1>3. scene.rows \in Seq(0 .. 63) /\ Len(scene.rows) <= 5 /\ Len(scene.rows) \in Nat
  BY <1>1
<1>4. scene.pointer[1] \in Nat /\ scene.pointer[2] \in Nat
  <2>1. scene.pointer \in (0 .. UINT - 1) \X (0 .. UINT - 1)
    BY <1>1
  <2> QED BY <2>1
<1>5. Len(scene.rows) \in 0 .. 5
  <2>1. \A n \in Nat : n <= 5 => n \in 0 .. 5
    OBVIOUS
  <2> QED BY <1>3, <2>1, Zenon
<1>6. /\ scene.w \in 1 .. UINT - 1 /\ scene.h \in 1 .. UINT - 1 /\ scene.visible \in BOOLEAN
      /\ scene.prompt \in 0 .. 127 /\ scene.until \in 0 .. TICKS - 1 /\ scene.scripts \in BOOLEAN
  BY <1>1, Zenon
<1> QED BY <1>2, <1>3, <1>4, <1>5, <1>6, Zenon

LEMMA Sizes ==
  ASSUME scene \in Scenes
  PROVE  scene.w \in Nat /\ scene.h \in Nat /\ scene.prompt \in Nat
<1>1. scene.w \in 1 .. UINT - 1 /\ scene.h \in 1 .. UINT - 1 /\ scene.prompt \in 0 .. 127
  BY SceneIs, Zenon
<1>2. UINT \in Nat
  BY SceneAssumption
<1> QED BY <1>1, <1>2

Boxes(x, y, w, h) == {a \in Shapes : a.l = x /\ a.t = y /\ a.r <= x + w /\ a.b <= y + h}
LEMMA RectDrawn ==
  ASSUME scene \in Scenes, NEW x \in Nat, NEW y \in Nat, NEW w \in Nat, NEW h \in Nat
  PROVE  /\ Rect(x, y, w, h) \in Seq(Boxes(x, y, w, h))
         /\ x < scene.w /\ y < scene.h => Rect(x, y, w, h) # << >>
<1> DEFINE A == Area("shape", x, y, End(x, w, scene.w), End(y, h, scene.h))
<1>0. scene.w \in Nat /\ scene.h \in Nat
  BY SceneIs
<1>1. ASSUME x < scene.w, y < scene.h
      PROVE  A \in Boxes(x, y, w, h)
  <2>1. End(x, w, scene.w) \in Nat /\ End(x, w, scene.w) <= x + w
    BY <1>0, <1>1 DEF End
  <2>2. End(y, h, scene.h) \in Nat /\ End(y, h, scene.h) <= y + h
    BY <1>0, <1>1 DEF End
  <2> QED BY <2>1, <2>2 DEF Boxes, Shapes, Areas, Area
<1> HIDE DEF A
<1>2. CASE x < scene.w /\ y < scene.h
  <2>1. Rect(x, y, w, h) = <<A>>
    BY <1>0, <1>2 DEF Rect, A
  <2> QED BY <1>1, <1>2, <2>1
<1>3. CASE ~(x < scene.w /\ y < scene.h)
  BY <1>0, <1>3 DEF Rect
<1> QED BY <1>2, <1>3
LEMMA LineDrawn ==
  ASSUME scene \in Scenes, NEW x0 \in Nat, NEW y0 \in Nat, NEW x1 \in Nat, NEW y1 \in Nat
  PROVE  /\ Line(x0, y0, x1, y1) \in Seq(Shapes)
         /\ y0 >= 120 /\ scene.h >= 121 => Line(x0, y0, x1, y1) \in Seq(Shapes \cap Down(120))
<1> DEFINE A == Area("shape", Clip(x0, scene.w), Clip(y0, scene.h), Clip(x1, scene.w) + 1, Clip(y1, scene.h) + 1)
<1>0. scene.w \in Nat /\ scene.h \in Nat
  BY SceneIs
<1>1. Clip(x0, scene.w) \in Int /\ Clip(y0, scene.h) \in Int /\ Clip(x1, scene.w) \in Int /\ Clip(y1, scene.h) \in Int
  BY <1>0 DEF Clip
<1>2. y0 >= 120 /\ scene.h >= 121 => Clip(y0, scene.h) >= 120
  BY <1>0 DEF Clip
<1>3. A \in Shapes /\ A.t = Clip(y0, scene.h)
  BY <1>1 DEF Area, Shapes, Areas
<1>4. Line(x0, y0, x1, y1) = <<A>>
  BY DEF Line
<1> HIDE DEF A
<1>5. y0 >= 120 /\ scene.h >= 121 => A \in Down(120)
  BY <1>2, <1>3 DEF Down, Shapes
<1> QED BY <1>3, <1>4, <1>5

LEMMA CircleDrawn ==
  ASSUME NEW cx \in Nat, NEW cy \in Nat, NEW r \in Nat
  PROVE  Circle(cx, cy, r) \in Seq(Shapes \cap Down(cy - r) \cap Right(cx - r))
<1> DEFINE A == Area("shape", cx - r, cy - r, cx + r + 1, cy + r + 1)
<1>1. A \in Shapes \cap Down(cy - r) \cap Right(cx - r)
  BY DEF Area, Shapes, Areas, Down, Right
<1>2. Circle(cx, cy, r) = <<A>>
  BY DEF Circle
<1> HIDE DEF A
<1> QED BY <1>1, <1>2

(* A string fills rows, each ten pixels below the one before.              *)
Lines(x, y) == {a \in Areas : a.kind = "text" /\ a.l = x /\ y <= a.t /\ a.b = a.t + 8}
LEMMA TextDrawn ==
  ASSUME scene \in Scenes, NEW x \in Nat, NEW y \in Nat, NEW n \in Nat
  PROVE  /\ Text(x, y, n) \in Seq(Lines(x, y))
         /\ LET fit == (scene.w - x) \div 8
            IN x < scene.w /\ fit >= 1 => \A k \in DOMAIN Text(x, y, n) :
                 /\ Text(x, y, n)[k].t = y + 10 * (k - 1)
                 /\ Text(x, y, n)[k].r = x + 8 * (IF k * fit <= n THEN fit ELSE n % fit)
                 /\ k \in Nat \ {0} /\ k <= (n + fit - 1) \div fit
<1> DEFINE fit   == (scene.w - x) \div 8
           per   == IF fit = 0 THEN 1 ELSE fit
           first == IF fit = 0 THEN 1 ELSE 0
           rows  == (n + per - 1) \div per
           room  == ((scene.h - y + 9) \div 10) - first
           row(k) == Area("text", x, y + 10 * (k - 1 + first),
                          x + 8 * (IF k * per <= n THEN per ELSE n % per), y + 10 * (k - 1 + first) + 8)
           m == IF rows <= room THEN rows ELSE room
<1>0. scene.w \in Nat /\ scene.h \in Nat
  BY SceneIs
<1>1. CASE x >= scene.w \/ y >= scene.h
  <2>1. Text(x, y, n) = << >>
    BY <1>1 DEF Text
  <2> QED BY <2>1
<1>2. CASE ~(x >= scene.w \/ y >= scene.h)
  <2>1. Text(x, y, n) = [k \in 1 .. m |-> row(k)]
    BY <1>2 DEF Text
  <2>2. fit \in Nat /\ per \in Nat \ {0} /\ first \in {0, 1}
    <3>1. scene.w - x \in Nat
      BY <1>0, <1>2
    <3>2. fit \in Nat
      BY <3>1
    <3> HIDE DEF fit
    <3> QED BY <3>2
  <2>3. rows \in Nat
    <3> HIDE DEF per
    <3> QED BY <2>2
  <2>4. room \in Nat
    <3>1. (scene.h - y + 9) \div 10 \in Nat /\ (scene.h - y + 9) \div 10 >= 1
      BY <1>0, <1>2
    <3> HIDE DEF first
    <3> QED BY <2>2, <3>1
  <2>5. m \in Nat /\ m <= rows
    <3> HIDE DEF rows, room
    <3> QED BY <2>3, <2>4
  <2> HIDE DEF m
  <2>6. ASSUME NEW k \in 1 .. m
        PROVE  /\ row(k) \in Lines(x, y)
               /\ row(k).t = y + 10 * (k - 1 + first)
               /\ row(k).r = x + 8 * (IF k * per <= n THEN per ELSE n % per)
    <3> DEFINE t == y + 10 * (k - 1 + first)
               r == x + 8 * (IF k * per <= n THEN per ELSE n % per)
    <3>1. t \in Int /\ t >= y
      <4> HIDE DEF first
      <4> QED BY <2>2, <2>5
    <3>2. r \in Int
      <4>1. n % per \in Int
        <5> HIDE DEF per
        <5> QED BY <2>2
      <4> HIDE DEF per
      <4> QED BY <2>2, <4>1
    <3>3. row(k) = [kind |-> "text", l |-> x, t |-> t, r |-> r, b |-> t + 8]
      BY DEF Area
    <3> HIDE DEF t, r
    <3>4. row(k) \in Lines(x, y) /\ row(k).t = t /\ row(k).r = r
      <4> HIDE DEF row
      <4> QED BY <3>1, <3>2, <3>3 DEF Lines, Areas
    <3> QED BY <3>4 DEF t, r
  <2> HIDE DEF row, rows, room
  <2>7. Text(x, y, n) \in Seq(Lines(x, y)) /\ DOMAIN Text(x, y, n) = 1 .. m /\ \A k \in 1 .. m : Text(x, y, n)[k] = row(k)
    <3>1. Text(x, y, n) \in [1 .. m -> Lines(x, y)]
      BY <2>1, <2>6
    <3> QED BY <2>1, <2>5, <3>1
  <2>8. fit >= 1 => per = fit /\ first = 0
    BY <2>2
  <2>9. ASSUME fit >= 1, NEW k \in 1 .. m
        PROVE  /\ Text(x, y, n)[k].t = y + 10 * (k - 1)
               /\ Text(x, y, n)[k].r = x + 8 * (IF k * fit <= n THEN fit ELSE n % fit)
               /\ k \in Nat \ {0} /\ k <= (n + fit - 1) \div fit
    <3>1. Text(x, y, n)[k] = row(k) /\ per = fit /\ first = 0
      BY <2>7, <2>8, <2>9
    <3>2. row(k).t = y + 10 * (k - 1)
      BY <2>6, <3>1
    <3>3. row(k).r = x + 8 * (IF k * fit <= n THEN fit ELSE n % fit)
      BY <2>6, <3>1, Zenon
    <3>4. k \in Nat \ {0} /\ k <= rows
      BY <2>3, <2>5
    <3>5. rows = (n + fit - 1) \div fit
      BY <3>1 DEF rows
    <3> QED BY <3>1, <3>2, <3>3, <3>4, <3>5, Zenon
  <2> QED BY <2>7, <2>9, Zenon
<1> QED BY <1>1, <1>2

LEMMA TextTyped ==
  ASSUME scene \in Scenes, NEW x \in Nat, NEW y \in Nat, NEW n \in Nat
  PROVE  Text(x, y, n) \in Seq(Areas)
<1> DEFINE q == Text(x, y, n)
<1>1. q \in Seq(Lines(x, y))
  BY TextDrawn, Zenon
<1>2. Lines(x, y) \subseteq Areas
  BY DEF Lines
<1> HIDE DEF q
<1>3. q \in Seq(Areas)
  BY <1>1, <1>2
<1> QED BY <1>3 DEF q

(* In its place: one row when the string fits beside x.                    *)
Strip(x, y, n) == {a \in Lines(x, y) : a.t = y /\ a.r <= x + 8 * n}
LEMMA RowDrawn ==
  ASSUME scene \in Scenes, NEW x \in Nat, NEW y \in Nat, NEW n \in Nat, x + 8 * n <= scene.w, x + 8 <= scene.w
  PROVE  Text(x, y, n) \in Legibles(Strip(x, y, n))
<1> DEFINE fit == (scene.w - x) \div 8
<1>1. x < scene.w /\ fit \in Nat /\ fit >= 1 /\ fit >= n
  <2> DEFINE v == scene.w - x
  <2>1. v \in Nat /\ v >= 8 /\ v >= 8 * n /\ x < scene.w
    BY Sizes
  <2> HIDE DEF v
  <2>2. v \div 8 \in Nat /\ v \div 8 >= 1 /\ v \div 8 >= n
    BY <2>1
  <2> QED BY <2>1, <2>2 DEF v
<1>2. /\ Text(x, y, n) \in Seq(Lines(x, y))
      /\ \A k \in DOMAIN Text(x, y, n) :
           /\ Text(x, y, n)[k].t = y + 10 * (k - 1)
           /\ Text(x, y, n)[k].r = x + 8 * (IF k * fit <= n THEN fit ELSE n % fit)
           /\ k \in Nat \ {0} /\ k <= (n + fit - 1) \div fit
  BY <1>1, TextDrawn, Zenon
<1> HIDE DEF fit
<1> DEFINE q == Text(x, y, n)
<1>3. \A k \in DOMAIN q : k = 1
  <2>1. (n + fit - 1) \div fit <= 1
    BY <1>1
  <2>2. (n + fit - 1) \div fit \in Int
    BY <1>1
  <2> QED BY <1>2, <2>1, <2>2
<1>4. ASSUME NEW k \in DOMAIN q
      PROVE  q[k] \in Strip(x, y, n)
  <2>1. k = 1 /\ q[k] \in Lines(x, y)
    BY <1>2, <1>3
  <2>2. q[k].t = y
    <3>1. q[k].t = y + 10 * (1 - 1)
      BY <1>2, <2>1, Zenon
    <3> HIDE DEF q
    <3> QED BY <3>1
  <2>3. q[k].r = x + 8 * (IF 1 * fit <= n THEN fit ELSE n % fit)
    BY <1>2, <2>1
  <2>4. CASE fit <= n
    <3>1. fit = n
      BY <1>1, <2>4
    <3>2. q[k].r = x + 8 * n
      BY <1>1, <2>3, <3>1
    <3> QED BY <2>1, <2>2, <3>2 DEF Strip
  <2>5. CASE ~(fit <= n)
    <3>1. n % fit = n
      BY <1>1, <2>5
    <3>2. q[k].r = x + 8 * (n % fit)
      BY <1>1, <2>3, <2>5
    <3>3. q[k].r = x + 8 * n
      BY <3>1, <3>2
    <3> QED BY <2>1, <2>2, <3>3 DEF Strip
  <2> QED BY <2>4, <2>5
<1>5. q \in Seq(Strip(x, y, n))
  <2> HIDE DEF q
  <2>1. q \in Seq(Lines(x, y))
    BY <1>2 DEF q
  <2> QED BY <1>4, <2>1
<1>6. Legible(q)
  <2>1. \A j \in DOMAIN q : 1 .. j - 1 = {}
    BY <1>3
  <2> QED BY <2>1 DEF Legible
<1> QED BY <1>5, <1>6 DEF Legibles

(* Rows of one string do not cover each other.                             *)
LEMMA TextLegible ==
  ASSUME scene \in Scenes, NEW x \in Nat, NEW y \in Nat, NEW n \in Nat, x + 8 <= scene.w
  PROVE  Text(x, y, n) \in Legibles(Lines(x, y))
<1> DEFINE q == Text(x, y, n)
<1>1. x < scene.w /\ (scene.w - x) \div 8 >= 1
  BY SceneIs
<1>2. q \in Seq(Lines(x, y)) /\ \A k \in DOMAIN q : q[k].t = y + 10 * (k - 1)
  <2> DEFINE fit == (scene.w - x) \div 8
  <2>1. /\ q \in Seq(Lines(x, y))
        /\ \A k \in DOMAIN q :
             /\ q[k].t = y + 10 * (k - 1)
             /\ q[k].r = x + 8 * (IF k * fit <= n THEN fit ELSE n % fit)
             /\ k \in Nat \ {0} /\ k <= (n + fit - 1) \div fit
    BY <1>1, TextDrawn, Zenon
  <2> HIDE DEF q, fit
  <2> QED BY <2>1, Zenon
<1> HIDE DEF q
<1>3. ASSUME NEW j \in DOMAIN q, NEW i \in 1 .. j - 1
      PROVE  ~Overlap(q[i], q[j])
  <2>1. i \in DOMAIN q /\ i \in Int /\ j \in Int /\ i < j
    BY <1>2
  <2>2. q[i].t = y + 10 * (i - 1) /\ q[j].t = y + 10 * (j - 1)
    BY <1>2, <2>1
  <2>3. q[i].b = q[i].t + 8
    BY <1>2, <2>1 DEF Lines
  <2>4. ~(q[j].t < q[i].b)
    BY <2>1, <2>2, <2>3
  <2> QED BY <2>4 DEF Overlap
<1> QED BY <1>2, <1>3, Zenon DEF Legibles, Legible, q

(* Sets of areas that hold two parts of a picture.                         *)
LEMMA Together ==
  ASSUME NEW S, NEW T, NEW U, NEW p \in Legibles(S), NEW q \in Legibles(T), Free(S, T), S \subseteq U, T \subseteq U
  PROVE  p \o q \in Legibles(U)
<1>1. p \o q \in Legibles(S \cup T)
  BY BothLegible
<1>2. S \cup T \subseteq U
  OBVIOUS
<1> QED BY <1>1, <1>2, LegibleOver

LEMMA BoxLegible ==
  ASSUME scene \in Scenes, NEW x \in Nat, NEW y \in Nat, NEW w \in Nat, NEW h \in Nat
  PROVE  /\ Rect(x, y, w, h) \in Seq(Areas)
         /\ Rect(x, y, w, h) \in Seq(Shapes \cap Down(y))
         /\ Rect(x, y, w, h) \in Legibles(Shapes \cap Down(y) \cap Up(y + h))
<1> DEFINE q == Rect(x, y, w, h)
           E == Shapes \cap Down(y) \cap Up(y + h)
<1>1. q \in Seq(Boxes(x, y, w, h))
  BY RectDrawn
<1>2. Boxes(x, y, w, h) \subseteq E /\ E \subseteq Areas /\ E \subseteq Shapes /\ E \subseteq Shapes \cap Down(y)
  BY DEF Boxes, Shapes, Areas, Down, Up
<1> HIDE DEF q, E
<1>3. q \in Seq(E) /\ q \in Seq(Areas) /\ q \in Seq(Shapes \cap Down(y))
  BY <1>1, <1>2
<1>4. Legibles(E) = Seq(E)
  BY <1>2, ShapesLegible
<1> QED BY <1>3, <1>4 DEF q, E

LEMMA BoxTyped ==
  ASSUME scene \in Scenes, NEW x \in Nat, NEW y \in Nat, NEW w \in Nat, NEW h \in Nat
  PROVE  Rect(x, y, w, h) \in Seq(Areas)
BY BoxLegible, Zenon

LEMMA BoxBelow ==
  ASSUME scene \in Scenes, NEW x \in Nat, NEW y \in Nat, NEW w \in Nat, NEW h \in Nat
  PROVE  Rect(x, y, w, h) \in Seq(Shapes \cap Down(y))
BY BoxLegible, Zenon

LEMMA TwoDrawn == \A E : \A p, q \in Seq(E) : p \o q \in Seq(E)
OBVIOUS

LEMMA AllFlat ==
  ASSUME NEW E, NEW s \in Seq(Seq(E))
  PROVE  FlattenSeq(s) \in Seq(E)
<1> DEFINE N == Len(s)
           P == [i \in 0 .. N |-> Seq(E)]
<1>1. N \in Nat /\ \A i \in 1 .. N : s[i] \in Seq(E)
  OBVIOUS
<1>2. P \in [0 .. N -> SUBSET Seq(E)]
  OBVIOUS
<1>3. Grows(s, P)
  <2>1. \A p, q \in Seq(E) : p \o q \in Seq(E)
    OBVIOUS
  <2>2. << >> \in Seq(E)
    OBVIOUS
  <2>3. P[0] = Seq(E) /\ \A i \in 1 .. N : P[i - 1] = Seq(E) /\ P[i] = Seq(E)
    BY <1>1
  <2> HIDE DEF P
  <2> QED BY <1>1, <2>1, <2>2, <2>3, Zenon DEF Grows, N
<1>4. FlattenSeq(s) \in P[N]
  <2> HIDE DEF P
  <2> QED BY <1>2, <1>3, FlattenInto
<1> QED BY <1>1, <1>4

-----------------------------------------------------------------------------
(* Frames: the widgets.                                                    *)
Roomy == scene.w >= 648 /\ scene.h >= 121

LEMMA WantedIs ==
  /\ Len(Wanted) = 3 /\ DOMAIN Wanted = 1 .. 3
  /\ Wanted[1] = [x |-> 0, y |-> 0, w |-> scene.w, h |-> 40, bordered |-> FALSE, background |-> TRUE, draw |-> "banner"]
  /\ Wanted[2] = [x |-> 16, y |-> 60, w |-> 340, h |-> 90, bordered |-> TRUE, background |-> TRUE, draw |-> "tonalpohualli"]
  /\ Wanted[3] = [x |-> 16, y |-> 100, w |-> Minus(scene.w, 32), h |-> 280, bordered |-> FALSE, background |-> FALSE, draw |-> "ritual_geo"]
BY DEF Wanted, Widget

LEMMA BannerDrawn ==
  ASSUME scene \in Scenes
  PROVE  /\ DrawnWidget(Wanted[1]) \in Seq(Areas)
         /\ Roomy => DrawnWidget(Wanted[1]) \in Legibles(Up(40))
<1> DEFINE box == Rect(0, 0, scene.w, 40)
           title == Text(16, 12, 68)
<1>0. /\ scene.w \in Nat /\ 0 \in Nat /\ 40 \in Nat /\ 16 \in Nat /\ 12 \in Nat /\ 68 \in Nat
  BY SceneIs
<1>1. DrawnWidget(Wanted[1]) = (box \o << >>) \o title
  <2>1. draw_banner_widget(Wanted[1]) = title
    <3>1. Wanted[1].x + 16 = 16 /\ Wanted[1].y + 12 = 12
      BY WantedIs
    <3> QED BY <3>1, Zenon DEF draw_banner_widget
  <2> HIDE DEF title
  <2> QED BY <2>1, WantedIs DEF DrawnWidget
<1>2. box \in Seq(Areas) /\ box \in Legibles(Shapes \cap Down(0) \cap Up(0 + 40))
  BY <1>0, BoxLegible, Zenon
<1>3. title \in Seq(Areas)
  BY <1>0, TextTyped, Zenon
<1>4. Roomy => title \in Legibles(Strip(16, 12, 68))
  <2>1. Roomy => 16 + 8 * 68 <= scene.w /\ 16 + 8 <= scene.w
    BY <1>0 DEF Roomy
  <2> QED BY <1>0, <2>1, RowDrawn, Zenon
<1> HIDE DEF box, title
<1>5. box \o << >> = box
  BY <1>2, ConcatEmptySeq
<1>6. ASSUME Roomy PROVE box \o title \in Legibles(Up(40))
  <2>1. Free(Shapes \cap Down(0) \cap Up(0 + 40), Strip(16, 12, 68))
    BY DEF Free, Shapes, Areas, Down, Up, Strip, Lines
  <2>2. Shapes \cap Down(0) \cap Up(0 + 40) \subseteq Up(40)
    OBVIOUS
  <2>3. Strip(16, 12, 68) \subseteq Up(40)
    BY DEF Strip, Lines, Up, Areas
  <2> QED BY <1>2, <1>4, <1>6, <2>1, <2>2, <2>3, Together
<1> QED BY <1>1, <1>2, <1>3, <1>5, <1>6, TwoDrawn

LEMMA SignOf ==
  ASSUME NEW now \in Nat
  PROVE  \E n \in 11 .. 23 : n = DAY_SIGNS[pit_get_tonal_time(now).veintena_sign + 1]
<1> DEFINE k == (TotalDays(now) % 20) + 1
<1>1. now \div DAY_TICKS \in Nat
  BY SceneAssumption
<1>2. TotalDays(now) \in Nat
  <2> DEFINE d == now \div DAY_TICKS
  <2> HIDE DEF d
  <2>1. d % 260 \in Nat
    BY <1>1 DEF d
  <2> QED BY <2>1 DEF TotalDays, d
<1>3. k \in 1 .. 20
  BY <1>2
<1>4. DAY_SIGNS[k] \in 11 .. 23
  <2> HIDE DEF k
  <2> QED BY <1>3 DEF DAY_SIGNS
<1>5. pit_get_tonal_time(now).veintena_sign + 1 = k
  BY DEF pit_get_tonal_time
<1> HIDE DEF k
<1> QED BY <1>4, <1>5, Zenon

LEMMA DateDrawn ==
  ASSUME scene \in Scenes, ticks \in Nat
  PROVE  /\ DrawnWidget(Wanted[2]) \in Seq(Areas)
         /\ Roomy => DrawnWidget(Wanted[2]) \in Legibles(Down(60) \cap (Shapes \cup Up(78) \cup (Up(120) \cap Left(288))))
<1> DEFINE E == Shapes \cap Down(60)
           all == Rect(16, 60, 340, 90)
           top == Rect(16, 60, 340, 2)
           foot == Rect(16, 148, 340, 2)
           left == Rect(16, 60, 2, 90)
           right == Rect(354, 60, 2, 90)
<1>0. /\ 60 \in Nat /\ 340 \in Nat /\ 90 \in Nat /\ 16 \in Nat /\ 2 \in Nat /\ 148 \in Nat /\ 354 \in Nat
      /\ 28 \in Nat /\ 70 \in Nat /\ 33 \in Nat /\ 92 \in Nat /\ 15 \in Nat /\ 160 \in Nat /\ 112 \in Nat
      /\ 9 \in Nat /\ 104 \in Nat
  OBVIOUS
<1>1. PICK n \in 11 .. 23 : n = DAY_SIGNS[pit_get_tonal_time(ticks).veintena_sign + 1]
  BY SignOf, Zenon
<1> DEFINE heading == Text(28, 70, 33)
           trecena == Text(28, 92, 15)
           number == Text(160, 92, 2)
           sign == Text(28, 112, 9)
           name == Text(104, 112, n)
           boxes == (((all \o top) \o foot) \o left) \o right
           texts == (((heading \o trecena) \o number) \o sign) \o name
<1>2. n \in Nat
  OBVIOUS
<1>3. DrawnWidget(Wanted[2]) = (all \o (((top \o foot) \o left) \o right)) \o texts
  <2> DEFINE w == Wanted[2]
  <2>1. /\ w.x + 12 = 28 /\ w.y + 10 = 70 /\ w.y + 32 = 92 /\ w.x + 144 = 160 /\ w.y + 52 = 112 /\ w.x + 88 = 104
    BY WantedIs
  <2>2. draw_tonalpohualli_widget(w, pit_get_tonal_time(ticks)) = texts
    <3> HIDE DEF w
    <3> QED BY <1>1, <2>1, Zenon DEF draw_tonalpohualli_widget
  <2>3. /\ w.x = 16 /\ w.y = 60 /\ w.w = 340 /\ w.h = 90 /\ w.bordered = TRUE /\ w.background = TRUE
        /\ w.draw = "tonalpohualli"
    BY WantedIs
  <2>4. Minus(w.y + w.h, 2) = 148 /\ Minus(w.x + w.w, 2) = 354
    <3>1. UINT \in Nat /\ UINT >= 1024
      BY SceneAssumption
    <3>2. Minus(150, 2) = 148 /\ Minus(356, 2) = 354
      BY <3>1 DEF Minus
    <3>3. w.y + w.h = 150 /\ w.x + w.w = 356
      BY <2>3
    <3> HIDE DEF w
    <3> QED BY <3>2, <3>3
  <2> HIDE DEF w, texts
  <2>5. DrawnWidget(w) = (all \o (((top \o foot) \o left) \o right)) \o texts
    <3>1. DrawnWidget(w) = (Rect(w.x, w.y, w.w, w.h) \o (((Rect(w.x, w.y, w.w, 2) \o Rect(w.x, Minus(w.y + w.h, 2), w.w, 2))
                              \o Rect(w.x, w.y, 2, w.h)) \o Rect(Minus(w.x + w.w, 2), w.y, 2, w.h)))
                           \o draw_tonalpohualli_widget(w, pit_get_tonal_time(ticks))
      BY <2>3 DEF DrawnWidget
    <3>2. Rect(w.x, w.y, w.w, w.h) = all
      BY <2>3
    <3>3. Rect(w.x, w.y, w.w, 2) = top
      BY <2>3
    <3>4. Rect(w.x, Minus(w.y + w.h, 2), w.w, 2) = foot
      BY <2>3, <2>4
    <3>5. Rect(w.x, w.y, 2, w.h) = left
      BY <2>3
    <3>6. Rect(Minus(w.x + w.w, 2), w.y, 2, w.h) = right
      BY <2>3, <2>4
    <3> HIDE DEF all, top, foot, left, right
    <3> QED BY <2>2, <3>1, <3>2, <3>3, <3>4, <3>5, <3>6, Zenon
  <2> QED BY <2>5 DEF w
<1>4. all \in Seq(E) /\ top \in Seq(E) /\ foot \in Seq(E) /\ left \in Seq(E) /\ right \in Seq(E)
  <2>1. all \in Seq(Shapes \cap Down(60)) /\ top \in Seq(Shapes \cap Down(60))
    BY BoxBelow
  <2>4. left \in Seq(Shapes \cap Down(60)) /\ right \in Seq(Shapes \cap Down(60))
    BY BoxBelow
  <2>2. foot \in Seq(Shapes \cap Down(148))
    BY BoxBelow
  <2>3. Down(148) \subseteq Down(60)
    BY DEF Down, Areas
  <2> HIDE DEF foot
  <2> QED BY <2>1, <2>2, <2>3, <2>4
<1>5. /\ heading \in Seq(Areas) /\ trecena \in Seq(Areas) /\ number \in Seq(Areas) /\ sign \in Seq(Areas)
      /\ name \in Seq(Areas)
  BY <1>0, <1>2, TextTyped, Zenon
<1>6. ASSUME Roomy
      PROVE  /\ heading \in Legibles(Strip(28, 70, 33)) /\ trecena \in Legibles(Strip(28, 92, 15))
             /\ number \in Legibles(Strip(160, 92, 2)) /\ sign \in Legibles(Strip(28, 112, 9))
             /\ name \in Legibles(Strip(104, 112, n))
  <2>0. scene.w \in Nat /\ scene.w >= 648
    BY <1>6, SceneIs DEF Roomy
  <2>1. heading \in Legibles(Strip(28, 70, 33))
    BY <2>0, RowDrawn
  <2>2. trecena \in Legibles(Strip(28, 92, 15))
    BY <2>0, RowDrawn
  <2>3. number \in Legibles(Strip(160, 92, 2))
    BY <2>0, RowDrawn
  <2>4. sign \in Legibles(Strip(28, 112, 9))
    BY <2>0, RowDrawn
  <2>5. name \in Legibles(Strip(104, 112, n))
    BY <2>0, <1>2, RowDrawn
  <2> QED BY <2>1, <2>2, <2>3, <2>4, <2>5, Zenon
<1> HIDE DEF all, top, foot, left, right, heading, trecena, number, sign, name
<1> DEFINE borders == ((top \o foot) \o left) \o right
<1>7. all \o borders \in Seq(E)
  <2> HIDE DEF E
  <2> QED BY <1>4, TwoDrawn
<1>8. texts \in Seq(Areas)
  BY <1>5, TwoDrawn
<1>9. ASSUME Roomy
      PROVE  texts \in Legibles(Down(60) \cap (Up(78) \cup (Up(120) \cap Left(288))))
  <2> DEFINE S1 == Strip(28, 70, 33)
             S2 == S1 \cup Strip(28, 92, 15)
             S3 == S2 \cup Strip(160, 92, 2)
             S4 == S3 \cup Strip(28, 112, 9)
             S5 == S4 \cup Strip(104, 112, n)
  <2>1. /\ Free(S1, Strip(28, 92, 15)) /\ Free(S2, Strip(160, 92, 2)) /\ Free(S3, Strip(28, 112, 9))
        /\ Free(S4, Strip(104, 112, n))
    BY DEF Free, Strip, Lines, Areas, Overlap
  <2> HIDE DEF S1, S2, S3, S4, S5
  <2>2. heading \o trecena \in Legibles(S2)
    BY <1>6, <1>9, <2>1, BothLegible, Zenon DEF S1, S2
  <2>3. (heading \o trecena) \o number \in Legibles(S3)
    BY <1>6, <1>9, <2>1, <2>2, BothLegible, Zenon DEF S3
  <2>4. ((heading \o trecena) \o number) \o sign \in Legibles(S4)
    BY <1>6, <1>9, <2>1, <2>3, BothLegible, Zenon DEF S4
  <2>5. texts \in Legibles(S5)
    BY <1>6, <1>9, <2>1, <2>4, BothLegible, Zenon DEF S5
  <2>6. S5 \subseteq Down(60) \cap (Up(78) \cup (Up(120) \cap Left(288)))
    BY DEF S1, S2, S3, S4, S5, Strip, Lines, Areas, Down, Up, Left
  <2> QED BY <2>5, <2>6, LegibleOver
<1> HIDE DEF borders, texts
<1>10. ASSUME Roomy
       PROVE  (all \o borders) \o texts \in Legibles(Down(60) \cap (Shapes \cup Up(78) \cup (Up(120) \cap Left(288))))
  <2> DEFINE T == Down(60) \cap (Up(78) \cup (Up(120) \cap Left(288)))
             U == Down(60) \cap (Shapes \cup Up(78) \cup (Up(120) \cap Left(288)))
  <2>1. all \o borders \in Legibles(E)
    BY <1>7, ShapesLegible
  <2>2. Free(E, T)
    BY DEF Free, Shapes
  <2>3. E \subseteq U /\ T \subseteq U
    OBVIOUS
  <2>4. texts \in Legibles(T)
    BY <1>9, <1>10
  <2> HIDE DEF E, T, U
  <2>5. (all \o borders) \o texts \in Legibles(U)
    BY <2>1, <2>2, <2>3, <2>4, Together
  <2> QED BY <2>5 DEF U
<1>11. (all \o borders) \o texts \in Seq(Areas)
  <2>1. all \o borders \in Seq(Areas)
    <3>1. E \subseteq Areas
      BY DEF Shapes
    <3> HIDE DEF E
    <3> QED BY <1>7, <3>1
  <2> QED BY <1>8, <2>1, TwoDrawn
<1> QED BY <1>3, <1>10, <1>11, Zenon DEF borders

-----------------------------------------------------------------------------
(* Frames: the figures.                                                    *)
LEMMA PyramidDrawn ==
  ASSUME scene \in Scenes, NEW cx \in Nat
  PROVE  draw_step_pyramid(cx, 290, 240, 6) \in Seq(Shapes \cap Down(186))
<1> DEFINE E == Shapes \cap Down(186)
           span == 240 \div (6 + 1)
           width(i) == IF 240 > i * span THEN 240 - i * span ELSE 0
           left(w) == IF cx >= w \div 2 THEN cx - (w \div 2) ELSE 0
           step(i) == IF 290 < (i + 1) * 14 THEN << >> ELSE Rect(left(width(i)), 290 - (i + 1) * 14, width(i), 14)
           top == 6 * 14 + 20
           s == [k \in 1 .. 6 |-> step(k - 1)]
           house == IF 290 >= top THEN Rect(left(32), 290 - top, 32, 20) ELSE << >>
<1>1. draw_step_pyramid(cx, 290, 240, 6) = FlattenSeq(s) \o house
  BY DEF draw_step_pyramid
<1>2. \A w \in Nat : left(w) \in Nat
  OBVIOUS
<1>3. \A i \in 0 .. 5 : width(i) \in Nat
  <2>1. span = 34
    OBVIOUS
  <2> HIDE DEF span
  <2> QED BY <2>1
<1> HIDE DEF left, width
<1>4. ASSUME NEW k \in 1 .. 6
      PROVE  step(k - 1) \in Seq(E)
  <2> DEFINE i == k - 1
             y == 290 - (i + 1) * 14
             x == left(width(i))
             v == width(i)
  <2>1. i \in 0 .. 5 /\ y \in Nat /\ y >= 186 /\ ~(290 < (i + 1) * 14)
    OBVIOUS
  <2>2. x \in Nat /\ v \in Nat /\ 14 \in Nat
    BY <1>2, <1>3, <2>1
  <2>3. step(i) = Rect(x, y, v, 14)
    BY <2>1, Zenon
  <2> HIDE DEF x, y, v, step, i
  <2>4. step(i) \in Seq(Shapes \cap Down(y))
    <3>1. Rect(x, y, v, 14) \in Seq(Shapes \cap Down(y))
      <4>1. y \in Nat
        BY <2>1
      <4> QED BY <2>2, <4>1, BoxBelow
    <3> QED BY <2>3, <3>1
  <2>5. Shapes \cap Down(y) \subseteq E
    BY <2>1 DEF Down, Areas
  <2> HIDE DEF E
  <2>6. step(i) \in Seq(E)
    BY <2>4, <2>5
  <2> QED BY <2>6 DEF i
<1>5. house \in Seq(E)
  <2>1. top = 104 /\ 290 - top = 186 /\ 290 >= top
    OBVIOUS
  <2> DEFINE x == left(32)
  <2>2. x \in Nat
    BY <1>2
  <2> HIDE DEF top
  <2>3. house = Rect(x, 186, 32, 20)
    BY <2>1, Zenon
  <2> HIDE DEF house, x
  <2>4. Rect(x, 186, 32, 20) \in Seq(Shapes \cap Down(186))
    BY <2>2, BoxBelow
  <2> QED BY <2>3, <2>4, Zenon
<1> HIDE DEF step, house, E
<1>6. s \in Seq(Seq(E))
  <2> DEFINE Q == Seq(E)
  <2>1. \A k \in 1 .. 6 : step(k - 1) \in Q
    BY <1>4
  <2> HIDE DEF Q
  <2>2. s \in [1 .. 6 -> Q] /\ 6 \in Nat
    BY <2>1
  <2>3. s \in Seq(Q)
    BY <2>2
  <2> QED BY <2>3 DEF Q
<1> HIDE DEF s
<1>7. FlattenSeq(s) \in Seq(E)
  BY <1>6, AllFlat
<1>8. FlattenSeq(s) \o house \in Seq(E)
  BY <1>5, <1>7, TwoDrawn
<1> QED BY <1>1, <1>8 DEF E

LEMMA SerpentDrawn ==
  ASSUME scene \in Scenes, NEW now \in Nat
  PROVE  draw_feathered_serpent(56, 330, 16, now) \in Seq(Shapes \cap Down(186))
<1> DEFINE E == Shapes \cap Down(186)
           wave(i) == IF (i + (now \div 5)) % 8 < 4 THEN 4 ELSE -4
           height(i) == IF wave(i) < 0 /\ 4 > 330 THEN 0 ELSE Plus(330, wave(i))
           scale(i) == Rect(Plus(56, i * 12), height(i), 10, 10)
           s == [k \in 1 .. 16 |-> scale(k - 1)]
<1>1. draw_feathered_serpent(56, 330, 16, now) = FlattenSeq(s)
  BY DEF draw_feathered_serpent
<1>2. UINT \in Nat /\ UINT >= 1024
  BY SceneAssumption
<1>3. ASSUME NEW k \in 1 .. 16
      PROVE  scale(k - 1) \in Seq(E)
  <2> DEFINE i == k - 1
             x == Plus(56, i * 12)
             y == height(i)
  <2>1. x \in Nat
    <3>1. 56 + i * 12 \in Nat
      OBVIOUS
    <3> DEFINE a == 56 + i * 12
    <3> HIDE DEF a
    <3>2. a % UINT \in Nat
      BY <1>2, <3>1 DEF a
    <3> QED BY <3>2 DEF a, Plus
  <2>2. y \in Nat /\ y >= 186
    <3>1. 334 % UINT = 334 /\ 326 % UINT = 326
      BY <1>2
    <3>2. Plus(330, 4) = 334 /\ Plus(330, -4) = 326
      BY <3>1 DEF Plus
    <3>3. wave(i) \in {4, -4}
      OBVIOUS
    <3> HIDE DEF wave
    <3>4. y = Plus(330, wave(i))
      OBVIOUS
    <3> HIDE DEF y
    <3> QED BY <3>2, <3>3, <3>4
  <2>3. scale(i) = Rect(x, y, 10, 10)
    OBVIOUS
  <2> HIDE DEF x, y, scale, i
  <2>4. scale(i) \in Seq(Shapes \cap Down(y))
    <3>1. 10 \in Nat /\ y \in Nat
      BY <2>2
    <3>2. Rect(x, y, 10, 10) \in Seq(Shapes \cap Down(y))
      BY <2>1, <3>1, BoxLegible, Zenon
    <3> QED BY <2>3, <3>2
  <2>5. Shapes \cap Down(y) \subseteq E
    BY <2>2 DEF Down, Areas
  <2> HIDE DEF E
  <2>6. scale(i) \in Seq(E)
    BY <2>4, <2>5
  <2> QED BY <2>6 DEF i
<1> HIDE DEF scale, E
<1>4. s \in Seq(Seq(E))
  <2> DEFINE Q == Seq(E)
  <2>1. \A k \in 1 .. 16 : scale(k - 1) \in Q
    BY <1>3
  <2> HIDE DEF Q
  <2>2. s \in [1 .. 16 -> Q] /\ 16 \in Nat
    BY <2>1
  <2>3. s \in Seq(Q)
    BY <2>2
  <2> QED BY <2>3 DEF Q
<1> HIDE DEF s
<1>5. FlattenSeq(s) \in Seq(E)
  BY <1>4, AllFlat
<1> QED BY <1>1, <1>5 DEF E

LEMMA SunDrawn ==
  ASSUME NEW cx \in Nat
  PROVE  /\ draw_sun_disk(cx, 120, 36) \in Seq(Shapes)
         /\ cx >= 324 => draw_sun_disk(cx, 120, 36) \in Seq(Shapes \cap Down(84) \cap Right(288))
<1> DEFINE ring(r) == Circle(cx, 120, r)
           sun == ((ring(36) \o ring(30)) \o ring(18)) \o ring(36)
<1>1. draw_sun_disk(cx, 120, 36) = sun
  <2>1. 36 - 6 = 30 /\ 36 \div 2 = 18 /\ 36 > 6 /\ 36 > 12
    OBVIOUS
  <2> QED BY <2>1, Zenon DEF draw_sun_disk
<1>2. ASSUME NEW r \in {36, 30, 18}
      PROVE  /\ ring(r) \in Seq(Shapes)
             /\ cx >= 324 => ring(r) \in Seq(Shapes \cap Down(84) \cap Right(288))
  <2> DEFINE E == Shapes \cap Down(120 - r) \cap Right(cx - r)
  <2> DEFINE cy == 120
  <2>1. r \in Nat /\ cy \in Nat
    OBVIOUS
  <2>2. ring(r) \in Seq(E)
    <3> HIDE DEF cy
    <3>1. Circle(cx, cy, r) \in Seq(Shapes \cap Down(cy - r) \cap Right(cx - r))
      BY <2>1, CircleDrawn
    <3> QED BY <3>1 DEF cy
  <2>3. E \subseteq Shapes
    OBVIOUS
  <2>4. cx >= 324 => E \subseteq Shapes \cap Down(84) \cap Right(288)
    BY DEF Down, Right, Areas
  <2> HIDE DEF E, ring
  <2> QED BY <2>2, <2>3, <2>4
<1>3. /\ ring(36) \in Seq(Shapes) /\ ring(30) \in Seq(Shapes) /\ ring(18) \in Seq(Shapes)
      /\ cx >= 324 => /\ ring(36) \in Seq(Shapes \cap Down(84) \cap Right(288))
                      /\ ring(30) \in Seq(Shapes \cap Down(84) \cap Right(288))
                      /\ ring(18) \in Seq(Shapes \cap Down(84) \cap Right(288))
  BY <1>2
<1> HIDE DEF ring
<1>4. sun \in Seq(Shapes)
  BY <1>3, TwoDrawn
<1>5. ASSUME cx >= 324 PROVE sun \in Seq(Shapes \cap Down(84) \cap Right(288))
  <2> DEFINE E == Shapes \cap Down(84) \cap Right(288)
  <2>1. ring(36) \in Seq(E) /\ ring(30) \in Seq(E) /\ ring(18) \in Seq(E)
    BY <1>3, <1>5
  <2> HIDE DEF E
  <2>2. sun \in Seq(E)
    BY <2>1, TwoDrawn
  <2> QED BY <2>2 DEF E
<1> QED BY <1>1, <1>4, <1>5, Zenon

(* Pyramid, serpent and sun: no texts, below the date or to its right.     *)
Figures == Shapes \cap (Down(186) \cup (Down(84) \cap Right(288)))
LEMMA FiguresDrawn ==
  ASSUME scene \in Scenes, tick \in Nat
  PROVE  /\ DrawnWidget(Wanted[3]) \in Seq(Areas)
         /\ Roomy => DrawnWidget(Wanted[3]) \in Legibles(Figures)
<1> DEFINE w == Wanted[3]
           half == w.w \div 2
           cx == Plus(16, half)
           pyramid == draw_step_pyramid(cx, 290, 240, 6)
           sun == draw_sun_disk(cx, 120, 36)
           serpent == draw_feathered_serpent(56, 330, 16, tick)
           none == << >> \o << >>
<1>0. scene.w \in 1 .. UINT - 1 /\ UINT \in Nat /\ UINT >= 1024
  BY SceneIs
<1>1. w.w \in Nat /\ (Roomy => w.w = scene.w - 32)
  <2>1. w.w = (scene.w - 32) % UINT
    BY WantedIs DEF Minus
  <2>2. (scene.w - 32) % UINT \in Nat
    BY <1>0
  <2>3. Roomy => (scene.w - 32) % UINT = scene.w - 32
    BY <1>0 DEF Roomy
  <2> QED BY <2>1, <2>2, <2>3
<1>2. half \in Nat /\ (Roomy => half >= 308 /\ 16 + half < UINT)
  <2> HIDE DEF w
  <2>1. half \in Nat /\ 2 * half <= w.w /\ w.w <= 2 * half + 1
    BY <1>1
  <2>2. Roomy => scene.w >= 648
    BY DEF Roomy
  <2> HIDE DEF half
  <2> QED BY <1>0, <1>1, <2>1, <2>2
<1>3. cx \in Nat /\ (Roomy => cx >= 324)
  <2> HIDE DEF half
  <2>1. (16 + half) % UINT \in Nat
    BY <1>0, <1>2
  <2>2. Roomy => (16 + half) % UINT = 16 + half
    BY <1>0, <1>2
  <2>3. cx = (16 + half) % UINT
    BY DEF Plus
  <2> HIDE DEF cx
  <2> QED BY <1>2, <2>1, <2>2, <2>3
<1>4. DrawnWidget(w) = none \o ((pyramid \o sun) \o serpent)
  <2>1. /\ w.x = 16 /\ w.y + 190 = 290 /\ w.y + 20 = 120 /\ w.x + 40 = 56 /\ w.y + 230 = 330
        /\ w.bordered = FALSE /\ w.background = FALSE /\ w.draw = "ritual_geo"
    BY WantedIs
  <2> HIDE DEF w
  <2>2. draw_ritual_geo_widget(w) = (pyramid \o sun) \o serpent
    <3> DEFINE c == Plus(w.x, w.w \div 2)
    <3>1. c = cx
      BY <2>1
    <3>2. draw_ritual_geo_widget(w)
          = (draw_step_pyramid(c, w.y + 190, 240, 6) \o draw_sun_disk(c, w.y + 20, 36))
            \o draw_feathered_serpent(w.x + 40, w.y + 230, 16, tick)
      BY Zenon DEF draw_ritual_geo_widget
    <3> HIDE DEF c, cx
    <3>3. draw_step_pyramid(c, w.y + 190, 240, 6) = pyramid
      BY <2>1, <3>1
    <3>4. draw_sun_disk(c, w.y + 20, 36) = sun
      BY <2>1, <3>1
    <3>5. draw_feathered_serpent(w.x + 40, w.y + 230, 16, tick) = serpent
      BY <2>1
    <3> HIDE DEF pyramid, sun, serpent
    <3> QED BY <3>2, <3>3, <3>4, <3>5, Zenon
  <2> HIDE DEF pyramid, sun, serpent
  <2> QED BY <2>1, <2>2 DEF DrawnWidget
<1> HIDE DEF w, half, cx
<1>5. /\ pyramid \in Seq(Shapes \cap Down(186)) /\ serpent \in Seq(Shapes \cap Down(186))
      /\ sun \in Seq(Shapes) /\ (Roomy => sun \in Seq(Shapes \cap Down(84) \cap Right(288)))
  <2>1. pyramid \in Seq(Shapes \cap Down(186))
    BY <1>3, PyramidDrawn
  <2>2. serpent \in Seq(Shapes \cap Down(186))
    BY SerpentDrawn
  <2>3. sun \in Seq(Shapes) /\ (Roomy => sun \in Seq(Shapes \cap Down(84) \cap Right(288)))
    BY <1>3, SunDrawn
  <2> QED BY <2>1, <2>2, <2>3
<1> HIDE DEF pyramid, sun, serpent
<1>6. none = << >> /\ << >> \in Seq(Areas)
  BY ConcatEmptySeq
<1>7. Shapes \subseteq Areas /\ Shapes \cap Down(186) \subseteq Shapes
  BY DEF Shapes
<1>8. Shapes \cap Down(186) \subseteq Figures /\ Shapes \cap Down(84) \cap Right(288) \subseteq Figures /\ Figures \in SUBSET Shapes
  BY DEF Figures
<1>9. (pyramid \o sun) \o serpent \in Seq(Shapes)
  <2>1. pyramid \in Seq(Shapes) /\ serpent \in Seq(Shapes)
    BY <1>5, <1>7
  <2> QED BY <1>5, <2>1, TwoDrawn
<1>10. ASSUME Roomy PROVE (pyramid \o sun) \o serpent \in Seq(Figures)
  <2>1. pyramid \in Seq(Figures) /\ serpent \in Seq(Figures) /\ sun \in Seq(Figures)
    BY <1>5, <1>8, <1>10
  <2> QED BY <2>1, TwoDrawn
<1>11. Legibles(Figures) = Seq(Figures)
  BY <1>8, ShapesLegible
<1> DEFINE d == (pyramid \o sun) \o serpent
<1>12. d \in Seq(Areas)
  <2> HIDE DEF d
  <2>1. d \in Seq(Shapes)
    BY <1>9 DEF d
  <2> QED BY <1>7, <2>1
<1> HIDE DEF d, none
<1>13. none \o d = d
  BY <1>6, <1>12, ConcatEmptySeq
<1> QED BY <1>4, <1>10, <1>11, <1>12, <1>13, Zenon DEF d, w

-----------------------------------------------------------------------------
(* Frames: the console.                                                    *)

(* Lines of the history, twelve pixels apart.                              *)
LEMMA HistoryDrawn ==
  ASSUME scene \in Scenes, NEW y \in Nat, NEW s,
         s = [i \in 1 .. Len(scene.rows) |-> Text(24, y + 24 + ((i - 1) * 12), scene.rows[i])]
  PROVE  /\ FlattenSeq(s) \in Seq(Areas)
         /\ Roomy => FlattenSeq(s) \in Legibles(Down(y + 24) \cap Up(y + 80))
<1> DEFINE N == Len(scene.rows)
           top(i) == y + 24 + ((i - 1) * 12)
           row(i) == Text(24, top(i), scene.rows[i])
           P == [i \in 0 .. N |-> Legibles(Down(y + 24) \cap Up(y + 20 + 12 * i))]
<1>0. N \in 0 .. 5 /\ N \in Nat /\ scene.rows \in Seq(0 .. 63)
  BY SceneIs
<1>1. \A i \in 1 .. N : scene.rows[i] \in 0 .. 63 /\ scene.rows[i] \in Nat
  <2>1. \A S : \A r \in Seq(S) : \A i \in 1 .. Len(r) : r[i] \in S
    OBVIOUS
  <2>2. \A k \in 0 .. 63 : k \in Nat
    OBVIOUS
  <2> QED BY <1>0, <2>1, <2>2, Zenon
<1> HIDE DEF N
<1>2. \A i \in 1 .. N : top(i) \in Nat /\ 24 \in Nat
  BY <1>0
<1> HIDE DEF top
<1>3. \A i \in 1 .. N : row(i) \in Seq(Areas)
  BY <1>1, <1>2, TextTyped, Zenon
<1>4. s = [i \in 1 .. N |-> row(i)]
  BY Zenon DEF N, top
<1>5. s \in Seq(Seq(Areas)) /\ Len(s) = N /\ \A i \in 1 .. N : s[i] = row(i)
  <2> DEFINE Q == Seq(Areas)
  <2> HIDE DEF Q, row
  <2>1. \A i \in 1 .. N : row(i) \in Q
    BY <1>3 DEF Q
  <2>2. s \in [1 .. N -> Q]
    BY <1>4, <2>1
  <2>3. s \in Seq(Q) /\ Len(s) = N /\ \A i \in 1 .. N : s[i] = row(i)
    BY <1>0, <1>4, <2>2
  <2> QED BY <2>3 DEF Q
<1>6. FlattenSeq(s) \in Seq(Areas)
  BY <1>5, AllFlat
<1>7. ASSUME Roomy
      PROVE  FlattenSeq(s) \in Legibles(Down(y + 24) \cap Up(y + 80))
  <2>1. ASSUME NEW i \in 1 .. N
        PROVE  row(i) \in Legibles(Strip(24, top(i), scene.rows[i]))
    <3> DEFINE n == scene.rows[i]
    <3>1. n \in 0 .. 63
      BY <1>1
    <3> HIDE DEF n
    <3>2. scene.w \in Nat /\ scene.w >= 648
      BY <1>7, SceneIs DEF Roomy
    <3>3. n \in Nat /\ 24 + 8 * n <= scene.w /\ 24 + 8 <= scene.w /\ 24 \in Nat
      BY <3>1, <3>2
    <3>4. top(i) \in Nat
      BY <1>2
    <3>5. Text(24, top(i), n) \in Legibles(Strip(24, top(i), n))
      BY <3>3, <3>4, RowDrawn, Zenon
    <3> QED BY <3>5 DEF n
  <2>2. ASSUME NEW i \in 1 .. N, NEW x \in P[i - 1]
        PROVE  x \o row(i) \in P[i]
    <3> DEFINE S == Down(y + 24) \cap Up(y + 20 + 12 * (i - 1))
               T == Strip(24, top(i), scene.rows[i])
               U == Down(y + 24) \cap Up(y + 20 + 12 * i)
    <3>1. i - 1 \in 0 .. N /\ i \in 0 .. N /\ i \in Nat
      BY <1>0
    <3>2. P[i - 1] = Legibles(S) /\ P[i] = Legibles(U)
      BY <3>1
    <3>3. top(i) = y + 12 + 12 * i /\ top(i) \in Nat
      BY <1>2, <3>1 DEF top
    <3>4. Free(S, T)
      BY <3>1, <3>3 DEF Free, Down, Up, Strip, Lines, Areas, Overlap
    <3>5. S \subseteq U
      BY <3>1 DEF Down, Up, Areas
    <3>6. T \subseteq U
      BY <3>1, <3>3 DEF Down, Up, Strip, Lines, Areas
    <3>7. row(i) \in Legibles(T)
      BY <2>1
    <3> HIDE DEF P, S, T, U, row
    <3> QED BY <2>2, <3>2, <3>4, <3>5, <3>6, <3>7, Together
  <2>3. << >> \in P[0]
    <3>1. P[0] = Legibles(Down(y + 24) \cap Up(y + 20 + 12 * 0))
      BY <1>0
    <3> QED BY <3>1, NothingLegible
  <2>4. P \in [0 .. N -> SUBSET Seq(Areas)]
    <3>1. ASSUME NEW i \in 0 .. N
          PROVE  Legibles(Down(y + 24) \cap Up(y + 20 + 12 * i)) \in SUBSET Seq(Areas)
      <4> DEFINE S == Down(y + 24) \cap Up(y + 20 + 12 * i)
      <4>1. S \subseteq Areas
        BY DEF Down
      <4> HIDE DEF S
      <4>2. Legibles(S) \subseteq Seq(Areas)
        BY <4>1 DEF Legibles
      <4> QED BY <4>2 DEF S
    <3> QED BY <3>1, Zenon
  <2>5. Grows(s, P)
    <3> HIDE DEF P, row
    <3> QED BY <1>5, <2>2, <2>3, Zenon DEF Grows
  <2>6. FlattenSeq(s) \in P[N]
    <3> HIDE DEF P
    <3> QED BY <1>5, <2>4, <2>5, FlattenInto
  <2>7. FlattenSeq(s) \in Legibles(Down(y + 24) \cap Up(y + 20 + 12 * N))
    BY <1>0, <2>6
  <2>8. Down(y + 24) \cap Up(y + 20 + 12 * N) \subseteq Down(y + 24) \cap Up(y + 80)
    BY <1>0 DEF Up, Areas
  <2> QED BY <2>7, <2>8, LegibleOver
<1> QED BY <1>6, <1>7

(* What is typed, and the cursor behind it when it is on the screen.       *)
CursorAt(y, show) ==
  IF show /\ 40 + scene.prompt * 8 < scene.w
  THEN <<Area("text", 40 + scene.prompt * 8, y, 40 + scene.prompt * 8 + 8, y + 8)>> ELSE << >>
TypedAt(y) == Text(40, y, scene.prompt)
LEMMA PromptDrawn ==
  ASSUME scene \in Scenes, NEW y \in Nat, NEW show \in BOOLEAN
  PROVE  /\ CursorAt(y, show) \in Seq(Areas)
         /\ Roomy => /\ TypedAt(y) \in Legibles(Right(40) \cap Down(y))
                     /\ CursorAt(y, show) \in Legibles(Right(40) \cap Down(y))
                     /\ CursorAt(y, show) # << >> =>
                          \E x \in Nat : /\ TypedAt(y) \in Legibles(Right(40) \cap Down(y) \cap Left(x))
                                        /\ CursorAt(y, show) \in Legibles(Right(40) \cap Down(y) \cap Right(x))
<1> DEFINE n == scene.prompt
           c == CursorAt(y, show)
           x == 40 + n * 8
           A == Area("text", x, y, x + 8, y + 8)
           E == Right(40) \cap Down(y)
<1>0. n \in Nat /\ scene.w \in Nat /\ 40 \in Nat
  BY Sizes
<1> HIDE DEF n
<1>1. A \in Areas /\ A \in E /\ A \in E \cap Right(x) /\ x \in Nat
  BY <1>0 DEF Area, Areas, Right, Down
<1>2. c = IF show /\ x < scene.w THEN <<A>> ELSE << >>
  BY DEF n, CursorAt
<1> HIDE DEF x, A, E, c
<1>3. c \in Seq(Areas) /\ c \in Legibles(E)
  <2>1. <<A>> \in Seq(Areas) /\ << >> \in Seq(Areas)
    BY <1>1
  <2>2. <<A>> \in Legibles(E) /\ << >> \in Legibles(E)
    BY <1>1, OneLegible, NothingLegible
  <2> QED BY <1>2, <2>1, <2>2
<1>4. ASSUME Roomy
      PROVE  Text(40, y, n) \in Legibles(E)
  <2>1. 40 + 8 <= scene.w
    BY <1>0, <1>4 DEF Roomy
  <2>2. Text(40, y, n) \in Legibles(Lines(40, y))
    BY <1>0, <2>1, TextLegible, Zenon
  <2>3. Lines(40, y) \subseteq E
    BY DEF Lines, E, Right, Down, Areas
  <2> QED BY <2>2, <2>3, LegibleOver
<1>5. ASSUME Roomy, c # << >>
      PROVE  Text(40, y, n) \in Legibles(E \cap Left(x)) /\ c \in Legibles(E \cap Right(x))
  <2>1. x < scene.w /\ c = <<A>>
    BY <1>2, <1>5
  <2>2. 40 + 8 * n <= scene.w /\ 40 + 8 <= scene.w
    BY <1>0, <1>5, <2>1 DEF Roomy, x
  <2>3. Text(40, y, n) \in Legibles(Strip(40, y, n))
    BY <1>0, <2>2, RowDrawn, Zenon
  <2>4. Strip(40, y, n) \subseteq E \cap Left(x)
    BY <1>0 DEF Strip, Lines, E, Right, Down, Left, Areas, x
  <2>5. Text(40, y, n) \in Legibles(E \cap Left(x))
    BY <2>3, <2>4, LegibleOver
  <2>6. c \in Legibles(E \cap Right(x))
    BY <1>1, <2>1, OneLegible
  <2> QED BY <2>5, <2>6
<1> QED BY <1>1, <1>3, <1>4, <1>5, Zenon DEF n, E, c, TypedAt

LEMMA ConsoleDrawn ==
  ASSUME scene \in Scenes, ticks \in Nat
  PROVE  /\ console_draw \in Seq(Areas)
         /\ Roomy => Legible(console_draw)
<1> DEFINE win_w == IF scene.w > 40 THEN scene.w - 32 ELSE scene.w
           y == IF scene.h > WinH + 10 THEN scene.h - WinH - 10 ELSE 0
           py == y + WinH - 18
           rows == [i \in 1 .. Len(scene.rows) |-> Text(24, y + 24 + ((i - 1) * 12), scene.rows[i])]
           show == (ticks \div 25) % 2 = 0
           frame == Rect(16, y, win_w, WinH)
           inner == Rect(18, y + 2, Minus(win_w, 4), WinH - 4)
           header == Rect(18, y + 2, Minus(win_w, 4), 18)
           title == Text(24, y + 6, 38)
           history == FlattenSeq(rows)
           mark == Text(24, py, 2)
           prompt == TypedAt(py)
           cursor == CursorAt(py, show)
           q == (((((((frame \o inner) \o header) \o title) \o history) \o mark) \o prompt) \o cursor)
<1>0. /\ y \in Nat /\ win_w \in Nat /\ scene.w \in Nat /\ scene.prompt \in Nat /\ WinH = 114
      /\ py = y + 96 /\ py \in Nat /\ y + 2 \in Nat /\ y + 6 \in Nat /\ Minus(win_w, 4) \in Nat /\ WinH \in Nat
      /\ WinH - 4 \in Nat /\ 16 \in Nat /\ 18 \in Nat /\ 24 \in Nat /\ 38 \in Nat /\ 40 \in Nat /\ 2 \in Nat
      /\ show \in BOOLEAN
  <2>1. y \in Nat /\ win_w \in Nat /\ scene.w \in Nat /\ scene.prompt \in Nat /\ WinH = 114
    BY Sizes DEF WinH
  <2> HIDE DEF y, win_w
  <2>2. (win_w - 4) % UINT \in Nat
    BY <2>1, SceneAssumption
  <2> QED BY <2>1, <2>2 DEF Minus
<1>1. CASE ~scene.visible
  <2>1. console_draw = << >>
    BY <1>1 DEF console_draw
  <2> QED BY <2>1 DEF Legible
<1>2. CASE scene.visible
  <2>1. console_draw = q
    <3>1. console_draw = (((((((frame \o inner) \o header)
             \o Text(24, y + 6, 38)) \o history) \o mark) \o prompt) \o cursor)
      BY <1>2, Zenon DEF console_draw, TypedAt, CursorAt
    <3> HIDE DEF frame, inner, header, history, mark, prompt, cursor, y
    <3> QED BY <3>1, Zenon
  <2>2. frame \in Seq(Shapes) /\ inner \in Seq(Shapes) /\ header \in Seq(Shapes)
    <3> DEFINE mw == Minus(win_w, 4)  ih == WinH - 4  y2 == y + 2
    <3>1. mw \in Nat /\ ih \in Nat /\ y2 \in Nat
      BY <1>0
    <3>2. frame \in Seq(Shapes \cap Down(y))
      <4> HIDE DEF y, win_w
      <4> QED BY <1>0, BoxLegible, Zenon
    <3>3. inner \in Seq(Shapes \cap Down(y2)) /\ header \in Seq(Shapes \cap Down(y2))
      <4> HIDE DEF y2, mw, ih
      <4>1. Rect(18, y2, mw, ih) \in Seq(Shapes \cap Down(y2)) /\ Rect(18, y2, mw, 18) \in Seq(Shapes \cap Down(y2))
        BY <1>0, <3>1, BoxLegible, Zenon
      <4> QED BY <4>1, Zenon DEF y2, mw, ih
    <3> HIDE DEF frame, inner, header, y, y2
    <3>4. Shapes \cap Down(y) \subseteq Shapes /\ Shapes \cap Down(y2) \subseteq Shapes
      OBVIOUS
    <3> QED BY <3>2, <3>3, <3>4
  <2>3. title \in Seq(Areas) /\ mark \in Seq(Areas) /\ prompt \in Seq(Areas)
    <3> HIDE DEF py, y
    <3> QED BY <1>0, TextTyped, Zenon DEF TypedAt
  <2>4. /\ history \in Seq(Areas)
        /\ Roomy => history \in Legibles(Down(y + 24) \cap Up(y + 80))
    <3>1. rows = [i \in 1 .. Len(scene.rows) |-> Text(24, y + 24 + ((i - 1) * 12), scene.rows[i])]
      OBVIOUS
    <3> HIDE DEF y, rows
    <3> QED BY <1>0, <3>1, HistoryDrawn, Zenon
  <2>5. /\ cursor \in Seq(Areas)
        /\ Roomy => /\ prompt \in Legibles(Right(40) \cap Down(py))
                    /\ cursor \in Legibles(Right(40) \cap Down(py))
                    /\ cursor # << >> => \E x \in Nat : /\ prompt \in Legibles(Right(40) \cap Down(py) \cap Left(x))
                                                        /\ cursor \in Legibles(Right(40) \cap Down(py) \cap Right(x))
    <3>1. py \in Nat /\ show \in BOOLEAN
      BY <1>0
    <3> HIDE DEF py, show
    <3> QED BY <3>1, PromptDrawn, Zenon
  <2>6. ASSUME Roomy
        PROVE  title \in Legibles(Strip(24, y + 6, 38)) /\ mark \in Legibles(Strip(24, py, 2))
    <3>1. scene.w \in Nat /\ scene.w >= 648
      BY <2>6, SceneIs DEF Roomy
    <3>2. 24 + 8 * 38 <= scene.w /\ 24 + 8 * 2 <= scene.w /\ 24 + 8 <= scene.w
      BY <3>1
    <3> DEFINE ty == y + 6
    <3>3. ty \in Nat
      BY <1>0
    <3>4. mark \in Legibles(Strip(24, py, 2))
      <4> HIDE DEF py
      <4> QED BY <1>0, <3>2, RowDrawn, Zenon
    <3>5. title \in Legibles(Strip(24, ty, 38))
      <4> HIDE DEF ty
      <4>1. Text(24, ty, 38) \in Legibles(Strip(24, ty, 38))
        BY <1>0, <3>2, <3>3, RowDrawn, Zenon
      <4> QED BY <4>1, Zenon DEF ty
    <3> QED BY <3>4, <3>5, Zenon
  <2> HIDE DEF frame, inner, header, title, history, mark, prompt, cursor, y, py, win_w, rows, show
  <2> DEFINE box == (frame \o inner) \o header
  <2>7. box \in Seq(Shapes) /\ box \in Seq(Areas)
    <3>1. Shapes \subseteq Areas
      BY DEF Shapes
    <3>2. box \in Seq(Shapes)
      BY <2>2, TwoDrawn
    <3> HIDE DEF box
    <3> QED BY <3>1, <3>2
  <2> HIDE DEF box
  <2>8. q \in Seq(Areas)
    <3>1. ((((box \o title) \o history) \o mark) \o prompt) \o cursor \in Seq(Areas)
      BY <2>3, <2>4, <2>5, <2>7, TwoDrawn
    <3> QED BY <3>1 DEF box
  <2>9. ASSUME Roomy
        PROVE  Legible(q)
    <3> DEFINE S1 == Shapes \cup Up(y + 14)
               S2 == Shapes \cup Up(y + 80)
               S3 == S2 \cup Strip(24, py, 2)
               E == Right(40) \cap Down(py)
    <3>1. box \in Legibles(Shapes)
      BY <2>7, ShapesLegible
    <3>2. Free(Shapes, Strip(24, y + 6, 38)) /\ Shapes \subseteq S1 /\ Strip(24, y + 6, 38) \subseteq S1
      BY <1>0 DEF Free, Shapes, Up, Strip, Lines, Areas
    <3>3. Free(S1, Down(y + 24) \cap Up(y + 80)) /\ S1 \subseteq S2 /\ Down(y + 24) \cap Up(y + 80) \subseteq S2
      BY <1>0 DEF Free, Shapes, Up, Down, Areas, Overlap
    <3>4. Free(S2, Strip(24, py, 2)) /\ S2 \subseteq S3 /\ Strip(24, py, 2) \subseteq S3
      BY <1>0 DEF Free, Shapes, Up, Strip, Lines, Areas, Overlap
    <3>5. Free(S3, E)
      BY <1>0 DEF Free, Shapes, Up, Down, Right, Strip, Lines, Areas, Overlap
    <3> HIDE DEF S1, S2, S3, E
    <3>6. box \o title \in Legibles(S1)
      BY <2>6, <2>9, <3>1, <3>2, Together, Zenon
    <3>7. (box \o title) \o history \in Legibles(S2)
      BY <2>4, <2>9, <3>3, <3>6, Together, Zenon
    <3> DEFINE above == ((box \o title) \o history) \o mark
    <3>8. above \in Legibles(S3)
      BY <2>6, <2>9, <3>4, <3>7, Together, Zenon
    <3> HIDE DEF above
    <3>9. CASE cursor = << >>
      <4>1. above \o prompt \in Legibles(S3 \cup E)
        BY <2>5, <2>9, <3>5, <3>8, BothLegible, Zenon DEF E
      <4>2. above \o prompt \in Seq(S3 \cup E)
        BY <4>1 DEF Legibles
      <4>3. (above \o prompt) \o cursor = above \o prompt
        BY <3>9, <4>2, ConcatEmptySeq
      <4> QED BY <4>1, <4>3, Zenon DEF above, box, Legibles
    <3>10. CASE cursor # << >>
      <4>1. PICK x \in Nat : prompt \in Legibles(E \cap Left(x)) /\ cursor \in Legibles(E \cap Right(x))
        BY <2>5, <2>9, <3>10, Zenon DEF E
      <4>2. /\ Free(S3, E \cap Left(x)) /\ Free(S3, E \cap Right(x))
            /\ Free(E \cap Left(x), E \cap Right(x))
        <5>1. Free(Left(x), Right(x))
          BY Sides
        <5> QED BY <3>5, <5>1 DEF Free
      <4>3. above \o prompt \in Legibles(S3 \cup (E \cap Left(x)))
        BY <3>8, <4>1, <4>2, BothLegible, Zenon
      <4>4. Free(S3 \cup (E \cap Left(x)), E \cap Right(x))
        BY <4>2 DEF Free
      <4>5. (above \o prompt) \o cursor \in Legibles((S3 \cup (E \cap Left(x))) \cup (E \cap Right(x)))
        BY <4>1, <4>3, <4>4, BothLegible, Zenon
      <4> QED BY <4>5, Zenon DEF above, box, Legibles
    <3> QED BY <3>9, <3>10
  <2> QED BY <2>1, <2>8, <2>9, Zenon
<1> QED BY <1>0, <1>1, <1>2, SceneIs

-----------------------------------------------------------------------------
(* Frames: pictures.                                                       *)
Drawings == [part : {"boot", "widget", "baseline", "entered", "console", "pointer"}, area : Areas]
Of(part, S) == {d \in Drawings : d.part = part /\ d.area \in S}

(* Nothing covers a text that may not.                                     *)
Clean(d) ==
  \A j \in DOMAIN d : \A i \in 1 .. j - 1 :
    d[i].area.kind = "text" /\ ~MayCover(d[j].part, d[i].part) => ~Overlap(d[i].area, d[j].area)
Pictures(S) == {d \in Seq(S) : Clean(d)}
Harmless(S, T) ==
  \A a \in S, b \in T : a.area.kind = "text" /\ ~MayCover(b.part, a.part) => ~Overlap(a.area, b.area)

LEMMA BothClean ==
  ASSUME NEW S, NEW T, NEW p \in Pictures(S), NEW q \in Pictures(T), Harmless(S, T)
  PROVE  p \o q \in Pictures(S \cup T)
<1> DEFINE u == p \o q  m == Len(p)  n == Len(q)
<1>1. p \in Seq(S) /\ q \in Seq(T) /\ m \in Nat /\ n \in Nat
  BY DEF Pictures
<1>2. /\ u \in Seq(S \cup T)
      /\ DOMAIN p = 1 .. m /\ DOMAIN q = 1 .. n /\ DOMAIN u = 1 .. m + n
      /\ \A i \in 1 .. m : u[i] = p[i] /\ p[i] \in S
      /\ \A i \in m + 1 .. m + n : u[i] = q[i - m] /\ q[i - m] \in T /\ i - m \in 1 .. n
  BY <1>1, BehindEachOther
<1> HIDE DEF u, m, n
<1>3. ASSUME NEW j \in DOMAIN u, NEW i \in 1 .. j - 1, u[i].area.kind = "text", ~MayCover(u[j].part, u[i].part)
      PROVE  ~Overlap(u[i].area, u[j].area)
  <2>1. CASE j <= m
    <3>1. i \in 1 .. m /\ j \in 1 .. m /\ i \in 1 .. j - 1
      BY <1>1, <1>2, <2>1
    <3> QED BY <1>2, <1>3, <3>1 DEF Pictures, Clean
  <2>2. CASE m < j /\ i <= m
    <3>1. i \in 1 .. m /\ j \in m + 1 .. m + n
      BY <1>1, <1>2, <2>2
    <3> QED BY <1>2, <1>3, <3>1 DEF Harmless
  <2>3. CASE m < i
    <3>1. i \in m + 1 .. m + n /\ j \in m + 1 .. m + n /\ i - m \in 1 .. (j - m) - 1
      BY <1>1, <1>2, <2>3
    <3>2. u[i] = q[i - m] /\ u[j] = q[j - m] /\ j - m \in DOMAIN q
      BY <1>2, <3>1
    <3> QED BY <1>3, <3>1, <3>2 DEF Pictures, Clean
  <2> QED BY <1>1, <1>2, <2>1, <2>2, <2>3
<1> QED BY <1>2, <1>3 DEF Pictures, Clean, u

LEMMA CleanOver ==
  ASSUME NEW S, NEW T, S \subseteq T
  PROVE  Pictures(S) \subseteq Pictures(T)
<1>1. Seq(S) \subseteq Seq(T)
  OBVIOUS
<1> QED BY <1>1 DEF Pictures

(* A part of a picture.                                                    *)
LEMMA PartDrawn ==
  ASSUME NEW part \in {"boot", "widget", "baseline", "entered", "console", "pointer"}, NEW S \in SUBSET Areas, NEW q \in Seq(S)
  PROVE  /\ By(part, q) \in Seq(Of(part, S))
         /\ Legible(q) => By(part, q) \in Pictures(Of(part, S))
         /\ Len(By(part, q)) = Len(q)
<1> DEFINE d == By(part, q)
<1>1. d = [i \in 1 .. Len(q) |-> [part |-> part, area |-> q[i]]]
  BY DEF By
<1>2. ASSUME NEW i \in 1 .. Len(q)
      PROVE  [part |-> part, area |-> q[i]] \in Of(part, S)
  <2>1. q[i] \in S /\ q[i] \in Areas
    OBVIOUS
  <2> QED BY <2>1 DEF Of, Drawings
<1>3. Len(q) \in Nat /\ DOMAIN q = 1 .. Len(q)
  OBVIOUS
<1> HIDE DEF d
<1>4. d \in [1 .. Len(q) -> Of(part, S)]
  BY <1>1, <1>2
<1>5. d \in Seq(Of(part, S)) /\ Len(d) = Len(q) /\ DOMAIN d = DOMAIN q
  BY <1>3, <1>4
<1>6. \A i \in DOMAIN q : d[i].area = q[i]
  BY <1>1, <1>3
<1>7. ASSUME Legible(q) PROVE Clean(d)
  <2> SUFFICES ASSUME NEW j \in DOMAIN d, NEW i \in 1 .. j - 1, d[i].area.kind = "text"
               PROVE  ~Overlap(d[i].area, d[j].area)
    BY DEF Clean
  <2>1. i \in DOMAIN q /\ j \in DOMAIN q
    BY <1>3, <1>5
  <2> QED BY <1>6, <1>7, <2>1 DEF Legible
<1> QED BY <1>5, <1>7 DEF d, Pictures

-----------------------------------------------------------------------------
(* Frames: the loop.                                                       *)
LEMMA BehindIs ==
  /\ Behind("load") = <<"clear", 1>> /\ Behind("clear") = <<"widgets", 1>> /\ Behind("widgets") = <<"baseline", 1>>
  /\ Behind("baseline") = <<"drain", 1>> /\ Behind("drain") = <<"console", 1>> /\ Behind("console") = <<"pointer", 1>>
  /\ Behind("pointer") = <<"swap", 1>> /\ Behind("swap") = <<"halt", 1>> /\ Behind("halt") = <<"load", 0>>
<1>1. /\ DOMAIN Order = 1 .. 9 /\ Len(Order) = 9
      /\ Order[1] = "load" /\ Order[2] = "clear" /\ Order[3] = "widgets" /\ Order[4] = "baseline" /\ Order[5] = "drain"
      /\ Order[6] = "console" /\ Order[7] = "pointer" /\ Order[8] = "swap" /\ Order[9] = "halt"
  BY DEF Order
<1>2. ASSUME NEW n \in 1 .. 9
      PROVE  Behind(Order[n]) = IF n = 9 THEN <<"load", 0>> ELSE <<Order[n + 1], 1>>
  <2> DEFINE k == CHOOSE k \in DOMAIN Order : Order[k] = Order[n]
  <2>1. k \in DOMAIN Order /\ Order[k] = Order[n]
    BY <1>1
  <2> HIDE DEF k
  <2>2. k = n
    BY <1>1, <2>1
  <2>3. Behind(Order[n]) = IF k = Len(Order) THEN <<"load", 0>> ELSE <<Order[k + 1], 1>>
    BY Zenon DEF Behind, k
  <2> QED BY <1>1, <2>2, <2>3
<1>3. /\ Behind(Order[1]) = <<Order[2], 1>> /\ Behind(Order[2]) = <<Order[3], 1>> /\ Behind(Order[3]) = <<Order[4], 1>>
      /\ Behind(Order[4]) = <<Order[5], 1>> /\ Behind(Order[5]) = <<Order[6], 1>> /\ Behind(Order[6]) = <<Order[7], 1>>
      /\ Behind(Order[7]) = <<Order[8], 1>> /\ Behind(Order[8]) = <<Order[9], 1>> /\ Behind(Order[9]) = <<"load", 0>>
  BY <1>2
<1> QED BY <1>1, <1>3

IsCanvas(c) == c = [drawn |-> c.drawn, date |-> c.date] /\ c.drawn \in Seq(Drawings)
Stages ==
  ({"create"} \X (1 .. 3)) \cup {<<"script", 0>>, <<"load", 0>>} \cup ({"widgets"} \X (1 .. 3))
  \cup ({"clear", "baseline", "drain", "console", "pointer", "swap", "halt"} \X {1})

(* Where the loop is, and what it has created and drawn.                   *)
SceneTypeOK ==
  /\ ticks \in 0 .. TICKS - 1 /\ tick \in 0 .. ticks
  /\ scene \in Scenes
  /\ stage \in Stages
  /\ widget_pool \in Seq({Wanted[1], Wanted[2], Wanted[3]}) /\ Len(widget_pool) <= 3
  /\ \A k \in 1 .. Len(widget_pool) : widget_pool[k] = Wanted[k]
  /\ stage[1] = "create" => /\ stage[2] > 1 => Len(widget_pool) >= 1
                            /\ Len(widget_pool) < MAX_WIDGETS => Len(widget_pool) = stage[2] - 1
                            /\ Len(widget_pool) <= stage[2] - 1
  /\ stage[1] # "create" => Len(widget_pool) >= 1
  /\ stage[1] = "widgets" => stage[2] <= Len(widget_pool)
  /\ IsCanvas(canvas) /\ IsCanvas(shown)

LEMMA SceneTypeInit == SceneInit => SceneTypeOK
<1> SUFFICES ASSUME SceneInit PROVE SceneTypeOK
  OBVIOUS
<1>1. ticks = 0 /\ tick = 0 /\ scene \in Scenes /\ stage = <<"create", 1>> /\ widget_pool = << >>
      /\ canvas = Blank /\ shown = Blank
  BY DEF SceneInit, PitInit
<1>2. IsCanvas(Blank)
  BY DEF IsCanvas, Blank
<1>3. stage \in Stages
  BY <1>1 DEF Stages
<1>4. 0 \in 0 .. TICKS - 1 /\ 0 \in 0 .. 0
  BY TicksAssumption
<1>5. << >> \in Seq({Wanted[1], Wanted[2], Wanted[3]}) /\ Len(<< >>) = 0
  OBVIOUS
<1> QED BY <1>1, <1>2, <1>3, <1>4, <1>5 DEF SceneTypeOK

LEMMA Drawn1 ==
  ASSUME IsCanvas(canvas), NEW part \in {"boot", "widget", "baseline", "entered", "console", "pointer"}, NEW q \in Seq(Areas)
  PROVE  /\ By(part, q) \in Seq(Of(part, Areas)) /\ By(part, q) \in Seq(Drawings)
         /\ canvas.drawn \o By(part, q) \in Seq(Drawings)
         /\ Draw(part, q) => /\ IsCanvas(canvas') /\ canvas'.drawn = canvas.drawn \o By(part, q)
                             /\ canvas'.date = canvas.date
<1>1. By(part, q) \in Seq(Of(part, Areas))
  BY PartDrawn
<1>2. Of(part, Areas) \subseteq Drawings
  BY DEF Of
<1> DEFINE d == By(part, q)
<1> HIDE DEF d
<1>3. d \in Seq(Drawings)
  BY <1>1, <1>2 DEF d
<1>4. canvas.drawn \in Seq(Drawings)
  BY DEF IsCanvas
<1>5. canvas.drawn \o d \in Seq(Drawings)
  BY <1>3, <1>4, TwoDrawn
<1>6. ASSUME Draw(part, q)
      PROVE  /\ IsCanvas(canvas') /\ canvas'.drawn = canvas.drawn \o d /\ canvas'.date = canvas.date
  <2>1. canvas' = [canvas EXCEPT !.drawn = canvas.drawn \o d]
    BY <1>6 DEF Draw, d
  <2>2. canvas = [drawn |-> canvas.drawn, date |-> canvas.date]
    BY DEF IsCanvas
  <2>3. canvas' = [drawn |-> canvas.drawn \o d, date |-> canvas.date]
    BY <2>1, <2>2
  <2> QED BY <1>5, <2>3 DEF IsCanvas
<1> QED BY <1>1, <1>3, <1>5, <1>6 DEF d

(* What each step of the loop draws.                                       *)
LEMMA LoopIn ==
  ASSUME SceneTypeOK
  PROVE  /\ scene \in Scenes /\ ticks \in Nat /\ tick \in Nat
         /\ scene.pointer[1] \in Nat /\ scene.pointer[2] \in Nat
BY SceneIs DEF SceneTypeOK

LEMMA LineTyped ==
  ASSUME scene \in Scenes, NEW x0 \in Nat, NEW y0 \in Nat, NEW x1 \in Nat, NEW y1 \in Nat
  PROVE  Line(x0, y0, x1, y1) \in Seq(Areas)
<1> DEFINE q == Line(x0, y0, x1, y1)
<1>1. q \in Seq(Shapes) /\ Shapes \subseteq Areas
  BY LineDrawn DEF Shapes
<1> HIDE DEF q
<1>2. q \in Seq(Areas)
  BY <1>1
<1> QED BY <1>2 DEF q

LEMMA BootDraws ==
  ASSUME SceneTypeOK
  PROVE  Line(0, 480, 800, 580) \o Rect(700, 50, 80, 60) \in Seq(Areas)
<1> DEFINE p == Line(0, 480, 800, 580)  q == Rect(700, 50, 80, 60)
<1>1. scene \in Scenes
  BY DEF SceneTypeOK
<1>2. p \in Seq(Areas)
  BY <1>1, LineTyped
<1>3. q \in Seq(Areas)
  BY <1>1, BoxTyped
<1> HIDE DEF p, q
<1>4. p \o q \in Seq(Areas)
  BY <1>2, <1>3, TwoDrawn
<1> QED BY <1>4 DEF p, q

LEMMA WidgetDraws ==
  ASSUME SceneTypeOK, NEW k \in 1 .. 3
  PROVE  DrawnWidget(Wanted[k]) \in Seq(Areas)
<1>1. k = 1 \/ k = 2 \/ k = 3
  OBVIOUS
<1>2. scene \in Scenes /\ ticks \in Nat /\ tick \in Nat
  BY LoopIn
<1>3. DrawnWidget(Wanted[1]) \in Seq(Areas)
  BY <1>2, BannerDrawn, Zenon
<1>4. DrawnWidget(Wanted[2]) \in Seq(Areas)
  BY <1>2, DateDrawn, Zenon
<1>5. DrawnWidget(Wanted[3]) \in Seq(Areas)
  BY <1>2, FiguresDrawn, Zenon
<1> QED BY <1>1, <1>3, <1>4, <1>5, Zenon

LEMMA BaselineDraws == SceneTypeOK => Line(0, 440, 800, 455) \in Seq(Areas)
<1> SUFFICES ASSUME SceneTypeOK PROVE Line(0, 440, 800, 455) \in Seq(Areas)
  OBVIOUS
<1>1. scene \in Scenes
  BY DEF SceneTypeOK
<1> QED BY <1>1, LineTyped

LEMMA EnteredDraws == scene \in Scenes => Rect(8, 40, 20, 20) \in Seq(Areas)
BY BoxTyped

LEMMA ConsoleDraws == SceneTypeOK => console_draw \in Seq(Areas)
BY LoopIn, ConsoleDrawn, Zenon

LEMMA PointerDraws == SceneTypeOK => mouse_draw_cursor \in Seq(Areas)
BY LoopIn, BoxTyped DEF mouse_draw_cursor

(* What they leave on the canvas.                                          *)
LEMMA BootAdds ==
  ASSUME SceneTypeOK, BootScript
  PROVE  /\ IsCanvas(canvas') /\ canvas'.drawn = canvas.drawn \o By("boot", Line(0, 480, 800, 580) \o Rect(700, 50, 80, 60))
         /\ canvas'.date = canvas.date
<1> DEFINE q == Line(0, 480, 800, 580) \o Rect(700, 50, 80, 60)
<1>1. q \in Seq(Areas) /\ IsCanvas(canvas)
  BY BootDraws DEF SceneTypeOK
<1>2. Draw("boot", q)
  BY DEF BootScript
<1> HIDE DEF q
<1>3. IsCanvas(canvas') /\ canvas'.drawn = canvas.drawn \o By("boot", q) /\ canvas'.date = canvas.date
  BY <1>1, <1>2, Drawn1
<1> QED BY <1>3 DEF q

LEMMA BaselineAdds ==
  ASSUME SceneTypeOK, Baseline
  PROVE  /\ IsCanvas(canvas') /\ canvas'.drawn = canvas.drawn \o By("baseline", Line(0, 440, 800, 455))
         /\ canvas'.date = canvas.date
<1> DEFINE q == Line(0, 440, 800, 455)
<1>1. q \in Seq(Areas) /\ IsCanvas(canvas)
  BY BaselineDraws DEF SceneTypeOK
<1>2. Draw("baseline", q)
  BY Zenon DEF Baseline
<1> HIDE DEF q
<1>3. IsCanvas(canvas') /\ canvas'.drawn = canvas.drawn \o By("baseline", q) /\ canvas'.date = canvas.date
  BY <1>1, <1>2, Drawn1
<1> QED BY <1>3 DEF q

LEMMA ConsoleAdds ==
  ASSUME SceneTypeOK, ConsoleDraw
  PROVE  /\ IsCanvas(canvas') /\ canvas'.drawn = canvas.drawn \o By("console", console_draw)
         /\ canvas'.date = canvas.date
<1> DEFINE q == console_draw
<1>1. q \in Seq(Areas) /\ IsCanvas(canvas)
  BY ConsoleDraws DEF SceneTypeOK
<1>2. Draw("console", q)
  BY Zenon DEF ConsoleDraw
<1> HIDE DEF q
<1>3. IsCanvas(canvas') /\ canvas'.drawn = canvas.drawn \o By("console", q) /\ canvas'.date = canvas.date
  BY <1>1, <1>2, Drawn1
<1> QED BY <1>3 DEF q

LEMMA PointerAdds ==
  ASSUME SceneTypeOK, CursorDraw
  PROVE  /\ IsCanvas(canvas') /\ canvas'.drawn = canvas.drawn \o By("pointer", mouse_draw_cursor)
         /\ canvas'.date = canvas.date
<1> DEFINE q == mouse_draw_cursor
<1>1. q \in Seq(Areas) /\ IsCanvas(canvas)
  BY PointerDraws DEF SceneTypeOK
<1>2. Draw("pointer", q)
  BY Zenon DEF CursorDraw
<1> HIDE DEF q
<1>3. IsCanvas(canvas') /\ canvas'.drawn = canvas.drawn \o By("pointer", q) /\ canvas'.date = canvas.date
  BY <1>1, <1>2, Drawn1
<1> QED BY <1>3 DEF q

(* A turn of widget_draw_all.                                              *)
LEMMA WidgetTurn ==
  ASSUME SceneTypeOK, widget_draw_all
  PROVE  \E k \in 1 .. 3 :
           /\ stage = <<"widgets", k>> /\ k <= Len(widget_pool) /\ widget_pool[k] = Wanted[k]
           /\ canvas'.drawn = canvas.drawn \o By("widget", DrawnWidget(Wanted[k]))
           /\ canvas'.date = DateOf(Wanted[k])
           /\ IsCanvas(canvas')
           /\ \/ stage' = <<"widgets", k + 1>> /\ k + 1 <= Len(widget_pool) /\ k + 1 \in 1 .. 3
              \/ stage' = <<"baseline", 1>>
<1>1. PICK k \in 1 .. 3 : stage = <<"widgets", k>>
  BY DEF SceneTypeOK, Stages, widget_draw_all
<1>2. Len(widget_pool) \in 0 .. 3 /\ k <= Len(widget_pool)
  <2>1. \A S : \A p \in Seq(S) : Len(p) \in Nat
    OBVIOUS
  <2>2. widget_pool \in Seq({Wanted[1], Wanted[2], Wanted[3]}) /\ Len(widget_pool) <= 3
    BY DEF SceneTypeOK
  <2>3. Len(widget_pool) \in Nat
    BY <2>1, <2>2, Zenon
  <2>4. k <= Len(widget_pool)
    <3>1. stage[1] = "widgets" /\ stage[2] = k
      BY <1>1
    <3> QED BY <3>1, Zenon DEF SceneTypeOK
  <2>5. \A n \in Nat : n <= 3 => n \in 0 .. 3
    OBVIOUS
  <2> QED BY <2>2, <2>3, <2>4, <2>5, Zenon
<1>3. widget_pool[k] = Wanted[k]
  BY <1>2 DEF SceneTypeOK
<1> DEFINE d == By("widget", DrawnWidget(Wanted[k]))
<1>4. canvas' = [drawn |-> canvas.drawn \o d, date |-> DateOf(Wanted[k])]
  BY <1>1, <1>3 DEF widget_draw_all
<1>5. canvas.drawn \o d \in Seq(Drawings)
  <2> DEFINE q == DrawnWidget(Wanted[k])
  <2>1. q \in Seq(Areas)
    BY WidgetDraws
  <2>2. IsCanvas(canvas)
    BY DEF SceneTypeOK
  <2> HIDE DEF q
  <2>3. canvas.drawn \o By("widget", q) \in Seq(Drawings)
    BY <2>1, <2>2, Drawn1
  <2> QED BY <2>3 DEF q
<1> HIDE DEF d
<1>6. IsCanvas(canvas') /\ canvas'.drawn = canvas.drawn \o d /\ canvas'.date = DateOf(Wanted[k])
  BY <1>4, <1>5 DEF IsCanvas
<1>7. \/ stage' = <<"widgets", k + 1>> /\ k + 1 <= Len(widget_pool) /\ k + 1 \in 1 .. 3
      \/ stage' = <<"baseline", 1>>
  <2>1. stage' = IF k < Len(widget_pool) THEN <<"widgets", k + 1>> ELSE Behind("widgets")
    BY <1>1 DEF widget_draw_all
  <2>2. \A n \in 0 .. 3 : k < n => k + 1 <= n /\ k + 1 \in 1 .. 3
    OBVIOUS
  <2> QED BY <1>2, <2>1, <2>2, BehindIs, Zenon
<1> QED BY <1>1, <1>2, <1>3, <1>6, <1>7 DEF d

(* A call of a script that is entered.                                     *)
LEMMA CallDraws ==
  ASSUME IsCanvas(canvas), scene \in Scenes, ScriptCall
  PROVE  /\ IsCanvas(canvas') /\ below' = below
         /\ \/ /\ canvas'.drawn = canvas.drawn \o By("entered", Rect(8, 40, 20, 20))
               /\ canvas'.date = canvas.date /\ entered' = Append(entered, "draw")
            \/ canvas' = Blank /\ entered' = Append(entered, "clear")
<1> DEFINE q == Rect(8, 40, 20, 20)
<1>1. q \in Seq(Areas)
  BY BoxTyped
<1>2. /\ below' = below
      /\ \/ Draw("entered", q) /\ entered' = Append(entered, "draw")
         \/ canvas' = Blank /\ entered' = Append(entered, "clear")
  BY DEF ScriptCall
<1> HIDE DEF q
<1>3. IsCanvas(Blank)
  BY DEF IsCanvas, Blank
<1>4. Draw("entered", q) => /\ IsCanvas(canvas') /\ canvas'.drawn = canvas.drawn \o By("entered", q)
                            /\ canvas'.date = canvas.date
  BY <1>1, Drawn1
<1> QED BY <1>2, <1>3, <1>4 DEF q

(* The timer goes on, and has not wrapped.                                 *)
LEMMA TimerRuns ==
  ASSUME SceneTypeOK, Tick
  PROVE  ticks' = ticks + 1 /\ ticks' \in 0 .. TICKS - 1
<1>1. scene.until \in 0 .. TICKS - 1 /\ TICKS \in Nat
  BY SceneIs, TicksAssumption, Zenon DEF SceneTypeOK
<1> DEFINE u == scene.until
<1> HIDE DEF u
<1>2. u \in 0 .. TICKS - 1 /\ ticks < u /\ ticks' = (ticks + 1) % TICKS
  BY <1>1 DEF u, Tick, pit_handler
<1>3. ticks + 1 \in 0 .. TICKS - 1
  BY <1>1, <1>2 DEF SceneTypeOK
<1>4. (ticks + 1) % TICKS = ticks + 1
  BY <1>1, <1>3
<1> QED BY <1>2, <1>3, <1>4

LEMMA SceneTypeStep == SceneTypeOK /\ [SceneNext]_sceneVars => SceneTypeOK'
<1> SUFFICES ASSUME SceneTypeOK, [SceneNext]_sceneVars
             PROVE  SceneTypeOK'
  OBVIOUS
<1>0. \A S : \A p \in Seq(S) : Len(p) \in Nat /\ \A x \in S :
        /\ Append(p, x) \in Seq(S) /\ Len(Append(p, x)) = Len(p) + 1 /\ Append(p, x)[Len(p) + 1] = x
        /\ \A k \in 1 .. Len(p) : Append(p, x)[k] = p[k]
  OBVIOUS
<1>1. CASE CreateWidget
  <2>1. PICK n \in 1 .. 3 : stage = <<"create", n>>
    BY <1>1 DEF SceneTypeOK, Stages, CreateWidget
  <2>2. /\ ticks' = ticks /\ scene' = scene /\ tick' = tick /\ canvas' = canvas /\ shown' = shown
        /\ widget_pool' = IF Len(widget_pool) < MAX_WIDGETS THEN Append(widget_pool, Wanted[n]) ELSE widget_pool
        /\ stage' = IF n < 3 THEN <<"create", n + 1>> ELSE <<"script", 0>>
    BY <1>1, <2>1, WantedIs DEF CreateWidget, widget_create
  <2> DEFINE W == {Wanted[1], Wanted[2], Wanted[3]}
  <2>3. /\ widget_pool \in Seq(W) /\ Len(widget_pool) \in Nat /\ Len(widget_pool) <= n - 1
        /\ Len(widget_pool) < MAX_WIDGETS => Len(widget_pool) = n - 1
        /\ n > 1 => Len(widget_pool) >= 1
        /\ \A k \in 1 .. Len(widget_pool) : widget_pool[k] = Wanted[k]
    BY <1>0, <2>1 DEF SceneTypeOK
  <2>4. Wanted[n] \in W /\ MAX_WIDGETS \in Nat \ {0} /\ W' = W
    <3>1. Wanted' = Wanted
      BY <2>2 DEF Wanted, Widget, Minus
    <3>2. n = 1 \/ n = 2 \/ n = 3
      OBVIOUS
    <3>3. Wanted[n] \in W
      BY <3>2, Zenon
    <3>4. MAX_WIDGETS \in Nat \ {0}
      BY SceneAssumption, Zenon
    <3> QED BY <3>1, <3>3, <3>4, Zenon
  <2> HIDE DEF W
  <2>5. /\ widget_pool' \in Seq(W) /\ Len(widget_pool') \in Nat /\ Len(widget_pool') <= n
        /\ Len(widget_pool') < MAX_WIDGETS => Len(widget_pool') = n
        /\ Len(widget_pool') >= 1
        /\ \A k \in 1 .. Len(widget_pool') : widget_pool'[k] = Wanted[k]
    <3>1. CASE Len(widget_pool) < MAX_WIDGETS
      <4>1. widget_pool' = Append(widget_pool, Wanted[n]) /\ Len(widget_pool) = n - 1
        BY <2>2, <2>3, <3>1
      <4>2. /\ widget_pool' \in Seq(W) /\ Len(widget_pool') = Len(widget_pool) + 1
            /\ widget_pool'[Len(widget_pool) + 1] = Wanted[n]
            /\ \A k \in 1 .. Len(widget_pool) : widget_pool'[k] = widget_pool[k]
        <5>1. /\ Append(widget_pool, Wanted[n]) \in Seq(W) /\ Len(Append(widget_pool, Wanted[n])) = Len(widget_pool) + 1
              /\ Append(widget_pool, Wanted[n])[Len(widget_pool) + 1] = Wanted[n]
              /\ \A k \in 1 .. Len(widget_pool) : Append(widget_pool, Wanted[n])[k] = widget_pool[k]
          <6> DEFINE x == Wanted[n]  v == widget_pool
          <6>1. v \in Seq(W) /\ x \in W
            BY <2>3, <2>4
          <6> HIDE DEF x, v
          <6> QED BY <6>1 DEF x, v
        <5> QED BY <4>1, <5>1, Zenon
      <4>3. Len(widget_pool') = n /\ widget_pool'[n] = Wanted[n]
        BY <4>1, <4>2
      <4>4. \A k \in 1 .. n : k = n \/ k \in 1 .. Len(widget_pool)
        BY <4>1
      <4>5. \A k \in 1 .. Len(widget_pool') : widget_pool'[k] = Wanted[k]
        BY <2>3, <4>2, <4>3, <4>4, Zenon
      <4> QED BY <4>2, <4>3, <4>5
    <3>2. CASE ~(Len(widget_pool) < MAX_WIDGETS)
      BY <2>2, <2>3, <2>4, <3>2
    <3> QED BY <3>1, <3>2
  <2>6. Wanted' = Wanted
    BY <2>2 DEF Wanted, Widget, Minus
  <2>7. /\ stage' \in Stages /\ stage'[1] # "widgets"
        /\ stage'[1] = "create" => stage'[2] = n + 1
    BY <2>2 DEF Stages
  <2>8. Len(widget_pool') <= 3 /\ n + 1 - 1 = n
    BY <2>5
  <2> QED BY <2>2, <2>4, <2>5, <2>6, <2>7, <2>8 DEF SceneTypeOK, IsCanvas, W
<1> DEFINE Same == scene' = scene /\ widget_pool' = widget_pool
           Steady == /\ stage' \in Stages /\ stage'[1] # "create" /\ stage[1] # "create"
                     /\ stage'[1] = "widgets" => stage'[2] <= Len(widget_pool)
           Times == ticks' \in 0 .. TICKS - 1 /\ tick' \in 0 .. ticks'
<1>2. ASSUME Same, Steady, Times, IsCanvas(canvas'), IsCanvas(shown')
      PROVE  SceneTypeOK'
  <2>1. Wanted' = Wanted
    BY <1>2 DEF Wanted, Widget, Minus
  <2> QED BY <1>2, <2>1 DEF SceneTypeOK
<1>3. /\ ticks \in 0 .. TICKS - 1 /\ tick \in 0 .. ticks /\ ticks \in 0 .. ticks /\ IsCanvas(canvas) /\ IsCanvas(shown)
      /\ stage[1] # "create" => Len(widget_pool) >= 1
  BY DEF SceneTypeOK
<1>4. ASSUME NEW s \in {"load", "clear", "baseline", "drain", "console", "pointer", "swap", "halt"}, Stage(s)
      PROVE  Same /\ Steady /\ ticks' = ticks
  <2>1. stage[1] = s /\ stage' = Behind(s) /\ Same /\ ticks' = ticks
    BY <1>4 DEF Stage
  <2>2. /\ stage' \in Stages /\ stage'[1] # "create" /\ (stage'[1] = "widgets" => stage'[2] = 1)
    BY <2>1, BehindIs DEF Stages
  <2>3. stage[1] # "create"
    BY <2>1
  <2>4. stage'[1] = "widgets" => stage'[2] <= Len(widget_pool)
    BY <1>3, <2>2, <2>3
  <2> QED BY <2>1, <2>2, <2>3, <2>4
<1> HIDE DEF Same, Steady, Times
<1>5. ASSUME ticks' = ticks, tick' = tick
      PROVE  Times
  BY <1>3, <1>5 DEF Times
<1>6. CASE BootScript
  <2>1. Same /\ ticks' = ticks /\ tick' = tick /\ shown' = shown /\ stage[1] = "script" /\ stage' = <<"load", 0>>
    BY <1>6 DEF BootScript, Same
  <2>2. Steady
    BY <2>1 DEF Steady, Stages
  <2>3. IsCanvas(canvas')
    BY <1>6, BootAdds
  <2>4. IsCanvas(shown')
    BY <1>3, <2>1
  <2> QED BY <1>2, <1>5, <2>1, <2>2, <2>3, <2>4
<1>7. CASE Load
  <2>1. Stage("load") /\ tick' = ticks /\ canvas' = canvas /\ shown' = shown
    BY <1>7 DEF Load
  <2>2. Same /\ Steady /\ ticks' = ticks
    BY <1>4, <2>1
  <2>3. Times
    BY <1>3, <2>1, <2>2 DEF Times
  <2> QED BY <1>2, <1>3, <2>1, <2>2, <2>3
<1>8. CASE Clear
  <2>1. Stage("clear") /\ tick' = tick /\ canvas' = Blank /\ shown' = shown
    BY <1>8 DEF Clear
  <2>2. Same /\ Steady /\ ticks' = ticks
    BY <1>4, <2>1
  <2>3. IsCanvas(canvas')
    BY <2>1 DEF IsCanvas, Blank
  <2> QED BY <1>2, <1>3, <1>5, <2>1, <2>2, <2>3
<1>9. CASE widget_draw_all
  <2>1. /\ IsCanvas(canvas') /\ stage[1] = "widgets" /\ stage' \in Stages /\ stage'[1] # "create"
        /\ stage'[1] = "widgets" => stage'[2] <= Len(widget_pool)
    <3>1. PICK k \in 1 .. 3 :
            /\ stage = <<"widgets", k>> /\ IsCanvas(canvas')
            /\ \/ stage' = <<"widgets", k + 1>> /\ k + 1 <= Len(widget_pool) /\ k + 1 \in 1 .. 3
               \/ stage' = <<"baseline", 1>>
      BY <1>9, WidgetTurn, Zenon
    <3> QED BY <3>1 DEF Stages
  <2>2. Same /\ ticks' = ticks /\ tick' = tick /\ shown' = shown
    BY <1>9 DEF widget_draw_all, Same
  <2>3. Steady
    BY <2>1 DEF Steady
  <2> QED BY <1>2, <1>3, <1>5, <2>1, <2>2, <2>3
<1>10. CASE Baseline
  <2>1. Stage("baseline") /\ tick' = tick /\ shown' = shown
    BY <1>10 DEF Baseline
  <2>2. IsCanvas(canvas')
    BY <1>10, BaselineAdds
  <2> QED BY <1>2, <1>3, <1>4, <1>5, <2>1, <2>2
<1>11. CASE Drain
  <2>1. Stage("drain") /\ tick' = tick /\ shown' = shown /\ canvas' = canvas
    BY <1>11 DEF Drain
  <2> QED BY <1>2, <1>3, <1>4, <1>5, <2>1
<1>12. CASE ConsoleDraw
  <2>1. Stage("console") /\ tick' = tick /\ shown' = shown
    BY <1>12 DEF ConsoleDraw
  <2>2. IsCanvas(canvas')
    BY <1>12, ConsoleAdds
  <2> QED BY <1>2, <1>3, <1>4, <1>5, <2>1, <2>2
<1>13. CASE CursorDraw
  <2>1. Stage("pointer") /\ tick' = tick /\ shown' = shown
    BY <1>13 DEF CursorDraw
  <2>2. IsCanvas(canvas')
    BY <1>13, PointerAdds
  <2> QED BY <1>2, <1>3, <1>4, <1>5, <2>1, <2>2
<1>14. CASE Swap
  <2>1. Stage("swap") /\ tick' = tick /\ shown' = canvas /\ canvas' = canvas
    BY <1>14 DEF Swap
  <2> QED BY <1>2, <1>3, <1>4, <1>5, <2>1
<1>15. CASE Halt
  <2>1. Stage("halt") /\ tick' = tick /\ shown' = shown /\ canvas' = canvas
    BY <1>15 DEF Halt
  <2> QED BY <1>2, <1>3, <1>4, <1>5, <2>1
<1>16. CASE Tick
  <2>1. stage[1] # "create" /\ Same /\ stage' = stage /\ tick' = tick /\ canvas' = canvas /\ shown' = shown
    BY <1>16 DEF Tick, Same
  <2>2. ticks' = ticks + 1 /\ ticks' \in 0 .. TICKS - 1
    BY <1>16, TimerRuns
  <2>3. Times
    BY <1>3, <2>1, <2>2 DEF Times
  <2>4. Steady
    BY <2>1 DEF Steady, SceneTypeOK
  <2> QED BY <1>2, <1>3, <2>1, <2>3, <2>4
<1>17. CASE UNCHANGED sceneVars
  <2>1. /\ ticks' = ticks /\ scene' = scene /\ widget_pool' = widget_pool /\ stage' = stage /\ tick' = tick
        /\ canvas' = canvas /\ shown' = shown
    BY <1>17 DEF sceneVars
  <2>2. Wanted' = Wanted
    BY <2>1 DEF Wanted, Widget, Minus
  <2> QED BY <2>1, <2>2 DEF SceneTypeOK
<1>18. CASE ScriptCall
  <2>1. stage[1] = "drain" /\ stage' = stage /\ Same /\ ticks' = ticks /\ tick' = tick /\ shown' = shown
    BY <1>18 DEF ScriptCall, Same
  <2>2. Steady
    BY <2>1 DEF Steady, SceneTypeOK
  <2>3. IsCanvas(canvas')
    BY <1>18, CallDraws DEF SceneTypeOK
  <2> QED BY <1>2, <1>3, <1>5, <2>1, <2>2, <2>3
<1> QED BY <1>1, <1>6, <1>7, <1>8, <1>9, <1>10, <1>11, <1>12, <1>13, <1>14, <1>15, <1>16, <1>17, <1>18 DEF SceneNext

-----------------------------------------------------------------------------
(* Frames: the date.                                                       *)
DateIs(date, t) ==
  LET day == t \div DAY_TICKS
  IN /\ 10 * date[1] + date[2] = (day % 13) + 1
     /\ date[3] = day % 20

(* The count of 260 days runs through 13 numbers and 20 signs.             *)
LEMMA CountRunsOn ==
  ASSUME NEW day \in Nat
  PROVE  (day % 260) % 13 = day % 13 /\ (day % 260) % 20 = day % 20
<1> DEFINE q == day \div 260  r == day % 260  a == r % 13  b == r \div 13  c == r % 20  e == r \div 20
<1>1. q \in Nat /\ r \in Nat /\ day = 260 * q + r
  OBVIOUS
<1> HIDE DEF q, r
<1>2. a \in 0 .. 12 /\ b \in Nat /\ r = 13 * b + a
  BY <1>1
<1>3. c \in 0 .. 19 /\ e \in Nat /\ r = 20 * e + c
  BY <1>1
<1> HIDE DEF a, b, c, e
<1>4. day % 13 = a
  <2> DEFINE k == 20 * q + b
  <2>1. day = 13 * k + a /\ k \in Int /\ a \in 0 .. 13 - 1 /\ 13 \in Nat \ {0} /\ day \in Int
    BY <1>1, <1>2
  <2> HIDE DEF k
  <2> QED BY <2>1, ModUnique
<1>5. day % 20 = c
  <2> DEFINE k == 13 * q + e
  <2>1. day = 20 * k + c /\ k \in Int /\ c \in 0 .. 20 - 1 /\ 20 \in Nat \ {0} /\ day \in Int
    BY <1>1, <1>3
  <2> HIDE DEF k
  <2> QED BY <2>1, ModUnique
<1> QED BY <1>4, <1>5 DEF a, c, r

(* The date that is drawn is that of the tick it is read at.               *)
LEMMA DateRead ==
  ASSUME ticks \in Nat
  PROVE  DateIs(DateOf(Wanted[2]), ticks)
<1> DEFINE day == ticks \div DAY_TICKS
           n == (TotalDays(ticks) % 13) + 1
           sign == TotalDays(ticks) % 20
<1>1. day \in Nat
  BY SceneAssumption
<1>2. TotalDays(ticks) = day % 260
  BY DEF TotalDays
<1> HIDE DEF day
<1>3. n = (day % 13) + 1 /\ sign = day % 20
  <2>1. (day % 260) % 13 = day % 13 /\ (day % 260) % 20 = day % 20
    BY <1>1, CountRunsOn
  <2>2. TotalDays(ticks) % 13 = day % 13 /\ TotalDays(ticks) % 20 = day % 20
    BY <1>2, <2>1, Zenon
  <2> QED BY <2>2, Zenon
<1>4. n \in 1 .. 13
  <2>1. day % 13 \in 0 .. 12
    BY <1>1
  <2> DEFINE x == day % 13
  <2> HIDE DEF x, n
  <2> QED BY <1>3, <2>1 DEF x
<1>5. DateOf(Wanted[2]) = <<(n \div 10) % 10, n % 10, sign>>
  <2>1. Wanted[2].draw = "tonalpohualli"
    BY WantedIs
  <2>2. pit_get_tonal_time(ticks).trecena_num = n /\ pit_get_tonal_time(ticks).veintena_sign = sign
    BY DEF pit_get_tonal_time
  <2> HIDE DEF n, sign
  <2> QED BY <2>1, <2>2 DEF DateOf
<1> HIDE DEF n, sign
<1>6. 10 * ((n \div 10) % 10) + (n % 10) = n
  BY <1>4
<1> DEFINE d == DateOf(Wanted[2])
<1>7. d[1] = (n \div 10) % 10 /\ d[2] = n % 10 /\ d[3] = sign
  BY <1>5
<1> HIDE DEF d
<1>8. 10 * d[1] + d[2] = n
  BY <1>6, <1>7
<1>9. 10 * d[1] + d[2] = (day % 13) + 1 /\ d[3] = day % 20
  BY <1>3, <1>7, <1>8, Zenon
<1> QED BY <1>9, Zenon DEF DateIs, d, day

(* What the buffer shows is the date of a tick of this frame.              *)
DateInv ==
  stage[1] \in {"widgets", "baseline", "drain", "console", "pointer", "swap"} /\ canvas.date # << >> =>
    \E t \in tick .. ticks : DateIs(canvas.date, t)

LEMMA DateStep == SceneTypeOK /\ DateInv /\ [SceneNext]_sceneVars => DateInv'
<1> SUFFICES ASSUME SceneTypeOK, DateInv, [SceneNext]_sceneVars
             PROVE  DateInv'
  OBVIOUS
<1>1. ticks \in Nat /\ tick \in 0 .. ticks /\ ticks \in tick .. ticks /\ IsCanvas(canvas)
  BY DEF SceneTypeOK
<1> DEFINE During == {"widgets", "baseline", "drain", "console", "pointer", "swap"}
<1>2. ASSUME stage[1] \in During, tick' = tick, ticks' = ticks \/ ticks' = ticks + 1,
             canvas'.date = canvas.date \/ canvas'.date = << >>
      PROVE  DateInv'
  <2>1. tick .. ticks \subseteq tick' .. ticks'
    BY <1>1, <1>2
  <2>2. ASSUME NEW t \in tick .. ticks, DateIs(canvas.date, t), canvas'.date = canvas.date
        PROVE  DateIs(canvas'.date, t)
    BY <2>2
  <2>3. canvas'.date # << >> => \E t \in tick .. ticks : DateIs(canvas'.date, t)
    BY <1>2, <2>2 DEF DateInv
  <2>4. canvas'.date # << >> => \E t \in tick' .. ticks' : DateIs(canvas'.date, t)
    BY <2>1, <2>3
  <2> QED BY <2>4 DEF DateInv, DateIs
<1>3. ASSUME stage'[1] \notin During PROVE DateInv'
  BY <1>3 DEF DateInv
<1>4. ASSUME NEW s \in During, Stage(s), tick' = tick, canvas'.date = canvas.date \/ canvas'.date = << >>
      PROVE  DateInv'
  BY <1>2, <1>4 DEF Stage
<1>5. CASE CreateWidget
  BY <1>3, <1>5 DEF CreateWidget
<1>6. CASE BootScript
  BY <1>3, <1>6 DEF BootScript
<1>7. CASE Load
  BY <1>3, <1>7, BehindIs DEF Load, Stage
<1>8. CASE Clear
  <2>1. canvas' = Blank
    BY <1>8 DEF Clear
  <2> QED BY <2>1 DEF Blank, DateInv
<1>9. CASE widget_draw_all
  <2>1. PICK k \in 1 .. 3 : stage = <<"widgets", k>> /\ canvas'.date = DateOf(Wanted[k])
    BY <1>9, WidgetTurn, Zenon
  <2>2. ticks' = ticks /\ tick' = tick
    BY <1>9 DEF widget_draw_all
  <2>3. CASE k = 2
    <3>1. DateIs(canvas'.date, ticks)
      BY <1>1, <2>1, <2>3, DateRead
    <3>2. ticks \in tick' .. ticks'
      BY <1>1, <2>2
    <3> QED BY <3>1, <3>2 DEF DateInv, DateIs
  <2>4. CASE k # 2
    <3>1. DateOf(Wanted[k]) = canvas.date
      BY <2>4, WantedIs DEF DateOf
    <3> QED BY <1>2, <2>1, <2>2, <3>1
  <2> QED BY <2>3, <2>4
<1>10. CASE Baseline
  <2>1. canvas'.date = canvas.date
    BY <1>10, BaselineAdds
  <2> QED BY <1>4, <1>10, <2>1 DEF Baseline
<1>11. CASE Drain
  BY <1>4, <1>11 DEF Drain
<1>12. CASE ConsoleDraw
  <2>1. canvas'.date = canvas.date
    BY <1>12, ConsoleAdds
  <2> QED BY <1>4, <1>12, <2>1 DEF ConsoleDraw
<1>13. CASE CursorDraw
  <2>1. canvas'.date = canvas.date
    BY <1>13, PointerAdds
  <2> QED BY <1>4, <1>13, <2>1 DEF CursorDraw
<1>14. CASE Swap
  BY <1>3, <1>14, BehindIs DEF Swap, Stage
<1>15. CASE Halt
  BY <1>3, <1>15, BehindIs DEF Halt, Stage
<1>16. CASE Tick
  <2>1. stage' = stage /\ tick' = tick /\ canvas' = canvas /\ ticks' = ticks + 1
    BY <1>16, TimerRuns DEF Tick
  <2>2. CASE stage[1] \in During
    BY <1>2, <2>1, <2>2
  <2>3. CASE stage[1] \notin During
    BY <1>3, <2>1, <2>3
  <2> QED BY <2>2, <2>3
<1>17. CASE UNCHANGED sceneVars
  BY <1>17 DEF sceneVars, DateInv, DateIs
<1>18. CASE ScriptCall
  <2>1. canvas'.date = canvas.date \/ canvas'.date = << >>
    <3>1. scene \in Scenes
      BY DEF SceneTypeOK
    <3> QED BY <1>1, <1>18, <3>1, CallDraws DEF Blank
  <2>2. stage[1] = "drain" /\ tick' = tick /\ ticks' = ticks
    BY <1>18 DEF ScriptCall
  <2> QED BY <1>2, <2>1, <2>2
<1> QED BY <1>5, <1>6, <1>7, <1>8, <1>9, <1>10, <1>11, <1>12, <1>13, <1>14, <1>15, <1>16, <1>17, <1>18 DEF SceneNext

(* The loop keeps its order, the pool holds the first widgets of the three *)
(* that are created, and buffer and screen hold drawings                   *)
(* (kernel.c:67-134).                                                      *)
THEOREM SceneTypeAlways == SceneSpec => []SceneTypeOK
<1> QED BY SceneTypeInit, SceneTypeStep, PTL DEF SceneSpec

(* The date on the screen is that of a tick between the head of the loop   *)
(* and the swap, however often the timer interrupts the frame, until its   *)
(* counter wraps (pit.c:37-49, kernel.c:16-19, 26-35).                     *)
THEOREM DateShownAlways == SceneSpec => DateShown
<1> DEFINE A == Swap /\ shown'.date # << >> =>
                  \E t \in tick .. ticks :
                    LET day == t \div DAY_TICKS
                    IN /\ 10 * shown'.date[1] + shown'.date[2] = (day % 13) + 1
                       /\ shown'.date[3] = day % 20
<1>1. SceneInit => DateInv
  BY DEF SceneInit, DateInv
<1>2. DateInv /\ [SceneNext]_sceneVars => [A]_sceneVars
  <2> SUFFICES ASSUME DateInv, Swap, shown'.date # << >>
               PROVE  \E t \in tick .. ticks : DateIs(shown'.date, t)
    BY DEF DateIs
  <2>1. shown' = canvas /\ stage[1] = "swap"
    BY DEF Swap, Stage
  <2>2. canvas.date # << >> /\ \E t \in tick .. ticks : DateIs(canvas.date, t)
    BY <2>1 DEF DateInv
  <2> QED BY <2>1, <2>2
<1> HIDE DEF A
<1>3. SceneSpec => [][A]_sceneVars
  BY SceneTypeInit, SceneTypeStep, DateStep, <1>1, <1>2, PTL DEF SceneSpec
<1> QED BY <1>3 DEF A, DateShown

-----------------------------------------------------------------------------
(* Frames: what scripts draw.                                              *)
Others == {d \in Drawings : d.part # "entered"}
CountEntered(d) == Cardinality({i \in DOMAIN d : d[i].part = "entered"})

LEMMA CountIs == \A pic : DrawingsOf("entered", pic) = CountEntered(pic.drawn)
BY DEF DrawingsOf, CountEntered

LEMMA NoneEntered ==
  ASSUME NEW p \in Seq(Drawings), NEW q \in Seq(Others)
  PROVE  CountEntered(p \o q) = CountEntered(p)
<1> DEFINE u == p \o q  m == Len(p)  n == Len(q)
<1>1. /\ DOMAIN p = 1 .. m /\ DOMAIN q = 1 .. n /\ DOMAIN u = 1 .. m + n
      /\ \A i \in 1 .. m : u[i] = p[i]
      /\ \A i \in m + 1 .. m + n : u[i] = q[i - m] /\ q[i - m] \in Others
  BY BehindEachOther
<1>2. m \in Nat /\ n \in Nat
  OBVIOUS
<1> HIDE DEF u, m, n
<1>3. ASSUME NEW i \in m + 1 .. m + n PROVE u[i].part # "entered"
  BY <1>1, <1>3 DEF Others
<1>4. {i \in DOMAIN u : u[i].part = "entered"} = {i \in DOMAIN p : p[i].part = "entered"}
  <2>1. \A i : i \in 1 .. m + n <=> i \in 1 .. m \/ i \in m + 1 .. m + n
    BY <1>2
  <2> QED BY <1>1, <1>3, <2>1
<1> QED BY <1>4 DEF CountEntered, u

LEMMA OneEntered ==
  ASSUME NEW p \in Seq(Drawings), NEW d \in Drawings, d.part = "entered"
  PROVE  CountEntered(p \o <<d>>) = CountEntered(p) + 1
<1> DEFINE u == p \o <<d>>  m == Len(p)
           P == {i \in DOMAIN p : p[i].part = "entered"}
<1>1. /\ DOMAIN p = 1 .. m /\ DOMAIN u = 1 .. m + 1 /\ m \in Nat
      /\ \A i \in 1 .. m : u[i] = p[i]
      /\ u[m + 1] = d
  OBVIOUS
<1> HIDE DEF u, m
<1>2. {i \in DOMAIN u : u[i].part = "entered"} = P \cup {m + 1}
  <2>1. \A i : i \in 1 .. m + 1 <=> i \in 1 .. m \/ i = m + 1
    BY <1>1
  <2>2. u[m + 1].part = "entered"
    BY <1>1
  <2> QED BY <1>1, <2>1, <2>2
<1>3. IsFiniteSet(P)
  <2>1. IsFiniteSet(1 .. m) /\ P \subseteq 1 .. m
    BY <1>1, FS_Interval
  <2> QED BY <2>1, FS_Subset
<1>4. m + 1 \notin P
  BY <1>1
<1> HIDE DEF P
<1>5. Cardinality(P \cup {m + 1}) = Cardinality(P) + 1
  BY <1>3, <1>4, FS_AddElement
<1> QED BY <1>2, <1>5 DEF CountEntered, u, P

LEMMA BlankEntered == CountEntered(<< >>) = 0
<1>1. {i \in DOMAIN << >> : << >>[i].part = "entered"} = {}
  OBVIOUS
<1> QED BY <1>1, FS_EmptySet DEF CountEntered

(* What no script has drawn.                                               *)
LEMMA OthersDrawn ==
  ASSUME IsCanvas(canvas), NEW part \in {"widget", "baseline", "console", "pointer"}, NEW q \in Seq(Areas)
  PROVE  CountEntered(canvas.drawn \o By(part, q)) = CountEntered(canvas.drawn)
<1>1. By(part, q) \in Seq(Of(part, Areas))
  BY PartDrawn
<1>2. Of(part, Areas) \subseteq Others
  BY DEF Of, Others
<1> DEFINE d == By(part, q)
<1> HIDE DEF d
<1>3. d \in Seq(Others) /\ canvas.drawn \in Seq(Drawings)
  BY <1>1, <1>2 DEF d, IsCanvas
<1> QED BY <1>3, NoneEntered DEF d

(* A screen on which the drawing of a script that is entered can be seen.  *)
ScriptsFit == \A s \in Scenes : s.w > 8 /\ s.h > 40

LEMMA ScriptDrawn ==
  ASSUME ScriptsFit, scene \in Scenes, NEW p \in Seq(Drawings)
  PROVE  CountEntered(p \o By("entered", Rect(8, 40, 20, 20))) = CountEntered(p) + 1
<1> DEFINE q == Rect(8, 40, 20, 20)  a == q[1]
<1>1. Len(q) = 1 /\ q \in Seq(Areas)
  <2>1. q \in Seq(Areas)
    BY BoxTyped
  <2>2. ~(8 >= scene.w \/ 40 >= scene.h)
    <3>1. scene.w > 8 /\ scene.h > 40
      BY DEF ScriptsFit
    <3> QED BY <3>1, Sizes
  <2>3. Len(q) = 1
    BY <2>2 DEF Rect
  <2> QED BY <2>1, <2>3
<1> HIDE DEF q
<1>2. By("entered", q) \in Seq(Of("entered", Areas)) /\ Len(By("entered", q)) = 1
  BY <1>1, PartDrawn
<1> DEFINE d == By("entered", q)
<1> HIDE DEF d
<1>3. d = <<d[1]>> /\ d[1] \in Drawings /\ d[1].part = "entered"
  BY <1>2 DEF d, Of
<1> DEFINE x == d[1]
<1> HIDE DEF x
<1>4. CountEntered(p \o <<x>>) = CountEntered(p) + 1
  BY <1>3, OneEntered DEF x
<1> QED BY <1>3, <1>4 DEF x, d, q

(* What is still there of the drawings that were called for.               *)
ScriptCalls == {"draw", "clear"}

LEMMA KeptAndWiped ==
  /\ Kept(<< >>) = {} /\ ~Wiped(<< >>)
  /\ \A calls \in Seq(ScriptCalls) :
       /\ Cardinality(Kept(Append(calls, "draw"))) = Cardinality(Kept(calls)) + 1
       /\ Kept(Append(calls, "clear")) = {}
       /\ Wiped(Append(calls, "draw")) <=> Wiped(calls)
       /\ Wiped(Append(calls, "clear"))
<1>1. Kept(<< >>) = {} /\ ~Wiped(<< >>)
  BY DEF Kept, Wiped
<1>2. ASSUME NEW calls \in Seq(ScriptCalls), NEW c \in ScriptCalls
      PROVE  /\ Len(calls) \in Nat /\ DOMAIN calls = 1 .. Len(calls)
             /\ DOMAIN Append(calls, c) = 1 .. Len(calls) + 1 /\ Len(Append(calls, c)) = Len(calls) + 1
             /\ Append(calls, c)[Len(calls) + 1] = c
             /\ \A k \in 1 .. Len(calls) : Append(calls, c)[k] = calls[k]
  OBVIOUS
<1>3. ASSUME NEW calls \in Seq(ScriptCalls)
      PROVE  /\ Cardinality(Kept(Append(calls, "draw"))) = Cardinality(Kept(calls)) + 1
             /\ Wiped(Append(calls, "draw")) <=> Wiped(calls)
  <2> DEFINE n == Len(calls)  after == Append(calls, "draw")
  <2>1. /\ n \in Nat /\ DOMAIN calls = 1 .. n /\ DOMAIN after = 1 .. n + 1 /\ Len(after) = n + 1
        /\ after[n + 1] = "draw" /\ \A k \in 1 .. n : after[k] = calls[k]
    BY <1>2 DEF ScriptCalls
  <2> HIDE DEF n, after
  <2>2. \A k : k \in 1 .. n + 1 <=> k \in 1 .. n \/ k = n + 1
    BY <2>1
  <2>3. Kept(after) = Kept(calls) \cup {n + 1}
    <3>1. Kept(calls) = {k \in 1 .. n : \A l \in k .. n : calls[l] = "draw"}
      BY <2>1 DEF Kept, n
    <3>2. Kept(after) = {k \in 1 .. n + 1 : \A l \in k .. n + 1 : after[l] = "draw"}
      BY <2>1 DEF Kept
    <3>3. ASSUME NEW k \in 1 .. n
          PROVE  (\A l \in k .. n + 1 : after[l] = "draw") <=> (\A l \in k .. n : calls[l] = "draw")
      <4>1. \A l : l \in k .. n + 1 <=> l \in k .. n \/ l = n + 1
        BY <2>1
      <4>2. \A l \in k .. n : after[l] = calls[l]
        BY <2>1
      <4> QED BY <2>1, <4>1, <4>2
    <3>4. \A l \in n + 1 .. n + 1 : after[l] = "draw"
      BY <2>1
    <3> QED BY <2>2, <3>1, <3>2, <3>3, <3>4
  <2>4. IsFiniteSet(Kept(calls)) /\ n + 1 \notin Kept(calls)
    <3>1. Kept(calls) \subseteq 1 .. n
      BY <2>1 DEF Kept
    <3>2. IsFiniteSet(1 .. n)
      BY <2>1, FS_Interval
    <3> QED BY <2>1, <3>1, <3>2, FS_Subset
  <2>5. Cardinality(Kept(calls) \cup {n + 1}) = Cardinality(Kept(calls)) + 1
    BY <2>4, FS_AddElement
  <2>6. Wiped(after) <=> Wiped(calls)
    BY <2>1, <2>2 DEF Wiped
  <2> QED BY <2>3, <2>5, <2>6 DEF after
<1>4. ASSUME NEW calls \in Seq(ScriptCalls)
      PROVE  Kept(Append(calls, "clear")) = {} /\ Wiped(Append(calls, "clear"))
  <2> DEFINE n == Len(calls)  after == Append(calls, "clear")
  <2>1. n \in Nat /\ DOMAIN after = 1 .. n + 1 /\ Len(after) = n + 1 /\ after[n + 1] = "clear"
    BY <1>2 DEF ScriptCalls
  <2> HIDE DEF n, after
  <2>2. \A k \in 1 .. n + 1 : n + 1 \in k .. n + 1
    BY <2>1
  <2>3. n + 1 \in 1 .. n + 1
    BY <2>1
  <2> QED BY <2>1, <2>2, <2>3 DEF Kept, Wiped, after
<1> QED BY <1>1, <1>3, <1>4

(* What the loop draws before it turns to the keyboard, and what comes     *)
(* over it.                                                                *)
NoLoop(p) == \A i \in DOMAIN p : p[i].part \notin {"widget", "baseline"}
Begins(p, u) == \E q \in Seq(Drawings) : u = p \o q

LEMMA DrawnOver ==
  ASSUME NEW part \in {"entered", "console", "pointer"}, NEW q \in Seq(Areas),
         NEW p \in Seq(Drawings), NEW u \in Seq(Drawings)
  PROVE  /\ NoLoop(u) => NoLoop(u \o By(part, q))
         /\ Begins(p, u) => Begins(p, u \o By(part, q))
<1> DEFINE d == By(part, q)
<1>1. d \in Seq(Of(part, Areas))
  BY PartDrawn
<1>2. Of(part, Areas) \subseteq Drawings /\ \A x \in Of(part, Areas) : x.part = part
  BY DEF Of
<1> HIDE DEF d
<1>3. d \in Seq(Drawings)
  BY <1>1, <1>2
<1>4. NoLoop(u) => NoLoop(u \o d)
  <2> DEFINE m == Len(u)  n == Len(d)  w == u \o d
  <2>1. /\ DOMAIN u = 1 .. m /\ DOMAIN w = 1 .. m + n /\ m \in Nat /\ n \in Nat
        /\ \A i \in 1 .. m : w[i] = u[i]
        /\ \A i \in m + 1 .. m + n : w[i] = d[i - m] /\ d[i - m] \in Of(part, Areas)
    BY <1>1, BehindEachOther
  <2> HIDE DEF m, n, w
  <2>2. \A i : i \in 1 .. m + n <=> i \in 1 .. m \/ i \in m + 1 .. m + n
    BY <2>1
  <2>3. \A i \in m + 1 .. m + n : w[i].part \notin {"widget", "baseline"}
    BY <1>2, <2>1
  <2> QED BY <2>1, <2>2, <2>3 DEF NoLoop, w
<1>5. ASSUME NEW r \in Seq(Drawings), u = p \o r PROVE Begins(p, u \o d)
  <2>1. (p \o r) \o d = p \o (r \o d)
    BY <1>3
  <2>2. r \o d \in Seq(Drawings)
    BY <1>3
  <2> QED BY <1>5, <2>1, <2>2 DEF Begins
<1> QED BY <1>4, <1>5 DEF Begins, d

LEMMA BeginsItself ==
  ASSUME NEW p \in Seq(Drawings)
  PROVE  Begins(p, p)
<1>1. << >> \in Seq(Drawings) /\ p \o << >> = p
  OBVIOUS
<1> QED BY <1>1 DEF Begins

LEMMA BeginsIsPrefix ==
  ASSUME NEW p \in Seq(Drawings), NEW u, Begins(p, u)
  PROVE  IsPrefix(p, u)
<1>1. PICK q \in Seq(Drawings) : u = p \o q
  BY DEF Begins
<1>2. Len(p) <= Len(u) /\ SubSeq(u, 1, Len(p)) = p /\ SubSeq(p, 1, Len(p)) = p
  BY <1>1
<1> QED BY <1>2 DEF IsPrefix

LEMMA NoneOfTheLoop ==
  ASSUME NEW pic, NoLoop(pic.drawn), NEW part \in {"widget", "baseline"}
  PROVE  DrawingsOf(part, pic) = 0
<1>1. {i \in DOMAIN pic.drawn : pic.drawn[i].part = part} = {}
  BY DEF NoLoop
<1> QED BY <1>1, FS_EmptySet DEF DrawingsOf

(* From the keyboard to the swap the buffer holds the drawings of scripts  *)
(* that are kept, and under them what the loop had drawn, unless that is   *)
(* wiped.                                                                  *)
Late == {"drain", "console", "pointer", "swap"}
LaidOver ==
  /\ IsCanvas(below) /\ CountEntered(below.drawn) = 0
  /\ CountEntered(canvas.drawn) = Cardinality(Kept(entered))
  /\ ~Wiped(entered) => canvas.date = below.date /\ Begins(below.drawn, canvas.drawn)
  /\ Wiped(entered) => canvas.date = << >> /\ NoLoop(canvas.drawn)
EnteredInv ==
  /\ entered \in Seq(ScriptCalls)
  /\ stage[1] \notin Late => entered = << >>
  /\ stage[1] \in {"widgets", "baseline"} => CountEntered(canvas.drawn) = 0
  /\ stage[1] \in Late => LaidOver

(* A part of the loop that is drawn over the scripts'.                     *)
LEMMA PartOver ==
  ASSUME IsCanvas(canvas), LaidOver, NEW part \in {"console", "pointer"}, NEW q \in Seq(Areas),
         canvas'.drawn = canvas.drawn \o By(part, q), canvas'.date = canvas.date,
         UNCHANGED <<entered, below>>
  PROVE  LaidOver'
<1>1. canvas.drawn \in Seq(Drawings) /\ below.drawn \in Seq(Drawings)
  BY DEF LaidOver, IsCanvas
<1>2. CountEntered(canvas'.drawn) = CountEntered(canvas.drawn)
  BY OthersDrawn
<1>3. /\ NoLoop(canvas.drawn) => NoLoop(canvas'.drawn)
      /\ Begins(below.drawn, canvas.drawn) => Begins(below.drawn, canvas'.drawn)
  BY <1>1, DrawnOver
<1>4. /\ IsCanvas(below') /\ CountEntered(below'.drawn) = 0
      /\ CountEntered(canvas'.drawn) = Cardinality(Kept(entered'))
  BY <1>2 DEF LaidOver
<1>5. ~Wiped(entered') => canvas'.date = below'.date /\ Begins(below'.drawn, canvas'.drawn)
  BY <1>3 DEF LaidOver
<1>6. Wiped(entered') => canvas'.date = << >> /\ NoLoop(canvas'.drawn)
  BY <1>3 DEF LaidOver
<1> QED BY <1>4, <1>5, <1>6 DEF LaidOver, IsCanvas, CountEntered, Kept, Wiped, Begins, NoLoop

(* A call of a script.                                                     *)
LEMMA CallOver ==
  ASSUME ScriptsFit, IsCanvas(canvas), scene \in Scenes, LaidOver, entered \in Seq(ScriptCalls), ScriptCall
  PROVE  LaidOver' /\ entered' \in Seq(ScriptCalls)
<1> DEFINE q == Rect(8, 40, 20, 20)
<1>1. /\ canvas.drawn \in Seq(Drawings) /\ below.drawn \in Seq(Drawings) /\ below' = below
      /\ IsCanvas(below) /\ CountEntered(below.drawn) = 0
  BY CallDraws DEF LaidOver, IsCanvas
<1>2. q \in Seq(Areas)
  BY BoxTyped
<1>3. CASE /\ canvas'.drawn = canvas.drawn \o By("entered", q)
           /\ canvas'.date = canvas.date /\ entered' = Append(entered, "draw")
  <2>1. CountEntered(canvas'.drawn) = CountEntered(canvas.drawn) + 1
    BY <1>1, <1>3, ScriptDrawn
  <2> HIDE DEF q
  <2>2. /\ NoLoop(canvas.drawn) => NoLoop(canvas'.drawn)
        /\ Begins(below.drawn, canvas.drawn) => Begins(below.drawn, canvas'.drawn)
    BY <1>1, <1>2, <1>3, DrawnOver
  <2>3. /\ Cardinality(Kept(entered')) = Cardinality(Kept(entered)) + 1
        /\ Wiped(entered') <=> Wiped(entered)
    BY <1>3, KeptAndWiped
  <2>4. entered' \in Seq(ScriptCalls)
    BY <1>3 DEF ScriptCalls
  <2>5. CountEntered(canvas'.drawn) = Cardinality(Kept(entered'))
    BY <2>1, <2>3 DEF LaidOver
  <2>6. ~Wiped(entered') => canvas'.date = below'.date /\ Begins(below'.drawn, canvas'.drawn)
    BY <1>1, <1>3, <2>2, <2>3 DEF LaidOver
  <2>7. Wiped(entered') => canvas'.date = << >> /\ NoLoop(canvas'.drawn)
    BY <1>3, <2>2, <2>3 DEF LaidOver
  <2> QED BY <1>1, <2>4, <2>5, <2>6, <2>7 DEF LaidOver, IsCanvas, CountEntered, Kept, Wiped, Begins, NoLoop
<1>4. CASE canvas' = Blank /\ entered' = Append(entered, "clear")
  <2>1. Kept(entered') = {} /\ Wiped(entered')
    BY <1>4, KeptAndWiped
  <2>2. canvas'.drawn = << >> /\ canvas'.date = << >>
    BY <1>4 DEF Blank
  <2>3. CountEntered(canvas'.drawn) = Cardinality(Kept(entered'))
    BY <2>1, <2>2, BlankEntered, FS_EmptySet
  <2>4. NoLoop(canvas'.drawn)
    BY <2>2 DEF NoLoop
  <2>5. entered' \in Seq(ScriptCalls)
    BY <1>4 DEF ScriptCalls
  <2> QED BY <1>1, <2>1, <2>2, <2>3, <2>4, <2>5 DEF LaidOver, IsCanvas, CountEntered, Kept, Wiped, Begins, NoLoop
<1> QED BY <1>3, <1>4, CallDraws

LEMMA EnteredStep == ScriptsFit /\ SceneTypeOK /\ EnteredInv /\ [SceneNext]_sceneVars => EnteredInv'
<1> SUFFICES ASSUME ScriptsFit, SceneTypeOK, EnteredInv, [SceneNext]_sceneVars
             PROVE  EnteredInv'
  OBVIOUS
<1>1. IsCanvas(canvas) /\ scene \in Scenes
  BY DEF SceneTypeOK
<1>2. UNCHANGED <<canvas, entered, below>> /\ LaidOver => LaidOver'
  BY DEF LaidOver, IsCanvas, CountEntered, Kept, Wiped, Begins, NoLoop
<1>3. entered \in Seq(ScriptCalls)
  BY DEF EnteredInv
<1>5. CASE CreateWidget
  BY <1>5 DEF CreateWidget, EnteredInv, Late
<1>6. CASE BootScript
  BY <1>6 DEF BootScript, EnteredInv, Late
<1>7. CASE Load
  BY <1>7, BehindIs DEF Load, Stage, EnteredInv, Late
<1>8. CASE Clear
  <2>1. canvas' = Blank /\ entered' = entered /\ stage'[1] = "widgets" /\ stage[1] = "clear"
    BY <1>8, BehindIs DEF Clear, Stage
  <2>2. CountEntered(canvas'.drawn) = 0
    BY <2>1, BlankEntered DEF Blank
  <2> QED BY <2>1, <2>2 DEF EnteredInv, Late, CountEntered
<1>9. CASE widget_draw_all
  <2>1. PICK k \in 1 .. 3 :
          /\ stage = <<"widgets", k>> /\ canvas'.drawn = canvas.drawn \o By("widget", DrawnWidget(Wanted[k]))
          /\ \/ stage' = <<"widgets", k + 1>> /\ k + 1 <= Len(widget_pool) /\ k + 1 \in 1 .. 3
             \/ stage' = <<"baseline", 1>>
    BY <1>9, WidgetTurn, Zenon
  <2>2. DrawnWidget(Wanted[k]) \in Seq(Areas)
    BY WidgetDraws
  <2>3. CountEntered(canvas'.drawn) = CountEntered(canvas.drawn)
    BY <1>1, <2>1, <2>2, OthersDrawn
  <2>4. CountEntered(canvas'.drawn) = 0 /\ entered = << >>
    BY <2>1, <2>3 DEF EnteredInv, Late
  <2>5. entered' = entered /\ stage'[1] \in {"widgets", "baseline"}
    BY <1>9, <2>1 DEF widget_draw_all
  <2> QED BY <1>3, <2>4, <2>5 DEF EnteredInv, Late, CountEntered
<1>10. CASE Baseline
  <2>1. Line(0, 440, 800, 455) \in Seq(Areas)
    BY BaselineDraws
  <2>2. IsCanvas(canvas') /\ canvas'.drawn = canvas.drawn \o By("baseline", Line(0, 440, 800, 455))
    BY <1>10, BaselineAdds
  <2>3. CountEntered(canvas'.drawn) = CountEntered(canvas.drawn)
    BY <1>1, <2>1, <2>2, OthersDrawn
  <2>4. stage[1] = "baseline" /\ stage'[1] = "drain" /\ below' = canvas' /\ entered' = entered
    BY <1>10, BehindIs DEF Baseline, Stage
  <2>5. CountEntered(canvas'.drawn) = 0 /\ entered' = << >>
    BY <2>3, <2>4 DEF EnteredInv, Late
  <2>6. Begins(canvas'.drawn, canvas'.drawn)
    <3>1. canvas'.drawn \in Seq(Drawings)
      BY <2>2 DEF IsCanvas
    <3> QED BY <3>1, BeginsItself
  <2>7. Cardinality(Kept(entered')) = 0 /\ ~Wiped(entered')
    BY <2>5, KeptAndWiped, FS_EmptySet
  <2>8. LaidOver'
    <3>1. IsCanvas(below)'
      BY <2>2, <2>4 DEF IsCanvas
    <3>2. CountEntered(below.drawn)' = 0
      BY <2>4, <2>5 DEF CountEntered
    <3>3. CountEntered(canvas.drawn)' = Cardinality(Kept(entered))' /\ ~Wiped(entered)'
      BY <2>5, <2>7 DEF CountEntered, Kept, Wiped
    <3>4. canvas'.date = below'.date /\ Begins(below.drawn, canvas.drawn)'
      BY <2>4, <2>6 DEF Begins
    <3> QED BY <3>1, <3>2, <3>3, <3>4 DEF LaidOver
  <2> QED BY <1>3, <2>4, <2>8 DEF EnteredInv, Late
<1>11. CASE ScriptCall
  <2>1. stage[1] = "drain" /\ stage' = stage
    BY <1>11 DEF ScriptCall
  <2>2. LaidOver
    BY <2>1 DEF EnteredInv, Late
  <2>3. LaidOver' /\ entered' \in Seq(ScriptCalls)
    BY <1>1, <1>3, <1>11, <2>2, CallOver
  <2> QED BY <2>1, <2>3 DEF EnteredInv, Late
<1>12. CASE Drain
  <2>1. stage[1] = "drain" /\ stage'[1] = "console" /\ UNCHANGED <<canvas, entered, below>>
    BY <1>12, BehindIs DEF Drain, Stage
  <2> QED BY <1>2, <1>3, <2>1 DEF EnteredInv, Late
<1>13. CASE ConsoleDraw
  <2>1. console_draw \in Seq(Areas)
    BY ConsoleDraws
  <2>2. canvas'.drawn = canvas.drawn \o By("console", console_draw) /\ canvas'.date = canvas.date
    BY <1>13, ConsoleAdds
  <2>3. stage[1] = "console" /\ stage'[1] = "pointer" /\ UNCHANGED <<entered, below>>
    BY <1>13, BehindIs DEF ConsoleDraw, Stage
  <2>4. LaidOver
    BY <2>3 DEF EnteredInv, Late
  <2>5. LaidOver'
    BY <1>1, <2>1, <2>2, <2>3, <2>4, PartOver
  <2> QED BY <1>3, <2>3, <2>5 DEF EnteredInv, Late
<1>14. CASE CursorDraw
  <2>1. mouse_draw_cursor \in Seq(Areas)
    BY PointerDraws
  <2>2. canvas'.drawn = canvas.drawn \o By("pointer", mouse_draw_cursor) /\ canvas'.date = canvas.date
    BY <1>14, PointerAdds
  <2>3. stage[1] = "pointer" /\ stage'[1] = "swap" /\ UNCHANGED <<entered, below>>
    BY <1>14, BehindIs DEF CursorDraw, Stage
  <2>4. LaidOver
    BY <2>3 DEF EnteredInv, Late
  <2>5. LaidOver'
    BY <1>1, <2>1, <2>2, <2>3, <2>4, PartOver
  <2> QED BY <1>3, <2>3, <2>5 DEF EnteredInv, Late
<1>15. CASE Swap
  BY <1>15, BehindIs DEF Swap, Stage, EnteredInv, Late
<1>16. CASE Halt
  BY <1>16, BehindIs DEF Halt, Stage, EnteredInv, Late
<1>17. CASE Tick \/ UNCHANGED sceneVars
  <2>1. UNCHANGED <<stage, canvas, entered, below>>
    BY <1>17 DEF Tick, sceneVars
  <2> QED BY <1>2, <1>3, <2>1 DEF EnteredInv, Late, CountEntered
<1> QED BY <1>5, <1>6, <1>7, <1>8, <1>9, <1>10, <1>11, <1>12, <1>13, <1>14, <1>15, <1>16, <1>17 DEF SceneNext

(* The drawings of scripts entered at the console that no script has       *)
(* cleared since are on the screen with the next frame, each once, over    *)
(* all that the loop has drawn, or over none of it where a script has      *)
(* cleared that; where the screen has the place they are drawn at          *)
(* (kernel.c:95-127, builtins.c:93).                                       *)
THEOREM EnteredShownAlways ==
  ASSUME ScriptsFit
  PROVE  SceneSpec => EnteredShown
<1> DEFINE A == Swap =>
       /\ DrawingsOf("entered", shown') = Cardinality(Kept(entered))
       /\ ~Wiped(entered) => /\ DrawingsOf("entered", below) = 0
                             /\ IsPrefix(below.drawn, shown'.drawn)
                             /\ shown'.date = below.date
       /\ Wiped(entered) => /\ \A part \in {"widget", "baseline"} : DrawingsOf(part, shown') = 0
                            /\ shown'.date = << >>
<1>1. SceneInit => EnteredInv
  BY DEF SceneInit, EnteredInv, Late
<1>2. SceneTypeOK /\ EnteredInv /\ [SceneNext]_sceneVars => EnteredInv'
  BY EnteredStep
<1>3. EnteredInv /\ [SceneNext]_sceneVars => [A]_sceneVars
  <2> SUFFICES ASSUME EnteredInv, Swap PROVE A
    OBVIOUS
  <2>1. shown' = canvas /\ stage[1] = "swap"
    BY DEF Swap, Stage
  <2>2. LaidOver
    BY <2>1 DEF EnteredInv, Late
  <2>3. DrawingsOf("entered", shown') = Cardinality(Kept(entered)) /\ DrawingsOf("entered", below) = 0
    BY <2>1, <2>2 DEF LaidOver, DrawingsOf, CountEntered
  <2>4. ~Wiped(entered) => IsPrefix(below.drawn, shown'.drawn) /\ shown'.date = below.date
    BY <2>1, <2>2, BeginsIsPrefix DEF LaidOver, IsCanvas
  <2>5. Wiped(entered) => /\ \A part \in {"widget", "baseline"} : DrawingsOf(part, shown') = 0
                          /\ shown'.date = << >>
    BY <2>1, <2>2, NoneOfTheLoop DEF LaidOver
  <2> QED BY <2>3, <2>4, <2>5
<1> HIDE DEF A
<1>4. SceneSpec => [][A]_sceneVars
  BY SceneTypeInit, SceneTypeStep, <1>1, <1>2, <1>3, PTL DEF SceneSpec
<1> QED BY <1>4 DEF A, EnteredShown

-----------------------------------------------------------------------------
(* Frames: what may cover what.                                            *)
(* The texts of the date end above the line at the foot, and those that    *)
(* reach as far down as the sun end on its left.                           *)
DateZone == Down(60) \cap (Shapes \cup Up(78) \cup (Up(120) \cap Left(288)))
Banner == Of("widget", Up(40))
Date == Of("widget", DateZone)
Ritual == Of("widget", Figures)
Widgets == Banner \cup Date \cup Ritual
Ground == Of("baseline", Shapes \cap Down(120))
Scripts == Of("entered", Shapes)
Window == Of("console", Areas)
Pointer == Of("pointer", Areas)

LEMMA WidgetsApart == Harmless(Banner, Date) /\ Harmless(Banner \cup Date, Ritual)
<1>1. Harmless(Banner, Date)
  BY DEF Harmless, Banner, Date, Of, Drawings, Up, Down, Left, Shapes, Areas, DateZone, Overlap
<1>2. Harmless(Banner, Ritual)
  BY DEF Harmless, Banner, Ritual, Of, Drawings, Up, Down, Right, Shapes, Areas, Figures, Overlap
<1>3. Harmless(Date, Ritual)
  BY DEF Harmless, Date, Ritual, Of, Drawings, Up, Down, Left, Right, Shapes, Areas, DateZone, Figures, Overlap
<1> QED BY <1>1, <1>2, <1>3 DEF Harmless

LEMMA GroundApart == Harmless(Widgets, Ground)
<1>1. Harmless(Banner, Ground)
  BY DEF Harmless, Banner, Ground, Of, Drawings, Up, Down, Shapes, Areas, Overlap
<1>2. Harmless(Date, Ground)
  BY DEF Harmless, Date, Ground, Of, Drawings, Up, Down, Left, Shapes, Areas, DateZone, Overlap
<1>3. Harmless(Ritual, Ground)
  BY DEF Harmless, Ritual, Ground, Of, Drawings, Shapes, Areas, Figures
<1> QED BY <1>1, <1>2, <1>3 DEF Harmless, Widgets

LEMMA MayBeCovered ==
  /\ \A S : Harmless(S, Scripts) /\ Harmless(S, Pointer)
  /\ Harmless(Widgets \cup Ground \cup Scripts, Window)
BY DEF Harmless, Widgets, Banner, Date, Ritual, Ground, Scripts, Window, Pointer, Of, MayCover

(* One more part on the canvas.                                            *)
LEMMA PartAdded ==
  ASSUME NEW S, NEW T, NEW p \in Pictures(S), NEW part \in {"boot", "widget", "baseline", "entered", "console", "pointer"},
         NEW U \in SUBSET Areas, NEW q \in Legibles(U), Harmless(S, Of(part, U)), S \cup Of(part, U) \subseteq T
  PROVE  p \o By(part, q) \in Pictures(T)
<1>1. q \in Seq(U) /\ Legible(q)
  BY DEF Legibles
<1>2. By(part, q) \in Pictures(Of(part, U))
  BY <1>1, PartDrawn
<1>3. p \o By(part, q) \in Pictures(S \cup Of(part, U))
  BY <1>2, BothClean
<1> QED BY <1>3, CleanOver

(* The line at the foot, on a screen that is high enough.                  *)
LEMMA LineBelow ==
  ASSUME scene \in Scenes, scene.h >= 121
  PROVE  Line(0, 440, 800, 455) \in Seq(Shapes \cap Down(120))
<1> DEFINE x0 == 0  y0 == 440  x1 == 800  y1 == 455
<1>1. x0 \in Nat /\ y0 \in Nat /\ x1 \in Nat /\ y1 \in Nat /\ y0 >= 120
  OBVIOUS
<1> HIDE DEF x0, y0, x1, y1
<1>2. Line(x0, y0, x1, y1) \in Seq(Shapes \cap Down(120))
  BY <1>1, LineDrawn
<1> QED BY <1>2 DEF x0, y0, x1, y1

(* How far the frame has come says which drawings the buffer can hold.     *)
LegibleInv ==
  Roomy =>
    /\ Clean(shown.drawn)
    /\ stage = <<"widgets", 1>> => canvas.drawn \in Pictures({})
    /\ stage = <<"widgets", 2>> => canvas.drawn \in Pictures(Banner)
    /\ stage = <<"widgets", 3>> => canvas.drawn \in Pictures(Banner \cup Date)
    /\ stage[1] = "baseline" => canvas.drawn \in Pictures(Widgets)
    /\ stage[1] = "drain" => canvas.drawn \in Pictures(Widgets \cup Ground \cup Scripts)
    /\ stage[1] = "console" => canvas.drawn \in Pictures(Widgets \cup Ground \cup Scripts)
    /\ stage[1] = "pointer" => canvas.drawn \in Pictures(Drawings)
    /\ stage[1] = "swap" => canvas.drawn \in Pictures(Drawings)

LEMMA BlankClean == \A S : << >> \in Pictures(S)
BY DEF Pictures, Clean

(* The screen and what the console holds do not change.                    *)
LEMMA SceneKept ==
  ASSUME [SceneNext]_sceneVars
  PROVE  scene' = scene
<1>1. CASE CreateWidget
  BY <1>1 DEF CreateWidget
<1>4. CASE BootScript
  BY <1>4 DEF BootScript
<1>5. CASE widget_draw_all
  BY <1>5 DEF widget_draw_all
<1>6. CASE ScriptCall \/ Tick \/ UNCHANGED sceneVars
  BY <1>6 DEF ScriptCall, Tick, sceneVars
<1>2. ASSUME NEW s, Stage(s) PROVE scene' = scene
  BY <1>2 DEF Stage
<1>3. CASE Load \/ Clear \/ Baseline \/ Drain \/ ConsoleDraw \/ CursorDraw \/ Swap \/ Halt
  BY <1>2, <1>3 DEF Load, Clear, Baseline, Drain, ConsoleDraw, CursorDraw, Swap, Halt
<1> QED BY <1>1, <1>3, <1>4, <1>5, <1>6 DEF SceneNext

LEMMA LegibleStep == SceneTypeOK /\ LegibleInv /\ [SceneNext]_sceneVars => LegibleInv'
<1> SUFFICES ASSUME SceneTypeOK, LegibleInv, [SceneNext]_sceneVars, Roomy'
             PROVE  LegibleInv'
  BY DEF LegibleInv
<1>1. IsCanvas(canvas) /\ scene \in Scenes /\ ticks \in Nat /\ tick \in Nat
  BY DEF SceneTypeOK
<1>2. scene' = scene /\ Roomy
  <2>1. scene' = scene
    BY SceneKept
  <2> QED BY <2>1 DEF Roomy
<1>3. /\ Banner \subseteq Drawings /\ Date \subseteq Drawings /\ Ritual \subseteq Drawings /\ Widgets \subseteq Drawings
      /\ Ground \subseteq Drawings /\ Scripts \subseteq Drawings /\ Window \subseteq Drawings /\ Pointer \subseteq Drawings
      /\ Shapes \subseteq Areas /\ Up(40) \subseteq Areas /\ DateZone \subseteq Areas /\ Figures \subseteq Areas
      /\ Shapes \cap Down(120) \subseteq Areas
  BY DEF Banner, Date, Ritual, Widgets, Ground, Scripts, Window, Pointer, Of, Shapes, Up, DateZone, Down, Left, Figures
<1>4. ASSUME shown' = shown \/ Clean(shown'.drawn) PROVE Clean(shown'.drawn)
  BY <1>2, <1>4 DEF LegibleInv
<1>6. ASSUME stage'[1] \notin {"widgets", "baseline", "drain", "console", "pointer", "swap"}, Clean(shown'.drawn)
      PROVE  LegibleInv'
  BY <1>6 DEF LegibleInv, Clean
<1>7. CASE CreateWidget \/ BootScript
  BY <1>4, <1>6, <1>7 DEF CreateWidget, BootScript
<1>8. CASE Load
  BY <1>4, <1>6, <1>8, BehindIs DEF Load, Stage
<1>9. CASE Clear
  <2>1. shown' = shown /\ canvas'.drawn = << >> /\ stage' = <<"widgets", 1>>
    BY <1>9, BehindIs DEF Clear, Stage, Blank
  <2> QED BY <1>4, <2>1, BlankClean DEF LegibleInv
<1>10. CASE widget_draw_all
  <2>1. PICK k \in 1 .. 3 :
          /\ stage = <<"widgets", k>> /\ canvas'.drawn = canvas.drawn \o By("widget", DrawnWidget(Wanted[k]))
          /\ \/ stage' = <<"widgets", k + 1>> /\ k + 1 <= Len(widget_pool) /\ k + 1 \in 1 .. 3
             \/ stage' = <<"baseline", 1>>
    BY <1>10, WidgetTurn, Zenon
  <2>2. shown' = shown
    BY <1>10 DEF widget_draw_all
  <2>3. /\ Banner \subseteq Widgets /\ Banner \cup Date \subseteq Widgets /\ Banner \cup Date \cup Ritual \subseteq Widgets
    BY DEF Widgets
  <2>4. CASE k = 1
    <3>1. DrawnWidget(Wanted[1]) \in Legibles(Up(40)) /\ canvas.drawn \in Pictures({})
      BY <1>1, <1>2, <2>1, <2>4, BannerDrawn DEF LegibleInv
    <3>2. Harmless({}, Banner)
      BY DEF Harmless
    <3>3. canvas'.drawn \in Pictures(Banner)
      BY <1>3, <2>1, <2>4, <3>1, <3>2, PartAdded DEF Banner
    <3>4. canvas'.drawn \in Pictures(Widgets)
      BY <2>3, <3>3, CleanOver
    <3>5. stage' = <<"widgets", 2>> \/ stage' = <<"baseline", 1>>
      BY <2>1, <2>4
    <3> QED BY <1>4, <2>2, <3>3, <3>4, <3>5 DEF LegibleInv
  <2>5. CASE k = 2
    <3>1. DrawnWidget(Wanted[2]) \in Legibles(DateZone) /\ canvas.drawn \in Pictures(Banner)
      BY <1>1, <1>2, <2>1, <2>5, DateDrawn DEF LegibleInv, DateZone
    <3>2. Harmless(Banner, Date)
      BY WidgetsApart
    <3>3. canvas'.drawn \in Pictures(Banner \cup Date)
      BY <1>3, <2>1, <2>5, <3>1, <3>2, PartAdded DEF Date
    <3>4. canvas'.drawn \in Pictures(Widgets)
      BY <2>3, <3>3, CleanOver
    <3>5. stage' = <<"widgets", 3>> \/ stage' = <<"baseline", 1>>
      BY <2>1, <2>5
    <3> QED BY <1>4, <2>2, <3>3, <3>4, <3>5 DEF LegibleInv
  <2>6. CASE k = 3
    <3>1. DrawnWidget(Wanted[3]) \in Legibles(Figures) /\ canvas.drawn \in Pictures(Banner \cup Date)
      BY <1>1, <1>2, <2>1, <2>6, FiguresDrawn DEF LegibleInv
    <3>2. Harmless(Banner \cup Date, Ritual)
      BY WidgetsApart
    <3>3. canvas'.drawn \in Pictures(Widgets)
      BY <1>3, <2>1, <2>3, <2>6, <3>1, <3>2, PartAdded DEF Ritual
    <3>4. stage' = <<"baseline", 1>>
      BY <2>1, <2>6
    <3> QED BY <1>4, <2>2, <3>3, <3>4 DEF LegibleInv
  <2> QED BY <2>4, <2>5, <2>6
<1>11. CASE Baseline
  <2>1. shown' = shown /\ stage[1] = "baseline" /\ stage' = <<"drain", 1>>
    BY <1>11, BehindIs DEF Baseline, Stage
  <2> DEFINE q == Line(0, 440, 800, 455)  U == Shapes \cap Down(120)
  <2>2. q \in Seq(U)
    <3>1. scene.h >= 121
      BY <1>2 DEF Roomy
    <3> QED BY <1>1, <3>1, LineBelow
  <2>3. q \in Legibles(U)
    <3>1. Legibles(U) = Seq(U)
      BY ShapesLegible
    <3> QED BY <2>2, <3>1
  <2>4. canvas'.drawn = canvas.drawn \o By("baseline", q)
    BY <1>11, BaselineAdds
  <2>5. canvas.drawn \in Pictures(Widgets)
    BY <1>2, <2>1 DEF LegibleInv
  <2>6. Harmless(Widgets, Of("baseline", U)) /\ Widgets \cup Of("baseline", U) \subseteq Widgets \cup Ground \cup Scripts
    BY GroundApart DEF Ground
  <2> DEFINE T == Widgets \cup Ground \cup Scripts
  <2> HIDE DEF q, T
  <2>7. U \subseteq Areas
    BY <1>3
  <2> HIDE DEF U
  <2>8. canvas'.drawn \in Pictures(T)
    BY <2>3, <2>4, <2>5, <2>6, <2>7, PartAdded DEF T
  <2> QED BY <1>4, <2>1, <2>8 DEF LegibleInv, T
<1>12. CASE Drain
  <2>1. shown' = shown /\ canvas' = canvas /\ stage[1] = "drain" /\ stage' = <<"console", 1>>
    BY <1>12, BehindIs DEF Drain, Stage
  <2>2. canvas'.drawn \in Pictures(Widgets \cup Ground \cup Scripts)
    BY <1>2, <2>1 DEF LegibleInv
  <2> QED BY <1>4, <2>1, <2>2 DEF LegibleInv
<1>18. CASE ScriptCall
  <2>1. shown' = shown /\ stage[1] = "drain" /\ stage'[1] = "drain"
    BY <1>18 DEF ScriptCall
  <2> DEFINE q == Rect(8, 40, 20, 20)
             B == Widgets \cup Ground \cup Scripts
  <2>2. canvas.drawn \in Pictures(B)
    BY <1>2, <2>1 DEF LegibleInv
  <2>3. canvas'.drawn \in Pictures(B)
    <3>1. canvas' = Blank \/ canvas'.drawn = canvas.drawn \o By("entered", q)
      BY <1>1, <1>18, CallDraws
    <3>2. q \in Legibles(Shapes)
      <4>1. q \in Seq(Shapes \cap Down(40))
        BY <1>1, BoxLegible
      <4>2. q \in Seq(Shapes)
        BY <4>1
      <4>3. Legibles(Shapes) = Seq(Shapes)
        BY ShapesLegible
      <4> QED BY <4>2, <4>3
    <3>3. Harmless(B, Of("entered", Shapes)) /\ B \cup Of("entered", Shapes) \subseteq B
      BY MayBeCovered DEF Scripts
    <3> HIDE DEF q, B
    <3>4. canvas'.drawn = canvas.drawn \o By("entered", q) => canvas'.drawn \in Pictures(B)
      BY <1>3, <2>2, <3>2, <3>3, PartAdded
    <3>5. canvas' = Blank => canvas'.drawn \in Pictures(B)
      BY BlankClean DEF Blank
    <3> QED BY <3>1, <3>4, <3>5
  <2> QED BY <1>4, <2>1, <2>3 DEF LegibleInv
<1>13. CASE ConsoleDraw
  <2>1. shown' = shown /\ stage[1] = "console" /\ stage' = <<"pointer", 1>>
    BY <1>13, BehindIs DEF ConsoleDraw, Stage
  <2>2. canvas'.drawn = canvas.drawn \o By("console", console_draw)
    BY <1>13, ConsoleAdds
  <2>3. console_draw \in Legibles(Areas)
    BY <1>1, <1>2, ConsoleDrawn DEF Legibles
  <2> DEFINE B == Widgets \cup Ground \cup Scripts
  <2>4. canvas.drawn \in Pictures(B)
    BY <1>2, <2>1 DEF LegibleInv
  <2>5. Harmless(B, Window) /\ B \cup Window \subseteq Drawings
    BY <1>3, MayBeCovered
  <2> HIDE DEF B
  <2>6. canvas'.drawn \in Pictures(Drawings)
    BY <2>2, <2>3, <2>4, <2>5, PartAdded DEF Window
  <2> QED BY <1>4, <2>1, <2>6 DEF LegibleInv
<1>14. CASE CursorDraw
  <2>1. shown' = shown /\ stage[1] = "pointer" /\ stage' = <<"swap", 1>>
    BY <1>14, BehindIs DEF CursorDraw, Stage
  <2>2. canvas'.drawn = canvas.drawn \o By("pointer", mouse_draw_cursor)
    BY <1>14, PointerAdds
  <2>3. mouse_draw_cursor \in Legibles(Areas)
    <3>1. scene.pointer[1] \in Nat /\ scene.pointer[2] \in Nat /\ 10 \in Nat /\ 14 \in Nat
      BY <1>1, SceneIs, Zenon
    <3> DEFINE m == scene.pointer[1]  n == scene.pointer[2]
    <3>2. mouse_draw_cursor \in Legibles(Shapes \cap Down(n) \cap Up(n + 14))
      BY <1>1, <3>1, BoxLegible, Zenon DEF mouse_draw_cursor
    <3>3. Shapes \cap Down(n) \cap Up(n + 14) \subseteq Areas
      BY <1>3
    <3> QED BY <3>2, <3>3, LegibleOver
  <2>4. canvas.drawn \in Pictures(Drawings)
    BY <1>2, <2>1 DEF LegibleInv
  <2>5. Harmless(Drawings, Pointer) /\ Drawings \cup Pointer \subseteq Drawings
    BY <1>3, MayBeCovered
  <2>6. canvas'.drawn \in Pictures(Drawings)
    BY <2>2, <2>3, <2>4, <2>5, PartAdded DEF Pointer
  <2> QED BY <1>4, <2>1, <2>6 DEF LegibleInv
<1>15. CASE Swap
  <2>1. shown' = canvas /\ stage[1] = "swap" /\ stage' = <<"halt", 1>>
    BY <1>15, BehindIs DEF Swap, Stage
  <2>2. Clean(shown'.drawn)
    BY <1>2, <2>1 DEF LegibleInv, Pictures
  <2> QED BY <1>6, <2>1, <2>2
<1>16. CASE Halt
  BY <1>4, <1>6, <1>16, BehindIs DEF Halt, Stage
<1>17. CASE Tick \/ UNCHANGED sceneVars
  <2>1. shown' = shown /\ canvas' = canvas /\ stage' = stage
    BY <1>17 DEF Tick, sceneVars
  <2> QED BY <1>2, <2>1 DEF LegibleInv
<1> QED BY <1>7, <1>8, <1>9, <1>10, <1>11, <1>12, <1>13, <1>14, <1>15, <1>16, <1>17, <1>18 DEF SceneNext

LEMMA LegibleInit == SceneInit => LegibleInv
<1> SUFFICES ASSUME SceneInit PROVE LegibleInv
  OBVIOUS
<1>1. shown.drawn = << >> /\ stage = <<"create", 1>>
  BY DEF SceneInit, Blank
<1>2. Clean(shown.drawn)
  BY <1>1 DEF Clean
<1> QED BY <1>1, <1>2 DEF LegibleInv

(* Nothing that is drawn later covers a text, but what is meant to: on     *)
(* every screen of at least 648 by 121, whatever day it is, whatever has   *)
(* been printed and typed (console.c:94-128, widget.c:54-86,               *)
(* kernel.c:21-42).                                                        *)
THEOREM ReadableAlways == SceneSpec => []Readable
<1>1. LegibleInv => Readable
  BY DEF LegibleInv, Roomy, Readable, Clean
<1> QED BY SceneTypeInit, SceneTypeStep, LegibleInit, LegibleStep, <1>1, PTL DEF SceneSpec
=============================================================================
