------------------------------- MODULE Scene -------------------------------
(***************************************************************************)
(* A frame of the main loop (kernel/kernel.c) as a picture: the widgets    *)
(* (graphics/widget.c, ritual_geo.c), the calendar (drivers/pit.c), the    *)
(* console window (graphics/console.c), the pointer, and what scripts      *)
(* draw, in the order in which they cover each other, while the timer goes *)
(* on.  A primitive is the part of the screen it may write; its pixels are *)
(* the business of module Vbe, the console's contents of module Repl.      *)
(***************************************************************************)
EXTENDS Pit, FiniteSets, Sequences, SequencesExt

CONSTANTS
  UINT,            \* a uint32_t holds 0 .. UINT - 1 (2^32)
  DAY_TICKS,       \* ticks of a day (100)
  MAX_WIDGETS,     \* room in the pool (16)
  Scenes,          \* screens (w, h), what the console holds (visible, rows, prompt), the
                   \* pointer, and bounds (until: ticks; scripts: whether any are entered)
  MaxLag,          \* bound: ticks during a frame
  MaxCalls         \* bound: what scripts entered during a frame call

(* Lines and prompt end where the console cuts them (console.h:7-9); the   *)
(* scenes end before the counter of 64 bits wraps.                         *)
ASSUME SceneAssumption ==
  /\ UINT \in Nat /\ UINT >= 1024 /\ DAY_TICKS \in Nat \ {0} /\ MAX_WIDGETS \in Nat \ {0}
  /\ Scenes \subseteq [w : 1 .. UINT - 1, h : 1 .. UINT - 1, visible : BOOLEAN,
                      rows : {r \in Seq(0 .. 63) : Len(r) <= 5}, prompt : 0 .. 127,
                      pointer : (0 .. UINT - 1) \X (0 .. UINT - 1), until : 0 .. TICKS - 1, scripts : BOOLEAN]

VARIABLES
  scene,
  widget_pool,     \* the widgets that have been created
  stage,           \* where kernel_main is
  tick,            \* its local, loaded at the head of the loop
  canvas,          \* the back buffer: what has been drawn since it was cleared, and the date
  shown,           \* what the screen shows
  entered,         \* history: what scripts entered since the last frame was shown have called
  below            \* history: what the loop had drawn when it turned to the keyboard

sceneVars == <<ticks, scene, widget_pool, stage, tick, canvas, shown, entered, below>>

Blank == [drawn |-> << >>, date |-> << >>]

-----------------------------------------------------------------------------
(* Where the primitives draw.                                              *)

Plus(a, b)  == (a + b) % UINT
Minus(a, b) == (a - b) % UINT

Area(kind, l, t, r, b) == [kind |-> kind, l |-> l, t |-> t, r |-> r, b |-> b]

End(from, size, limit) ==
  IF from + size > limit THEN limit ELSE from + size
Rect(x, y, w, h) ==
  IF x >= scene.w \/ y >= scene.h THEN << >>
  ELSE <<Area("shape", x, y, End(x, w, scene.w), End(y, h, scene.h))>>

Circle(cx, cy, r) == <<Area("shape", cx - r, cy - r, cx + r + 1, cy + r + 1)>>

Clip(v, size) == IF v < size THEN v ELSE size - 1
Line(x0, y0, x1, y1) ==
  <<Area("shape", Clip(x0, scene.w), Clip(y0, scene.h), Clip(x1, scene.w) + 1, Clip(y1, scene.h) + 1)>>

(* A string of n characters: rows of as many as fit, ten pixels apart, and *)
(* the first left empty where none does.                                   *)
Text(x, y, n) ==
  LET fit   == (scene.w - x) \div 8
      per   == IF fit = 0 THEN 1 ELSE fit
      first == IF fit = 0 THEN 1 ELSE 0
      rows  == (n + per - 1) \div per
      room  == ((scene.h - y + 9) \div 10) - first      \* for rows that begin on the screen
      row(k) == Area("text", x, y + 10 * (k - 1 + first),
                     x + 8 * (IF k * per <= n THEN per ELSE n % per), y + 10 * (k - 1 + first) + 8)
  IN IF x >= scene.w \/ y >= scene.h THEN << >>
     ELSE [k \in 1 .. (IF rows <= room THEN rows ELSE room) |-> row(k)]

-----------------------------------------------------------------------------
(* The calendar.  A day sign is its number; of its name the length counts. *)

DAY_SIGNS == <<20, 14, 13, 19, 15, 17, 13, 16, 11, 16, 17, 17, 12, 16, 16, 23, 16, 15, 16, 16>>

MutTotalDays(now) == (now \div DAY_TICKS) % 259
TotalDays(now) == (now \div DAY_TICKS) % 260
pit_get_tonal_time(now) ==
  [trecena_num |-> (TotalDays(now) % 13) + 1, veintena_sign |-> TotalDays(now) % 20]

-----------------------------------------------------------------------------
(* The widgets.                                                            *)

(* The three calls of kernel_main, each with its widget_set_style.         *)
Widget(x, y, w, h, bordered, background, draw) ==
  [x |-> x, y |-> y, w |-> w, h |-> h, bordered |-> bordered, background |-> background, draw |-> draw]
Wanted ==
  << Widget(0, 0, scene.w, 40, FALSE, TRUE, "banner"),
     Widget(16, 60, 340, 90, TRUE, TRUE, "tonalpohualli"),
     Widget(16, 100, Minus(scene.w, 32), 280, FALSE, FALSE, "ritual_geo") >>

widget_create(w) ==
  widget_pool' = IF Len(widget_pool) < MAX_WIDGETS THEN Append(widget_pool, w) ELSE widget_pool

draw_step_pyramid(cx, cy, base, steps) ==
  LET span == base \div (steps + 1)
      width(i) == IF base > i * span THEN base - i * span ELSE 0
      left(w) == IF cx >= w \div 2 THEN cx - (w \div 2) ELSE 0
      step(i) == IF cy < (i + 1) * 14 THEN << >>
                 ELSE Rect(left(width(i)), cy - (i + 1) * 14, width(i), 14)
      top == steps * 14 + 20
  IN FlattenSeq([k \in 1 .. steps |-> step(k - 1)])
     \o IF cy >= top THEN Rect(left(32), cy - top, 32, 20) ELSE << >>

draw_feathered_serpent(x, y, length, now) ==
  LET wave(i) == IF (i + (now \div 5)) % 8 < 4 THEN 4 ELSE -4
      height(i) == IF wave(i) < 0 /\ 4 > y THEN 0 ELSE Plus(y, wave(i))
  IN FlattenSeq([k \in 1 .. length |-> Rect(Plus(x, (k - 1) * 12), height(k - 1), 10, 10)])

draw_sun_disk(cx, cy, radius) ==
  Circle(cx, cy, radius)
  \o (IF radius > 6 THEN Circle(cx, cy, radius - 6) ELSE << >>)
  \o (IF radius > 12 THEN Circle(cx, cy, radius \div 2) ELSE << >>)
  \o Circle(cx, cy, radius)

draw_banner_widget(w) == Text(w.x + 16, w.y + 12, 68)   \* the title kernel_main gives it
draw_tonalpohualli_widget(w, tonal) ==
  Text(w.x + 12, w.y + 10, 33)
  \o Text(w.x + 12, w.y + 32, 15) \o Text(w.x + 144, w.y + 32, 2)
  \o Text(w.x + 12, w.y + 52, 9) \o Text(w.x + 88, w.y + 52, DAY_SIGNS[tonal.veintena_sign + 1])
draw_ritual_geo_widget(w) ==
  LET cx == Plus(w.x, w.w \div 2)
  IN draw_step_pyramid(cx, w.y + 190, 240, 6)
     \o draw_sun_disk(cx, w.y + 20, 36)
     \o draw_feathered_serpent(w.x + 40, w.y + 230, 16, tick)

(* A turn of widget_draw_all.                                              *)
DrawnWidget(w) ==
  (IF w.background THEN Rect(w.x, w.y, w.w, w.h) ELSE << >>)
  \o (IF w.bordered
      THEN Rect(w.x, w.y, w.w, 2) \o Rect(w.x, Minus(w.y + w.h, 2), w.w, 2)
           \o Rect(w.x, w.y, 2, w.h) \o Rect(Minus(w.x + w.w, 2), w.y, 2, w.h)
      ELSE << >>)
  \o CASE w.draw = "banner"        -> draw_banner_widget(w)
       [] w.draw = "tonalpohualli" -> draw_tonalpohualli_widget(w, pit_get_tonal_time(ticks))
       [] w.draw = "ritual_geo"    -> draw_ritual_geo_widget(w)

(* The date as it is put on the screen, two digits and a sign.             *)
DateOf(w) ==
  LET t == pit_get_tonal_time(ticks)
  IN IF w.draw # "tonalpohualli" THEN canvas.date
     ELSE <<(t.trecena_num \div 10) % 10, t.trecena_num % 10, t.veintena_sign>>

-----------------------------------------------------------------------------
(* The console window and the pointer.                                     *)

MutWinH == 90          \* no room for the last row
WinH == 114
console_draw ==
  LET win_w == IF scene.w > 40 THEN scene.w - 32 ELSE scene.w
      win_y == IF scene.h > WinH + 10 THEN scene.h - WinH - 10 ELSE 0
      prompt_y == win_y + WinH - 18
      rows == [i \in 1 .. Len(scene.rows) |-> Text(24, win_y + 24 + ((i - 1) * 12), scene.rows[i])]
      x == 40 + scene.prompt * 8
  IN IF ~scene.visible THEN << >>
     ELSE Rect(16, win_y, win_w, WinH)
          \o Rect(18, win_y + 2, Minus(win_w, 4), WinH - 4)
          \o Rect(18, win_y + 2, Minus(win_w, 4), 18)
          \o Text(24, win_y + 6, 38)
          \o FlattenSeq(rows)
          \o Text(24, prompt_y, 2) \o Text(40, prompt_y, scene.prompt)
          \o IF (ticks \div 25) % 2 = 0 /\ x < scene.w
             THEN <<Area("text", x, prompt_y, x + 8, prompt_y + 8)>> ELSE << >>

mouse_draw_cursor == Rect(scene.pointer[1], scene.pointer[2], 10, 14)

-----------------------------------------------------------------------------
(* kernel_main.                                                            *)

SceneInit ==
  /\ PitInit
  /\ scene \in Scenes
  /\ widget_pool = << >>
  /\ stage = <<"create", 1>>
  /\ tick = 0
  /\ canvas = Blank /\ shown = Blank
  /\ entered = << >> /\ below = Blank

By(part, areas) == [i \in DOMAIN areas |-> [part |-> part, area |-> areas[i]]]
Draw(part, areas) == canvas' = [canvas EXCEPT !.drawn = @ \o By(part, areas)]

CreateWidget ==
  /\ stage[1] = "create"
  /\ widget_create(Wanted[stage[2]])
  /\ stage' = IF stage[2] < Len(Wanted) THEN <<"create", stage[2] + 1>> ELSE <<"script", 0>>
  /\ UNCHANGED <<ticks, scene, tick, canvas, shown, entered, below>>

(* The script kernel_main runs before its loop.                            *)
BootScript ==
  /\ stage[1] = "script"
  /\ Draw("boot", Line(0, 480, 800, 580) \o Rect(700, 50, 80, 60))
  /\ stage' = <<"load", 0>>
  /\ UNCHANGED <<ticks, scene, widget_pool, tick, shown, entered, below>>

(* The order of the loop.                                                  *)
MutOrder == <<"load", "widgets", "baseline", "drain", "clear", "console", "pointer", "swap", "halt">>
Order == <<"load", "clear", "widgets", "baseline", "drain", "console", "pointer", "swap", "halt">>
Behind(s) == LET k == CHOOSE k \in DOMAIN Order : Order[k] = s
             IN IF k = Len(Order) THEN <<"load", 0>> ELSE <<Order[k + 1], 1>>

Stage(s) == stage[1] = s /\ stage' = Behind(s) /\ UNCHANGED <<ticks, scene, widget_pool>>

Load ==
  /\ Stage("load")
  /\ tick' = ticks
  /\ UNCHANGED <<canvas, shown, entered, below>>

Clear ==
  /\ Stage("clear")
  /\ canvas' = Blank
  /\ UNCHANGED <<tick, shown, entered, below>>

widget_draw_all ==
  /\ stage[1] = "widgets"
  /\ LET w == widget_pool[stage[2]]
     IN canvas' = [drawn |-> canvas.drawn \o By("widget", DrawnWidget(w)), date |-> DateOf(w)]
  /\ stage' = IF stage[2] < Len(widget_pool) THEN <<"widgets", stage[2] + 1>> ELSE Behind("widgets")
  /\ UNCHANGED <<ticks, scene, widget_pool, tick, shown, entered, below>>

Baseline ==
  /\ Stage("baseline")
  /\ Draw("baseline", Line(0, 440, 800, 455))
  /\ below' = canvas'
  /\ UNCHANGED <<tick, shown, entered>>

(* Lines entered at the console are evaluated while the ring is drained.   *)
(* They call, in any order, what draws and what clears the buffer.         *)
ScriptCall ==
  /\ stage[1] = "drain" /\ scene.scripts /\ Len(entered) < MaxCalls
  /\ \/ /\ Draw("entered", Rect(8, 40, 20, 20))
        /\ entered' = Append(entered, "draw")
     \/ /\ canvas' = Blank
        /\ entered' = Append(entered, "clear")
  /\ UNCHANGED <<ticks, scene, widget_pool, stage, tick, shown, below>>

Drain == Stage("drain") /\ UNCHANGED <<tick, canvas, shown, entered, below>>

ConsoleDraw ==
  /\ Stage("console")
  /\ Draw("console", console_draw)
  /\ UNCHANGED <<tick, shown, entered, below>>

CursorDraw ==
  /\ Stage("pointer")
  /\ Draw("pointer", mouse_draw_cursor)
  /\ UNCHANGED <<tick, shown, entered, below>>

Swap ==
  /\ Stage("swap")
  /\ shown' = canvas
  /\ entered' = << >> /\ below' = Blank
  /\ UNCHANGED <<tick, canvas>>

Halt == Stage("halt") /\ UNCHANGED <<tick, canvas, shown, entered, below>>

(* IRQ0, once interrupts are on.                                           *)
Tick ==
  /\ stage[1] \notin {"create", "load"}
  /\ ticks < scene.until /\ ticks < tick + MaxLag
  /\ pit_handler
  /\ UNCHANGED <<scene, widget_pool, stage, tick, canvas, shown, entered, below>>

SceneNext ==
  \/ CreateWidget \/ BootScript
  \/ Load \/ Clear \/ widget_draw_all \/ Baseline \/ ScriptCall \/ Drain
  \/ ConsoleDraw \/ CursorDraw \/ Swap \/ Halt
  \/ Tick

SceneSpec == SceneInit /\ [][SceneNext]_sceneVars

-----------------------------------------------------------------------------
(* Properties.                                                             *)

(* On a screen at least 648 pixels wide and 121 high nothing that is drawn *)
(* later covers a text, whatever day it is and however much has been       *)
(* printed and typed: no other text, no widget, not the sun, nor the line  *)
(* at the foot, which moves up with it.  What may is the console's window, *)
(* over the widgets, what scripts draw, and the pointer (console.c:94-128, *)
(* widget.c:54-86, kernel.c:21-42).                                        *)
Overlap(a, b) == a.l < b.r /\ b.l < a.r /\ a.t < b.b /\ b.t < a.b
MayCover(part, under) ==
  part \in {"entered", "pointer"} \/ (part = "console" /\ under # "console")
Readable ==
  scene.w >= 648 /\ scene.h >= 121 =>
    \A j \in DOMAIN shown.drawn : \A i \in 1 .. j - 1 :
      /\ shown.drawn[i].area.kind = "text"
      /\ ~MayCover(shown.drawn[j].part, shown.drawn[i].part)
      => ~Overlap(shown.drawn[i].area, shown.drawn[j].area)

(* The date on the screen is that of a tick between the head of the loop   *)
(* and the swap: the widget reads it anew (kernel.c:27-28).  Number and    *)
(* sign run on, 1 to 13 and through the twenty signs, where the count of   *)
(* 260 days starts again (pit.c:37-49, kernel.c:16-19, 26-35).             *)
DateShown ==
  [][Swap /\ shown'.date # << >> =>
       \E t \in tick .. ticks :
         LET day == t \div DAY_TICKS
         IN /\ 10 * shown'.date[1] + shown'.date[2] = (day % 13) + 1
            /\ shown'.date[3] = day % 20]_sceneVars

(* What scripts entered at the console draw is on the screen with the next *)
(* frame, each drawing once, but for those that a script has cleared       *)
(* since; and below it is all that the loop has drawn, in its order and    *)
(* with its date, or none of it where a script has cleared that: no        *)
(* drawing of a script is lost to the loop's own clear, and none takes the *)
(* loop's with it (kernel.c:95-127, builtins.c:93).                        *)
DrawingsOf(part, pic) == Cardinality({i \in DOMAIN pic.drawn : pic.drawn[i].part = part})
Kept(calls)  == {k \in DOMAIN calls : \A l \in k .. Len(calls) : calls[l] = "draw"}
Wiped(calls) == \E k \in DOMAIN calls : calls[k] = "clear"
EnteredShown ==
  [][Swap =>
       /\ DrawingsOf("entered", shown') = Cardinality(Kept(entered))
       /\ ~Wiped(entered) => /\ DrawingsOf("entered", below) = 0
                             /\ IsPrefix(below.drawn, shown'.drawn)
                             /\ shown'.date = below.date
       /\ Wiped(entered) => /\ \A part \in {"widget", "baseline"} : DrawingsOf(part, shown') = 0
                            /\ shown'.date = << >>]_sceneVars

(* "Pass SerpentC script strings [...] in `kernel_main` and confirm        *)
(* graphics render dynamically on screen" (PHASE_2_PLAN.md:72).            *)
ScriptShown ==
  [][Swap /\ shown = Blank => DrawingsOf("boot", shown') > 0]_sceneVars
=============================================================================
