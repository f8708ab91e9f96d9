# QuetzalOS in TLA+

TLA+ models of QuetzalOS: the boot with its page tables, memory map and video
mode, the interrupt-driven input path, the page allocator, the SerpentC
interpreter behind its console, the drawing primitives and the frame composed
from them, the serial log and the text screen. TLC checks them on small
instances; TLAPS proves the most important results for every
value of the constants.

All paths below are relative to the repository root; `PROJECT.json` maps each
definition to the lines it models.

## 1. The system

QuetzalOS is a single-core, ring-0, single-address-space kernel. `boot.asm`
enters long mode and calls `kernel_main`, which initialises every subsystem with
interrupts off, executes `sti`, runs one script, and then repeats a frame:
clear, widgets, base line, drain the keyboard ring, console, cursor, swap,
`hlt`. Three interrupts run beside it: timer (vector 32), keyboard (33) and
mouse (44), each behind an interrupt gate, so a handler is never interrupted
itself, but the main loop can be interrupted between any two instructions.

| Component | State | Operations | Used by |
|---|---|---|---|
| Keyboard driver `kernel/drivers/ps2_keyboard.c` | ring, head, tail, prefix flag, shift flag | `keyboard_handler` (IRQ1), `keyboard_has_char`, `keyboard_getchar` | main loop |
| Mouse driver `kernel/drivers/ps2_mouse.c` | position, buttons, packet bytes, cycle | `mouse_init` (polled), `mouse_handler` (IRQ12), `mouse_draw_cursor` | main loop |
| Controllers `kernel/arch/x86_64/idt.c`, `isr.asm` | PIC masks, requests, service; 8042 buffer and command byte | `pic_remap`, `idt_init`, the stubs | all handlers |
| Timer and calendar `kernel/drivers/pit.c` | tick counter | `pit_handler` (IRQ0), `pit_get_ticks`, `pit_get_tonal_time` | main loop, widgets, console, `tonal_now` |
| Main loop `kernel/kernel.c` | its position | `kernel_main` | |
| Boot code `boot/boot.asm` | page tables, control registers | `start`, `setup_paging` | loader |
| Page allocator `kernel/mm/phys.c` | bitmap, two counters | `phys_init`, `phys_alloc_page`, `phys_free_page` | nobody yet |
| SerpentC `kernel/serpentc/` | symbol table; lexer position, token, arguments during a call | `serpentc_eval`, `symbol_set`, `symbol_get`, `dispatch_builtin` | console, main loop |
| Console `kernel/graphics/console.c` | visibility, five history lines, line buffer | `console_handle_char`, `console_print`, `console_toggle`, `console_draw` | main loop, interpreter |
| Drawing `kernel/drivers/vbe.c` | mode, back buffer, screen | `vbe_init` with PCI probe and mode setting; pixel, rectangle, line, circle, disc, character, string, clear, swap | everything that draws |
| Widgets `kernel/graphics/widget.c` | pool of 16 | `widget_create`, `widget_set_style`, `widget_draw_all` | main loop |
| Ritual geometry `ritual_geo.c`, font `font8x8.c` | none | pyramid, serpent, sun; a table | widgets, scripts, strings |
| Serial log `kernel/arch/x86_64/serial.c` | the UART | `serial_init`, `kprintf` | boot, allocator |
| VGA text `kernel/drivers/vga_text.c` | text buffer, position | clear, put, scroll | boot |

Interactions. The keyboard ring and the mouse's three atomics are shared memory
between a handler and the main loop. Both devices share one output buffer of
the 8042 and thereby port 0x60. All three lines share the PIC's priorities. The
main loop calls the console with each character; the console calls the
interpreter; the interpreter calls the drawing primitives and, re-entering the
console, prints into its history. Nothing is persisted, there are no threads,
no allocation, and no message leaves the machine.

What is hard here, and what makes each part correct:

- *Input path*: interleaving of handlers with each load and store of the reader;
  the full ring; prefix and shift sequences; a byte stolen, doubled or late on
  the shared port; requests latched while interrupts are off; missing EOIs; the
  gap between the last look at the ring and `hlt`. Correct means: characters
  and movements arrive once, in order, and frames never stop.
- *Allocator*: irregular memory maps, rounding at both ends, overlapping
  reservations, misuse of `phys_free_page`. Correct means: the counter is
  never too small, and exact where no entries overlap, no page has two owners, reserved memory is never handed out.
- *Boot*: addresses in two halves, whatever mode and PCI bus the machine came up
  with. Correct means: memory is where it seems to be, the screen shows what is
  drawn, and the back buffer is nobody else's.
- *Interpreter and console*: arbitrary text, a table and buffers at their
  limits, output printed while a line is being evaluated. Correct means: a
  program does what it says, every evaluation ends, the line evaluated is the
  line typed, the history is the tail of what was printed.
- *Drawing*: 32-bit arithmetic with arguments a user types. Correct means:
  nothing is written off the screen, shapes are the shapes, every call returns.
- *Frame*: parts laid out independently on any screen, the timer going on while
  they are drawn, scripts in between. Correct means: nothing covers a text it
  should not, the date is one date, what a script draws is seen.
- *Log and text screen*: a transmitter that loses what it has no room for, a
  screen that scrolls. Correct means: all that was printed arrives, in order.

`PROJECT.json` lists each hazard at its line with the properties against it.

## 2. Modules

```
CharQueue   <= Keyboard ; KeyboardSystem -> Keyboard   (abstract queue, driver, environment)
Kernel      -> Keyboard, Mouse -> I8042 -> Pic, Pit
Boot        -> Phys
Environment <= Symbols ; SerpentCSystem -> SerpentC -> Lexer, Symbols
Repl        -> SerpentC, Console
VbeSystem   -> Vbe
Scene       -> Pit
Paper       <= Terminal ; MCDiag -> Terminal, Serial
LoopProofs                                             (lemmas about loops)
KeyboardProofs -> KeyboardSystem
KernelProofs   -> Kernel, KeyboardProofs
BootProofs     -> Boot, Serial, Terminal, LoopProofs
ProgramProofs  -> SerpentCSystem, SerpentCProofs -> SerpentC, LoopProofs
ReplProofs     -> Repl, SerpentCProofs
VbeProofs      -> VbeSystem, Scene, LoopProofs
```

(`->` extends, `<=` is implemented by.) Each `MC*.tla` only defines values for
constants (`MCDiag` also puts the two diagnostic outputs, which share nothing,
behind one specification); each `.cfg` only assigns them. Definitions named `Mut...` are faulty
variants of the definition behind them and belong to no specification.

**Keyboard** keeps the driver's five variables plus the reader's position and
locals (`rd`). `keyboard_handler(sc)` is one action (interrupt gate) with four
disjuncts for the prefix, an extended code, a shift key and a plain key. The
reader's loads and stores are separate actions `HasLoadHead` to `GetStore`,
because an interrupt fits between any two. The compiler could swap the two
relaxed loads of `keyboard_has_char`; only the reader writes the tail, so the
order makes no difference. **KeyboardSystem** adds the
person and the keyboard, which sends set-1 codes including the fake shifts
around arrow keys; each code carries the character meant. **CharQueue** is the
queue the ring promises; what the driver promises whoever uses it (`RingInv`,
`GetNeverEmpty`, the queue) stands in `Keyboard` and holds in both compositions.

**Pic**, **I8042**, **Mouse**, **Pit** and **Kernel** are the input path as a
whole. `Pic` and `I8042` are the external chips as the code uses them: masks
`0xF8`/`0xEF`, fixed priorities, service until EOI; one output buffer, a
request per byte loaded, command byte bits for interrupt and disable. `Mouse`
has `mouse_init` as eight exchanges and `mouse_handler` as one action.
`Kernel` composes them: the boot from `mouse_init` on, the main loop down to
each load of `mouse_draw_cursor`, and `Irq0`, `Irq1`, `Irq12` with reads of
port 0x60 and EOIs. The `default` case of `mouse_handler` is unreachable
(`mouse_cycle` stays in 0..2, part of the type invariant) and has no action.

**Phys** models `phys_init` an entry and a range at a time, the bitmap as the
set of marked pages, and the calls as one action each (no handler calls them).
`owned` is the clients' side: they release the pages they hold, and may also
release the 0 of a failed call, which the history variable `misused` records.
The properties of ownership hold until then, those of the counter always. **Boot**
is what leads there and beyond: the magic test, the two loops of `setup_paging`,
the control registers one by one, `phys_init` embedded step by step, the test of
the loader's frame buffer, and `vbe_init` with the PCI scan and, register by
register, the mode setting of an adapter that keeps its mode while it is on.
What the loader and the bus hold is arbitrary within the constants.

**Symbols** is the slot table, **Environment** the bounded map it implements.
**Lexer** is a function from a text and a position to the next token. In
**SerpentC** each turn of a loop of `serpentc_eval` is an action with all its
calls. **SerpentCSystem** gives it arbitrary texts, and programs of the grammar
of `docs/PHASE_2_PLAN.md` together with their meaning. **Console** and **Repl** are line
buffer and history with the interpreter running inside `console_handle_char`.

**Vbe** has each primitive; loops over spans are one step, the Bresenham loops
and the loop over a string one step per turn; 32-bit numbers are numbers modulo
`WORD`, with both casts, and sums of ints that overflow wrap as the built code
makes them. One expression has no single outcome there, the test
`2 * (err - x) + 1 > 0` of a circle whose radius is near the limit of an int, and is
nondeterministic (`Inward`). **VbeSystem** calls them with any arguments, in
sessions that each have a mode, the three numbers `vbe_init` stores.

**Scene** is one frame as a list of areas, in the order in which they cover each
other: the three widgets `kernel_main` creates, pyramid, sun and serpent, the
calendar, the base line, what scripts entered meanwhile draw or clear, the
console window, the pointer. A primitive is the box it may write (its pixels are
in `Vbe`), a text is as long as it is; sums and differences of coordinates wrap as
in the code; `IRQ0` may come between any two steps. Scripts are entered after the
base line, and each of their calls (`ScriptCall`) draws or clears the buffer. The
history variables `entered` and `below` keep these calls and what they found.

**Serial** has the seven writes of `serial_init`, each conversion of `kprintf`,
and the poll before each byte, with a UART that sends at its own pace. **Terminal** is the text buffer with its wrapping and
scrolling; `gone` keeps the rows that scrolled away, so that the roll of paper
(**Paper**) it implements can be read off.

## 3. Runs

| Run | What it asks | Bounds |
|---|---|---|
| `keyboard` | FIFO queue, drops only when full, decoding | ring of 3, one key, one arrow, one shift at a time, 2 codes waiting when a key event happens |
| `keyboard_two_shifts` | *violated*: shift state with both keys | same, 2 shifts |
| `boot` | paging the identity, the screen shows what is drawn, accounting, reservation, ownership, the back buffer | 10 pages of 4 bytes, 8 maps, 4 ranges as in the code, 9 loaders, 7 buses, tables of 2 entries of 8 bytes |
| `kernel` | everything acknowledged, in step, on screen (`KernelInv`); keys and movements conserved, back in step; boot ends, frames for ever, keys handled, cursor follows | four machines: prompt with and without a mouse, latching, slow; ring of 3, 2 keys or movements, screen 8x6, ticks modulo 2 |
| `kernel_noisy_boot` | *violated*: keys during `mouse_init` | a prompt machine |
| `serpentc` | programs do what they say, in a full table too; the table implements the map; every step of an evaluation comes nearer to its end | 2 statements, 4 in a full table; all texts up to 4 of 9 characters, and 5 that begin `k(` or `a=`; bytes for words, 3 slots |
| `repl` | line buffer, history | 9 keys, buffer of 4, 3 lines of 5 |
| `vbe` | shapes, clipping, wrapping, clear and swap, termination | 7-bit numbers; a 7x6 screen in rows of 8 and one call, circles that overflow too; 26x23 and a string up to 4; 2x3 and four calls |
| `vbe_odd` | *violated*: see section 6 | 3x3 |
| `scene` | texts stay readable, the date is the frame's, scripts are seen over what the loop drew | real sizes on 9 screens from 36x100 to 1280x1024, full and empty consoles, 2 ticks a day, 530 ticks on one screen, 60 and 6 on the others, 2 ticks and 2 calls of scripts a frame |
| `scene_script` | *violated*: the script of `kernel_main` | same |
| `diag` | the log arrives as printed; the text screen is a roll of paper | 2 calls of up to 2 items, FIFO of 2, 8-bit numbers; 6 characters on 2x2 |

Why the bounds are enough. A ring of 3 wraps, fills and drains within two
characters, and a reader that holds one character at each step meets up to two
pushes. Two movements, one that stops at an edge and one that comes back, tell a
clamped sum from a sum of clamps; and one packet out of step and one to recover
are what `BackInStep` needs. Ten pages hold each kind of region and each overlap the real layout
has. Programs of two statements show an assignment used by the next statement;
texts of four characters reach every pair of a state of the parser and a kind
of token. Nine keys fill the line, overflow it, erase, enter it, and push the
history over its end. On a 7x6 screen with 7-bit numbers every argument class
exists (inside, at the edge, outside, "negative", wrapping), and
a row is wider than the screen, so a write into the padding shows. Tables of two
entries make the machine's addresses run over all four directories and a word
that holds just all of them, as 32 bits hold 4 GB. 530 ticks are two calendars of
260 days. Two calls of scripts are a drawing kept, cleared, or made after a clear. Six characters fill a screen of four cells and scroll it, once by a
line feed and once by wrapping.

Deadlock is checked in every run; where the machine may rest (no key, nothing to
draw) the specification has a `Wait` step.

`Machines` lists what the input path may run on. A machine that latches keeps a
request when its byte is read before delivery (as QEMU emulates the controller),
otherwise the request disappears with its byte; on a slow one an answer may come
after a poll of `mouse_wait` gave up; on one without a mouse none comes. The
properties say on which of them they hold.

## 4. Fairness

`FairSpec` of Kernel: the processor always executes (`WF` of boot, main loop and
the timer's handler), the timer runs (`WF` of `Tick`), and `SF` of `Irq1`, `Irq12`
and of the controller's load. Strong fairness is needed because a tick may be
pending whenever a lower line is; it is justified because a tick lasts 10 ms
and a handler microseconds, so the line is the most urgent one again and again.
No fairness is assumed of the person. That drawing calls return needs only `WF`
of their own next step: nothing else runs them, and interrupts return. That
evaluations end needs none: `EvalAdvances` gives a number that every step
lowers, for every text.

## 5. Proofs

Proved by TLAPS, for all values of the constants that meet the named ASSUMEs.
These say what the code or the hardware fixes: the sizes are positive and the
tables total (`RingAssumption`, `ConsoleAssumption`, `MouseAssumption`, ...), no
key is released with the prefix code (`KeysAssumption`), the scripts are made of
names (`ReplAssumption`), words are `0 .. WORD - 1` (`ValuesAssumption`), programs are
statements of the grammar (`ProgramsAssumption`), the arguments of `kprintf` are what
its format asks for (`FormatsAssumption`), a movement fits its byte
(`KernelAssumption`), the loader has set the mode it describes and a device with
several functions says so (`BoardAssumption`), the console's lines end where it cuts
them and the 64-bit tick counter does not wrap (`SceneAssumption`). TLC evaluates
them in the runs. Eight theorems have a hypothesis of their own (`ShiftsHeld <= 1`,
`0 \in ReservedPages`, `~NoisyBoot`, `ScriptsFit`), given with them below.

**LoopProofs** is the way around induction over data, of which the installed provers
cannot use the library's theorems: a function that is defined by recursion over
numbers can be built step by step, so it exists and satisfies its equations
(`Recursion`), and what it hands from one number to the next holds of all (`HandedOn`,
from the least number where it would not). With it the folds and recursive
functions of the models (`FlattenInto`) can be reasoned about in the modules below.

**KeyboardProofs** begins with what the two compositions of the keyboard share: the ring
(`RingInv` is kept by the handler and by each load and store of the reader), its
reading as a queue, and *runs*, the same idea for the bytes on a wire.
`Runs(S, R, bytes, s, t)` says there is a sequence of states from `s` to `t` with each
byte a step of `R`. Runs join, split at the head, and grow at the end, each lemma
by construction of the sequence, so that an invariant may speak of all bytes that
are still to be delivered.

Its theorems: `TypingInvAlways`, `GetNeverEmptyAlways`, `ImplementsQueue`.
The type invariant is not inductive together with "getchar returns a
character", because between the reader's test and its use the handler runs.
`ReaderSound` adds what the reader loaded and may still rely on (a ring found
non-empty stays so, the tail it loaded is the tail, the character it copied is
still in its slot), `RingFilled` that slots between tail and head hold characters.
The refinement maps the queue to the slots from tail to head; the handler's push
is `Put` or a stutter, the store of the tail is `Get`. `DecodedAsTypedAlways` and
`DropOnlyWhenFullAlways` assume `ShiftsHeld <= 1`, as the run `keyboard` does; with two
`ShiftTracked` fails (finding 1). Their invariant `LineInv` is a run: the codes on
the line, decoded from the driver's flags as they are now, mean what was typed
with them and leave no prefix and the shift that is held. Each key event appends
a run from there to there.

**KernelProofs** comes in two halves.

- *On any machine, whatever the person does* (`SafeAlways`): every handler has
  acknowledged, pointer and drawn cursor are on the screen, getchar returns
  a character. `SafeInv` adds that a request has its byte unless it is latched, and
  that coordinates already loaded are on the screen. `KernelImplementsQueue`: with
  interrupts at any point of the whole loop the ring is the queue.
  `BackInStepAlways`: however far out of step the boot, a latched request or a late
  answer has put the driver, one report brings it back. It needs the second and third
  byte of every report to have bit 3 clear (`ClearMoves`, part of the property: the
  driver knows a first byte by that bit). Its invariant `BackInv` is about the bytes
  still to come: the answers left over from the boot are in front of all reports, the
  last two have bit 3 clear, and there are enough of them behind any stray request
  for the driver to be waiting for a first byte when none is left.
- *If nobody types while `mouse_init` polls* (`~NoisyBoot`). The hypothesis is the
  condition finding 2 is about: the byte of a key typed into the conversation is
  taken for an answer. `BootInv` is the conversation: at each exchange nothing is on
  its way but the answer awaited, and the command byte is the one the exchange
  before left (`Exchange`). It gives `AcksAreAcksAlways`, the property the run
  `kernel_noisy_boot` refutes without the hypothesis. Given that nothing is left
  over when interrupts are allowed, `KeysInv` says that what was typed is four
  strings behind each other, handled, held, in the ring, on its way, and each step
  moves an element from one to the next or joins one to the last
  (`KeysConservedAlways`); codes on their way alternate (`PlainCodes`), so the driver
  is never behind a prefix. `Follows` says that the bytes of the mouse, taken in step
  from the driver's state, are a run to the end of a packet and to where the person
  has brought the pointer; a report appends three bytes that clamp once
  (`PointerFollowsAlways`, and `InStep` within `KernelInvAlways`). Ring, keys, both tables,
  screen, movements, machines and the number of acts are arbitrary.

**BootProofs**, the allocator: `AccountInv` (types, progress of `phys_init`, a counter
never below the free pages, and exact for maps that list no page twice) is inductive; each step of parsing
credits and each reservation debits the cardinality of the pages it changes.
From it: `AccountingExactAlways`, and until a client releases the 0 of a failed
call `OwnedSafeAlways`, `NoSharingAlways`, and, when page 0 is among the
reserved ones (hypothesis `0 \in ReservedPages`), `ZeroMeansExhaustedAlways`.
`PhysInvAlways` states the types and that reserved pages stay marked.
`OwnedIsRamAlways` follows from `RamInv`: a page is free or owned only if a usable
entry cleared it. Page size, number of pages, maps and ranges are arbitrary.

**BootProofs**, the boot: `PagingIsIdentityAlways`, from the invariant that the tables
hold what `setup_paging` computed once it has run, and two lemmas: the two
halves of an entry add up to the address (`HugePageExact`) and the walk divides
it and puts it together again (`WalkExact`). `BootRunsPhys`: the boot implements
the allocator's specification, so every theorem about it holds in it;
with it `BackbufferReservedAlways`. `ShownAsDrawnAlways`: `ShownInv` follows the mode
through the boot, the loader's until it is taken over, or the default written
register by register while the adapter is off. Page and table sizes, word width,
maps, loaders and buses are arbitrary.

**SerpentCProofs**: `SymbolsInv` (types, no name in two slots, every name fits)
is inductive: `symbol_set` writes one slot, the name's own or a free one. Used
slots and defined names then correspond one to one, so a slot is free exactly
when fewer names than slots have a value (`FailsOnlyWhenFullAlways`), and each
successful `symbol_set` is an `Assign` of the map, each refused one a stutter
(`ImplementsMapAlways`). The interpreter keeps its types for any texts
(`EvalTypeAlways`), its steps are steps of the table (`SerpentCRunsSymbols`), and
each lowers `Remaining` (`EvalAdvancesAlways`): a token other than the end lies in
front of the next position (from the definition of `lexer_next`, case by case), and
where a step consumes nothing the stage drops.

**ProgramProofs**: `RunsAsWrittenAlways`, the interpreter against the meaning of
programs. The text of a program is its pieces one behind the other, built by a
recursion over the statements; a word that `Stands` in a text is read as its token
when no character follows that would go on with it, so what `lexer_next` reads at the
place of a statement are the tokens of that statement. `ProgInv` says where in the
program the interpreter is, between statements, in a call with so many arguments
read, or in an assignment, and that table, drawings and messages are by then what the
statements behind it mean; one turn of the interpreter's loops does what the next
statement or argument means. Once more than the table's slots are named the meaning
leaves open what follows (`HasRoom`), and the theorem with it. Programs, spacings,
names, built-ins, widths and table size are arbitrary.

**ReplProofs**: `ReplInv` is the types, the terminated buffer, the line as typed and
the history as the tail of what was printed; the three are inductive together,
since a line is entered from the buffer. `ConsoleInvAlways`, `LineAsTypedAlways` and
`HistoryIsTailAlways` follow, `ReplRunsSerpentC` and with it `ReplEvaluationsEnd`.
Buffer, history and line sizes, keys and the script of the boot are arbitrary.

**BootProofs**, the log: `LogAsPrintedAlways`. `SerialInv` is the progress of
`serial_init` (`Upto`: after `n` writes the divisor latch is open or closed and rate,
format and interrupts are set so far), what is owed being what the UART holds and
what `kprintf` still has to put out, and a byte only stored into an empty FIFO, since
the poll saw it empty and nobody else stores. That what is put out is what is meant
(`FormatMeans`) is about data: `print_num` writes digits backwards from the end of its
buffer, and they are the one numeral of the number that does not begin with a zero,
for every number of the word, the smallest negative one, zero and both bases
included. Formats, word length, FIFO and the pace of the transmitter are arbitrary.

**BootProofs**, the text screen: `ImplementsPaperAlways`. The invariant `TInv` adds to the
types that nothing is visible below the head's row; only with it a
scroll, which brings a blank row up, is a line feed of the paper. Each
character is a `Write`, `Feed`, `Return` or `Tear`. Screen size, characters and
colours are arbitrary.

**VbeProofs**: every property of the run `vbe` but liveness, for every mode, width of
the numbers and arguments. `VInv` is the types and that what a primitive has
written is on the screen (`StaysOnScreenAlways`): what passes `vbe_draw_pixel` and
`vbe_draw_hline` is a point of it, also when a sum wrapped, and points have distinct
cells (`AtInjective`). Rectangles, clears and swaps are one step each
(`RectIsExactAlways`, with the wrapped end; `FrameIsCompleteAlways`). `TextInv` places
each glyph before the next (`TextIsReadableAlways`). The loops have an invariant each:

- *lines* (`LineInv`): `err` is the difference of the sides plus twice the area of the
  triangle of the point and the two ends (`ErrOf`), every point is within half a pixel
  of the line (`Near`), and there is one for each step of the longer way, so that the
  set drawn has that many elements (`Path`). `Turn` is the one lemma about Bresenham's two tests;
- *circles* (`CircleInv`) and *discs* (`DiscInv`): `err` is the square of the distance
  less that of the radius, and two for each step along an axis, which is why circles
  are up to a pixel and a half too narrow (`Rim`, `RimNear`). A disc is complete in
  the rows nearer than `y` and farther than `x`, and when the loop ends these are all.

`TurnsRunOutAlways`: each turn lowers a natural number, for any arguments; liveness
of `CallsReturn` needs only its fairness besides. Where sums of centre and
radius overflow, or the radius is a sixteenth of the range or more (`~Moderate`), it is
proved that nothing is written off the screen and that the loop ends, not that the
figure is round.

**VbeProofs**, the frame: every property of the run `scene`, for every screen, console,
pointer, date, length of a day and size of the widget pool. Each part of a frame is
shown to stay in a zone of the screen, a set of areas (`Up(40)` for the banner,
`DateZone`, `Figures`, `Down(120)` for the line at the foot), whatever the numbers that
wrap in it; a text that wraps or a window that moves up with a low screen stays
legible in itself. What can cover what then follows from the zones alone
(`WidgetsApart`, `GroundApart`, `MayBeCovered`).

- `ReadableAlways`: `LegibleInv` says, for each place of the loop, in which zones the
  buffer's drawings are and that none covers a text it may not.
  The proof found the condition on the height: below 121 pixels the line at the foot is
  moved up into the date, which no screen of the run had shown before.
- `DateShownAlways`: `DateInv` says that the buffer's date is that of a tick between the
  head of the loop and now. Number and sign read from the count of 260 days are those
  read from the day itself, since 13 and 20 divide 260 (`CountRunsOn`).
- `EnteredShownAlways`: `EnteredInv` counts the drawings of scripts in the buffer and
  says that, until one of them clears it, it begins with what the loop had drawn when
  it turned to the keyboard. `ScriptsFit` says that the screens have the place the script of the model draws at.
- `SceneTypeAlways`: the order of the loop and what the pool holds.

Only model-checked: liveness under fairness (`FramesForever`, `KeysHandled`,
`CursorFollows`, `CallsReturn`), as TLAPS has no ENABLED here. Every invariant and every
action property of the passing runs is a theorem. The four claims of section 6 that
TLC refutes are false of the code and have no theorem.

## 6. Where code and documents disagree

Each of the first four is a run that TLC ends with a counterexample (`findings`
in `PROJECT.json` quotes the lines):

1. Two shift keys share one flag (`ps2_keyboard.c:78`).
2. `mouse_init` takes any byte for an acknowledgement (`ps2_mouse.c:63`).
3. With an odd number of pixels the last one is neither cleared nor shown
   (`vbe.c:152`, `vbe.c:328`).
4. What the script of `kernel_main` draws is cleared before the first frame is
   shown (`kernel.c:93`, `kernel.c:99`).

The models make more such places visible, as the conditions of properties or
in what a definition had to say to be faithful.

Conditions of properties:

5. "Variable assigned." is printed although the table was full
   (`serpentc.c:48`, `builtins.c:55`; `HasRoom` in the meaning of programs).
6. Filled circles lose the spans that cross the left edge (`vbe.c:202`; the
   condition of `DiscIsFilledInside`).
7. RAM regions are rounded outwards at their start (`phys.c:61`; `Aligned` in
   `OwnedIsRam`).
8. `phys_free_page(0)` makes page 0 allocatable (`phys.c:117`): clients
   may do it, and the properties of ownership end there (`misused`).
9. A latched request of the boot puts the mouse out of step (`ps2_mouse.c:74`;
   `Prompt` in `InStep`). `BackInStep` shows that reports bring it back.
10. A poll that gives up early writes an old byte back as the command byte and may
    turn the keyboard off (`ps2_mouse.c:55`; the condition of `KeyboardLeftOn`).
11. Any memory BAR of a device of three vendors, not only a display's, is taken
    for the frame buffer (`vbe.c:55`; `OnlyAdapter` in `ShownAsDrawn`).
12. A frame of more than 32 MB runs into memory the allocator hands out
    (`vbe.c:38`; the condition of `BackbufferReserved`).
13. On screens less than 648 pixels wide wrapped texts and the sun cover texts, and on
    screens less than 121 high the line at the foot does (`kernel.c:29-41`,
    `kernel.c:105`; the condition of `Readable`).
14. A circle whose centre and radius add up beyond an int, or whose radius is near
    its limit, overflows ints (`vbe.c:223-234`, `vbe.c:253-260`); scripts pass any
    number on (`Moderate` in `CircleIsRound` and `DiscIsFilledInside`).
15. The parser counts a page once for each usable entry it lies in, so the counter is
    too large on a map with overlapping entries (`phys.c:65-70`; `PageDisjoint` in
    `AccountingExact`, which has it never too small).

Seen while modelling:

16. Calls without a closing bracket are executed (`serpentc.c:66`); the plan's
    grammar (`docs/PHASE_2_PLAN.md:45`) has none.
17. Text wraps one column later than `docs/ADVERSARIAL_FIXES_PLAN.md:34` says
    (`vbe.c:295`), and points of circles lie up to one and a half pixels inside the
    true circle, not half a pixel (`vbe.c:233`; `CircleIsRound`).
18. `boot.asm` maps 4 GB; `docs/ARCHITECTURE.md:59` says the first 1 GB. A
    loader's frame buffer above 4 GB is accepted all the same (`kernel.c:59`).
19. `%c` prints a line end without a carriage return, and `%x` takes a 64-bit
    argument (`serial.c:90`, `serial.c:97`). On the text screen a character
    above 127 sets every bit of its attribute (`vga_text.h:34`).
20. A prompt longer than a row of the screen wraps over the border of the window,
    and the console's cursor then lies beyond the screen (`console.c:121-126`).
21. Movements beyond 127 are read with the wrong sign (`ps2_mouse.c:88`).

## 7. Not modelled

- The GDT, the segment registers and the stack of `boot.asm`: constants nothing
  computes. Likewise the divisor `pit_init` writes and the pixels of the font.
- Gate encoding and register saving in `idt.c`/`isr.asm`: a handler is taken to
  leave the interrupted code's registers alone.
- Spurious vectors, for which the IDT has no gates.
- Widgets with a header, hidden widgets and the getters of the mouse: no code
  uses them.
- What a malformed script ought to do: nothing in the repository says it. That
  its evaluation ends is checked.
- Memory effects below the level of C's atomics: on one core an interrupt sees
  the stores of the code it interrupts in order.

## 8. Plan

Done: (1) keyboard ring and decoder with its proofs; (2) page allocator with its
proofs; (3) the input path as a whole; (4) interpreter, symbol table with its
proofs, console; (5) drawing; (6) the boot around the allocator, with the video
mode, and its proofs; (7) the frame; (8) serial log, and text screen with its
refinement and proof; (9) the proofs of the input path as a whole, of the
evaluator, of the console and of drawing; (10) the proofs of the recovery of the
mouse, of the meaning of programs, of the log and of the frame.

Next: liveness, once the prover has ENABLED. `TurnsRunOutAlways` and
`EvalAdvancesAlways` are its safety half for drawing and evaluation.
