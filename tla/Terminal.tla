------------------------------ MODULE Terminal ------------------------------
(***************************************************************************)
(* The text screen, kernel/drivers/vga_text.c: a buffer of character cells *)
(* that scrolls.  Its callers are not interrupted by one another.          *)
(***************************************************************************)
EXTENDS Integers

CONSTANTS
  VGA_WIDTH, VGA_HEIGHT,
  Char,         \* the characters that may be printed
  Color         \* the attributes that may be given

ASSUME TerminalAssumption ==
  /\ VGA_WIDTH \in Nat \ {0} /\ VGA_HEIGHT \in Nat \ {0}
  /\ Char \subseteq 0 .. 255 /\ Color \subseteq 0 .. 255

VARIABLES
  vga_buffer,   \* row -> column -> cell
  vga_row, vga_col,
  gone, top     \* history: the rows that have left at the top, and how many

terminalVars == <<vga_buffer, vga_row, vga_col, gone, top>>

Column == 0 .. VGA_WIDTH - 1
Row    == 0 .. VGA_HEIGHT - 1
Cell   == [ch : Char, color : Color \cup {255}]

(* A character is extended with its sign, which sets all of the attribute. *)
vga_entry(c, color) == [ch |-> c, color |-> IF c < 128 THEN color ELSE 255]

BlankRow(color) == [x \in Column |-> vga_entry(32, color)]

(* vga_text_init, and any later clearing of the screen.                    *)
Cleared(color) == [y \in Row |-> BlankRow(color)]
vga_text_init ==
  /\ vga_buffer = Cleared(7)
  /\ vga_row = 0 /\ vga_col = 0
  /\ gone = [k \in {} |-> BlankRow(7)] /\ top = 0
vga_text_clear(color) ==
  /\ vga_buffer' = Cleared(color)
  /\ vga_row' = 0 /\ vga_col' = 0
  /\ gone' = [k \in {} |-> BlankRow(7)] /\ top' = 0

(* vga_scroll, with what leaves the screen.                                *)
MutScrolled(b, color) == [y \in Row |-> IF y + 1 \in Row THEN b[y + 1] ELSE b[y]]   \* the last row is kept
Scrolled(b, color) == [y \in Row |-> IF y + 1 \in Row THEN b[y + 1] ELSE BlankRow(color)]

(* The head moves to a new row below buffer b.                             *)
NewRow(b, color) ==
  /\ vga_col' = 0
  /\ IF vga_row + 1 < VGA_HEIGHT
     THEN /\ vga_buffer' = b
          /\ vga_row' = vga_row + 1
          /\ UNCHANGED <<gone, top>>
     ELSE /\ vga_buffer' = Scrolled(b, color)
          /\ vga_row' = VGA_HEIGHT - 1
          /\ gone' = [k \in 0 .. top |-> IF k = top THEN b[0] ELSE gone[k]]
          /\ top' = top + 1

vga_text_putc(c, color) ==
  IF c = 10 THEN NewRow(vga_buffer, color)
  ELSE IF c = 13 THEN vga_col' = 0 /\ UNCHANGED <<vga_buffer, vga_row, gone, top>>
  ELSE LET b == [vga_buffer EXCEPT ![vga_row][vga_col] = vga_entry(c, color)]
       IN IF vga_col + 1 < VGA_WIDTH
          THEN /\ vga_buffer' = b
               /\ vga_col' = vga_col + 1
               /\ UNCHANGED <<vga_row, gone, top>>
          ELSE NewRow(b, color)

(* vga_text_puts calls it for one character after the other.               *)
TerminalNext ==
  \/ \E color \in Color : vga_text_clear(color)
  \/ \E c \in Char, color \in Color : vga_text_putc(c, color)

TerminalSpec == vga_text_init /\ [][TerminalNext]_terminalVars

-----------------------------------------------------------------------------

Nothing == [ch |-> 32, color |-> 0]

(* The rows that have left, those on the screen down to the head's, and    *)
(* nothing visible below.                                                  *)
Marks(row) == [x \in Column |-> IF row[x].ch = 32 THEN Nothing ELSE row[x]]
Roll == [k \in 0 .. top + vga_row |-> Marks(IF k < top THEN gone[k] ELSE vga_buffer[k - top])]

Sheet == INSTANCE Paper WITH
           Width <- VGA_WIDTH, Blank <- Nothing, Ink <- Cell,
           paper <- Roll, last <- top + vga_row, head <- vga_col

(* The screen is the end of a roll of paper: a character goes where the    *)
(* one before left the head and disturbs no other, a full line or a line   *)
(* feed starts an empty one, and scrolling loses nothing but the line at   *)
(* the top (vga_text.c:7-68).                                              *)
ImplementsPaper == Sheet!PaperSpec
=============================================================================
