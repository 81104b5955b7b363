------------------------------ MODULE Console ------------------------------
(***************************************************************************)
(* The console of CrabOS: kernel/src/console.rs, the text screen of        *)
(* kernel/src/console/vga.rs, and what a program's write_stream sends to   *)
(* it (kernel/src/fs/vfs.rs, util::utf8_valid_parts).  KernelLocks has the *)
(* lock around it and the next-state relation.                             *)
(*                                                                         *)
(* A character cell holds the glyphs that were drawn on it since it was    *)
(* blank: write_cp437 only sets the pixels of the glyph, so that a glyph   *)
(* on a cell that is not blank can be read by nobody.  A byte is "x" (any  *)
(* ASCII character), "nl", "lead" and "cont" (the bytes of a character of  *)
(* two), or "bad" (a byte that UTF-8 does not use).                        *)
(***************************************************************************)
EXTENDS Naturals, Sequences, FiniteSets

CONSTANTS
  Width, Height,            \* VbeModeInfo::x_res, y_res
  CHAR_WIDTH, CHAR_HEIGHT,
  CrabWidth                 \* the columns of pixels that are left to the crab

\* The bytes of a string.
Bytes == {"x", "nl", "lead", "cont", "bad"}

\* VgaText::rows and VgaText::cols.
rows == Height \div CHAR_HEIGHT
cols == (Width - CrabWidth) \div CHAR_WIDTH

ASSUME ScreenAssumption ==
  /\ {Width, Height, CHAR_WIDTH, CHAR_HEIGHT, CrabWidth} \subseteq Nat \ {0}
  /\ Width >= CrabWidth + CHAR_WIDTH /\ Height >= CHAR_HEIGHT

VARIABLES
  screen,       \* [cells, row, col]: video memory and the position of the next glyph
  lines,        \* history: the text since console_init, broken into lines, its end
  out           \* the File::write in progress: [buf, idx, first]

consoleVars == <<screen, lines, out>>

BlankRow == [x \in 0 .. cols - 1 |-> <<>>]

\* console_init: the blank screen.
Blank == [cells |-> [y \in 0 .. rows - 1 |-> BlankRow], row |-> 0, col |-> 0]

NoWrite == [buf |-> <<>>, idx |-> 0, first |-> TRUE]

ConsoleInit ==
  /\ screen = Blank
  /\ lines = << <<>> >>
  /\ out = NoWrite

-----------------------------------------------------------------------------
(* vga.rs.                                                                 *)

\* Mutant: the last line is not blanked.
BugNoBlank(s) ==
  IF s.row + 1 = rows
  THEN [s EXCEPT !.col = 0,
                 !.cells = [y \in 0 .. rows - 1 |->
                              s.cells[IF y = rows - 1 THEN y ELSE y + 1]]]
  ELSE [s EXCEPT !.col = 0, !.row = @ + 1]

\* After the last row the rows move up by one.
newline(s) ==
  IF s.row + 1 = rows
  THEN [s EXCEPT !.col = 0,
                 !.cells = [y \in 0 .. rows - 1 |->
                              IF y = rows - 1 THEN BlankRow ELSE s.cells[y + 1]]]
  ELSE [s EXCEPT !.col = 0, !.row = @ + 1]

write_cp437(s, glyph) ==
  LET drawn == [s EXCEPT !.cells[s.row][s.col] = Append(@, glyph), !.col = @ + 1]
  IN  IF drawn.col = cols THEN newline(drawn) ELSE drawn

\* write_str, one byte after another: the first byte of a character that is not
\* ASCII stands for the character and its second for nothing.
Glyph(byte) == IF byte = "x" THEN "x" ELSE "?"

WriteByte(s, byte) ==
  IF byte = "nl" THEN newline(s)
  ELSE IF byte = "cont" THEN s ELSE write_cp437(s, Glyph(byte))

write_str(s, str) ==
  LET after[i \in 0 .. Len(str)] ==
        IF i = 0 THEN s ELSE WriteByte(after[i - 1], str[i])
  IN  after[Len(str)]

\* The same text as lines of cols characters, of which the last rows are kept.
TypeByte(ls, byte) ==
  LET last == ls[Len(ls)]
      typed == [ls EXCEPT ![Len(ls)] = Append(last, Glyph(byte))]
      all == IF byte = "nl" THEN Append(ls, <<>>)
             ELSE IF byte = "cont" THEN ls
             ELSE IF Len(last) + 1 = cols THEN Append(typed, <<>>) ELSE typed
  IN  IF Len(all) > rows THEN Tail(all) ELSE all

Typed(ls, str) ==
  LET after[i \in 0 .. Len(str)] ==
        IF i = 0 THEN ls ELSE TypeByte(after[i - 1], str[i])
  IN  after[Len(str)]

Show(str) ==
  /\ screen' = write_str(screen, str)
  /\ lines' = Typed(lines, str)

-----------------------------------------------------------------------------
(* File::write on the console and utf8_valid_parts.                        *)

\* str::from_utf8 (external): the bytes that belong to no character.
Invalid(s) ==
  {i \in DOMAIN s :
     \/ s[i] = "bad"
     \/ s[i] = "lead" /\ ~(i < Len(s) /\ s[i + 1] = "cont")
     \/ s[i] = "cont" /\ ~(i > 1 /\ s[i - 1] = "lead")}

valid_up_to(s) ==
  IF Invalid(s) = {} THEN Len(s)
  ELSE (CHOOSE i \in Invalid(s) : \A j \in Invalid(s) : i <= j) - 1

\* A character that the end of the buffer cuts off is an error without a length.
Truncated(s) == s # <<>> /\ s[Len(s)] = "lead"

\* Mutant: only bytes that UTF-8 never uses are skipped.
BugSkipBad(s) ==
  IF valid_up_to(s) < Len(s) /\ s[valid_up_to(s) + 1] = "bad" THEN 1 ELSE 0

\* error_len().unwrap_or(0), and nothing to skip in a valid rest.
ErrorLen(s) ==
  IF Invalid(s) = {} \/ (Truncated(s) /\ valid_up_to(s) = Len(s) - 1) THEN 0 ELSE 1

Rest == SubSeq(out.buf, out.idx + 1, Len(out.buf))

\* The next part, with the "?" of intersperse in front of all but the first.
WritePart ==
  /\ Rest # <<>>
  /\ Show((IF out.first THEN <<>> ELSE <<"bad">>) \o SubSeq(Rest, 1, valid_up_to(Rest)))
  /\ out' = [out EXCEPT !.idx = @ + valid_up_to(Rest) + ErrorLen(Rest), !.first = FALSE]

\* from_fn has returned None.
WriteDone ==
  /\ Rest = <<>>
  /\ out' = NoWrite
  /\ UNCHANGED <<screen, lines>>

-----------------------------------------------------------------------------
(* Properties.                                                             *)

\* The screen shows the end of the text: row y has the glyphs of line y, each on a
\* cell that was blank, the rest is blank, and the next glyph goes behind the last
\* one, inside video memory, whatever was wrapped, scrolled or replaced by "?".
ScreenShowsText ==
  /\ screen.row = Len(lines) - 1
  /\ screen.col = Len(lines[Len(lines)])
  /\ \A y \in 0 .. rows - 1, x \in 0 .. cols - 1 :
       screen.cells[y][x] =
         IF y < Len(lines) /\ x < Len(lines[y + 1]) THEN << lines[y + 1][x + 1] >> ELSE <<>>
=============================================================================
