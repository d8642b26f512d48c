----------------------------- MODULE TextLayout -----------------------------
(***************************************************************************)
(* The layout pass of the textbox program (textbox_program.cc): characters *)
(* are placed one by one on the last line; a character that overflows the  *)
(* width starts a new line, and takes with it the whole of its word unless *)
(* words may be broken.                                                    *)
(*                                                                         *)
(* A text is a sequence of characters.  A character is abstracted to what  *)
(* the pass asks of it: is it the line feed, is it white space, which font *)
(* has a glyph for it, how far that glyph advances.  Widths are integers   *)
(* (the code's floats, already scaled by size).  A laid glyph is the       *)
(* position of its character in the text and its pen in the line.          *)
(***************************************************************************)
EXTENDS Integers, Sequences, SequencesExt, TLC

CONSTANTS
  LineFeed,    \* the character that breaks a line
  Spaces,      \* the characters that are white space
  Glyphs,      \* [font -> [character -> advance]]
  Kerning(_, _, _),  \* font, glyph, next glyph: the correction between them
  SpaceAdvance \* [font -> advance of a white space]

Empty == [glyphs |-> <<>>, width |-> 0]

\* The cursor is the character to place; the word began at wordCursor and is
\* wordWidth wide so far; prev is the glyph before it on the line.
Start == [lines |-> <<Empty>>, cursor |-> 1, wordCursor |-> 1, wordWidth |-> 0,
          prev |-> <<>>]

\* The fonts of the box, in order of preference, that have the character.
Candidates(fonts, char) == SelectSeq(fonts, LAMBDA f : char \in DOMAIN Glyphs[f])

NewLine(s) ==
  [s EXCEPT !.lines = Append(@, Empty), !.wordCursor = s.cursor, !.wordWidth = 0,
            !.prev = <<>>]

SetLine(s, line) == [s EXCEPT !.lines = Append(Front(@), line)]

-----------------------------------------------------------------------------
(* One character.                                                          *)

\* Mutation: the limit is compared before the glyph is added.
Overflows_Before(line, advance, limit) == line.width - advance > limit /\ limit > 0

Overflows(line, advance, limit) == line.width > limit /\ limit > 0

\* A white space is itself the beginning of the width of the next word.
PlaceSpace(s, fonts, limit) ==
  LET line    == Last(s.lines)
      advance == SpaceAdvance[fonts[1]]
      wider   == [line EXCEPT !.width = @ + advance]
      next    == [s EXCEPT !.cursor = @ + 1]
  IN IF Overflows(wider, advance, limit)
     THEN NewLine(next)
     ELSE [SetLine(next, wider) EXCEPT !.wordCursor = s.cursor + 1, !.wordWidth = advance]

\* Mutation: one glyph of the word stays behind on the line it left.
WordGlyphs_OffByOne(s, line) ==
  LET n == s.cursor - s.wordCursor
  IN IF n > Len(line.glyphs) THEN Len(line.glyphs) ELSE n

\* The glyphs that are taken back with a word: one for each character from its
\* beginning to the cursor, although characters without a glyph were dropped.
WordGlyphs(s, line) ==
  LET n == s.cursor - s.wordCursor + 1
  IN IF n > Len(line.glyphs) THEN Len(line.glyphs) ELSE n

\* The glyph that overflowed goes to the next line alone.
BreakWord(s, line, advance) ==
  NewLine(SetLine(s, [glyphs |-> Front(line.glyphs), width |-> line.width - advance]))

\* The whole word goes to the next line.
WrapWord(s, line, width) ==
  LET kept == SubSeq(line.glyphs, 1, Len(line.glyphs) - WordGlyphs(s, line))
  IN NewLine([SetLine(s, [glyphs |-> kept, width |-> line.width - width])
                EXCEPT !.cursor = s.wordCursor])

PlaceGlyph(s, font, char, limit, wordBreak) ==
  LET advance == Glyphs[font][char]
      kern    == IF s.prev # <<>> /\ s.prev[1] = font
                 THEN Kerning(font, s.prev[2], char) ELSE 0
      old     == Last(s.lines)
      width   == s.wordWidth + kern + advance
      line    == [glyphs |-> Append(old.glyphs, [at |-> s.cursor, x |-> old.width + kern]),
                  width  |-> old.width + kern + advance]
      over    == Overflows(line, advance, limit)
  IN IF over /\ wordBreak /\ Len(line.glyphs) > 1 THEN BreakWord(s, line, advance)
     ELSE IF over /\ ~wordBreak /\ width # line.width THEN WrapWord(s, line, width)
     ELSE [SetLine(s, line) EXCEPT !.cursor = s.cursor + 1, !.wordWidth = width,
                                   !.prev = <<font, char>>]

Place(s, text, fonts, limit, wordBreak) ==
  LET char == text[s.cursor]
      has  == Candidates(fonts, char)
  IN IF char = LineFeed THEN NewLine([s EXCEPT !.cursor = @ + 1])
     ELSE IF char \in Spaces THEN PlaceSpace(s, fonts, limit)
     ELSE IF has = <<>> THEN [s EXCEPT !.cursor = @ + 1]
     ELSE PlaceGlyph(s, has[1], char, limit, wordBreak)

\* Where the pass can stand.
Passes ==
  [lines : Seq([glyphs : Seq([at : Nat, x : Int]), width : Int]), cursor : Nat,
   wordCursor : Nat, wordWidth : Int,
   prev : {<<>>} \cup UNION {{f} \X DOMAIN Glyphs[f] : f \in DOMAIN Glyphs}]

\* The lines of a text, without a trailing empty one.
Lines(text, fonts, limit, wordBreak) ==
  LET PlaceAll[s \in Passes] ==
        IF s.cursor > Len(text) THEN s.lines
        ELSE PlaceAll[Place(s, text, fonts, limit, wordBreak)]
      lines == PlaceAll[Start]
  IN IF Last(lines) = Empty THEN Front(lines) ELSE lines

-----------------------------------------------------------------------------
(* The mesh: one quad for each glyph, line after line.                     *)

Mesh(lines) ==
  FlattenSeq([i \in DOMAIN lines |->
    [j \in DOMAIN lines[i].glyphs |-> [line |-> i] @@ lines[i].glyphs[j]]])
=============================================================================
