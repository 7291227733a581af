------------------------------ MODULE Terminal -------------------------------
(***************************************************************************)
(* The terminals of a session (client/term/term.cpp, terms/dumb.cpp,       *)
(* terms/linux.cpp): what add_text does to the lines and the cursor, and   *)
(* the count of rows Screen::update_scroll_height makes the page fit.      *)
(* Colours are left out, and a terminal of type Null shows nothing.        *)
(*                                                                         *)
(* A text is a sequence of characters and control sequences, each a tuple: *)
(* <<"x">> a letter, <<"w">> a character of two bytes, <<"NL">>, <<"CR">>, *)
(* <<"BS">>, <<"7">> for ESC 7, <<"Home">> for ESC [ H, <<"H", row,        *)
(* column>>, <<"J", n>>, <<"K", n>>, <<"A", n>>, ... for the others.       *)
(* Lines and columns count from 0.                                         *)
(***************************************************************************)
EXTENDS Queues

CONSTANTS
    Texts,      \* texts the session may send at once
    Columns,    \* what get_columns returns for the widths of the screen
    Rows,       \* what get_rows returns
    MaxTexts    \* bound: texts the session sends

Plain == {"x", "w", "NL", "CR"}
Moves == {"A", "B", "C", "D"}

(* The parameters a sequence has.                                            *)
IsCharacter(c) ==
    /\ c[1] \in Plain \cup Moves \cup {"BS", "7", "Home", "H", "J", "K"}
    /\ c[1] \in Moves => c[2] \in Nat
    /\ c[1] = "H" => c[2] \in Nat /\ c[3] \in Nat
    /\ c[1] = "K" => c[2] \in 0 .. 2

ASSUME TerminalAssumption ==
    /\ \A text \in Texts :
          Len(text) \in Nat /\ \A n \in 1 .. Len(text) : IsCharacter(text[n])
    /\ Columns \subseteq Nat \ {0}
    /\ Rows \in Nat \ {0}
    /\ MaxTexts \in Nat

VARIABLES
    type,      \* the terminal: dumb or linux
    term,      \* its members; undefined: it used a line that is not there; strayed: a
               \* sequence may have left the cursor on such a line
    columns,   \* the columns of the screen
    sent,      \* how many texts the session sent
    written,   \* the symbols of the characters sent so far, while plain
    plain,     \* only characters and new lines were sent
    fresh      \* the rows were counted after the last change

vars == <<type, term, columns, sent, written, plain, fresh>>

Symbol == {"x", "w", "byte", "s", "blank"}

TypeOK ==
    /\ type \in {"dumb", "linux"}
    /\ term \in [data : Seq(Seq(Symbol)) \ {<<>>}, current_line : Nat, current_char : Nat,
                 command_buffer : Seq({"w", "ESC"}), line_wrap_count : Nat,
                 lines_added : BOOLEAN, strayed : BOOLEAN, undefined : BOOLEAN]
    /\ columns \in Columns
    /\ sent \in 0 .. MaxTexts
    /\ written \in Seq(Symbol)
    /\ {plain, fresh} \subseteq BOOLEAN

Init ==
    /\ type \in {"dumb", "linux"}
    /\ term = [data |-> << <<>> >>, current_line |-> 0, current_char |-> 0,
               command_buffer |-> <<>>, line_wrap_count |-> 0,
               lines_added |-> FALSE, strayed |-> FALSE, undefined |-> FALSE]
    /\ columns \in Columns
    /\ sent = 0
    /\ written = <<>>
    /\ plain = TRUE
    /\ fresh = FALSE

-------------------------------------------------------------------------------
(* Lines and the cursor.                                                     *)

Least(a, b) == IF a <= b THEN a ELSE b
Most(a, b) == IF a <= b THEN b ELSE a

(* A line with a symbol at a column, filled with blanks up to it.            *)
Put(line, column, symbol) ==
    [i \in 1 .. Most(Len(line), column + 1) |->
        IF i = column + 1 THEN symbol ELSE IF i <= Len(line) THEN line[i] ELSE "blank"]

Here(t) == t.current_line + 1

(* Indexing data beyond its lines is undefined: the model stops there.       *)
add_letter(t, symbol) ==
    IF t.current_line >= Len(t.data)
    THEN [t EXCEPT !.undefined = t.undefined \/ type = "dumb" \/ t.current_line = Len(t.data)]
    ELSE [t EXCEPT !.data = [t.data EXCEPT ![Here(t)] =
                                Put(t.data[Here(t)], t.current_char, symbol)],
                   !.current_char = t.current_char + 1]

AddAll(t, symbols) ==
    LET added[n \in 0 .. Len(symbols)] ==
            IF n = 0 THEN t ELSE add_letter(added[n - 1], symbols[n])
    IN  added[Len(symbols)]

Times(n, symbol) == [i \in 1 .. n |-> symbol]

(* Mutant of Wraps: a long line wraps once.                                  *)
WrapsOnce(n, width) == IF n > width + 1 THEN 1 ELSE 0

(* line_recount wraps a line before the symbol after columns + 1 of them.    *)
Wraps(n, width) == IF n = 0 THEN 0 ELSE (n - 1) \div (width + 1)

Recounted(t, width) ==
    LET count[n \in 0 .. Len(t.data)] ==
            IF n = 0 THEN Len(t.data) ELSE count[n - 1] + Wraps(Len(t.data[n]), width)
    IN  [t EXCEPT !.line_wrap_count = count[Len(t.data)]]

(* Mutant of NeedsLine: the line is appended one new line too late.          *)
NeedsLineLate(t, line) == type = "dumb" \/ line > Len(t.data)

NeedsLine(t, line) == type = "dumb" \/ line = Len(t.data)

NewLine(t) ==
    IF NeedsLine(t, t.current_line + 1)
    THEN [t EXCEPT !.current_line = t.current_line + 1,
                   !.data = Append(t.data, <<>>),
                   !.lines_added = TRUE]
    ELSE [t EXCEPT !.current_line = t.current_line + 1]

(* The Linux terminal erases the symbol at the cursor, or the last one if    *)
(* the cursor is behind it; the dumb one erases nothing.                     *)
Erase(line, column) ==
    CASE column = Len(line) -> Front(line)
      [] column < Len(line) -> [line EXCEPT ![column + 1] = "blank"]
      [] OTHER -> line

Backspace(t) ==
    LET moved == [t EXCEPT !.current_char = t.current_char - 1,
                           !.lines_added = \/ t.lines_added
                                           \/ (t.current_char - 1) % columns = 0]
        erased == [t.data EXCEPT ![Here(t)] = Erase(t.data[Here(t)], t.current_char)]
    IN  CASE type = "dumb" -> IF t.current_char = 0 THEN t ELSE moved
          [] type = "linux" -> IF t.current_char = 0 THEN t
                               ELSE IF t.current_line >= Len(t.data)
                                    THEN [t EXCEPT !.undefined = TRUE]
                                    ELSE [moved EXCEPT !.data = erased]

-------------------------------------------------------------------------------
(* Dumb::add_text: every byte is a symbol, control sequences as well.        *)

(* How many bytes a control sequence has.                                    *)
Bytes(c) == CASE c[1] = "7" -> 2
              [] c[1] = "Home" -> 3
              [] c[1] = "H" -> 6
              [] OTHER -> 4

Dumb(t, c) ==
    CASE c[1] = "NL" -> NewLine(t)
      [] c[1] = "CR" -> [t EXCEPT !.current_char = 0]
      [] c[1] = "BS" -> Backspace(t)
      [] c[1] = "x" -> add_letter(t, "x")
      [] c[1] = "w" -> AddAll(t, <<"byte", "byte">>)
      [] OTHER -> AddAll(t, Times(Bytes(c), "s"))

-------------------------------------------------------------------------------
(* Linux::add_text.                                                          *)

(* ESC [ n K writes blanks and leaves the cursor where it was.               *)
Blanked(t, start, end) ==
    LET blanked[n \in 0 .. Most(0, end - start)] ==
            IF n = 0 THEN t
            ELSE add_letter([blanked[n - 1] EXCEPT !.current_char = start + n - 1], "blank")
    IN  [blanked[Most(0, end - start)] EXCEPT !.current_char = t.current_char]

(* Mutant of Left: the cursor is not kept on the line.                       *)
LeftFree(t, n) == t.current_char - n

Left(t, n) == Most(0, t.current_char - n)

(* ESC [ J clears all lines, whatever its number, and leaves the cursor.     *)
parse_buffer(t, c) ==
    CASE c[1] = "Home" -> [t EXCEPT !.current_line = 0, !.current_char = 0, !.strayed = FALSE]
      [] c[1] = "H" -> [t EXCEPT !.current_line = Most(c[2] - 1, 0),
                                 !.current_char = Most(c[3] - 1, 0),
                                 !.strayed = c[2] > 1]
      [] c[1] = "J" -> Recounted([t EXCEPT !.data = << <<>> >>,
                                           !.strayed = t.current_line > 0], columns)
      [] c[1] = "K" -> Blanked(t, IF c[2] = 0 THEN t.current_char ELSE 0,
                                  IF c[2] = 1 THEN t.current_char ELSE columns)
      [] c[1] = "D" -> [t EXCEPT !.current_char = Left(t, c[2])]
      [] c[1] = "C" -> [t EXCEPT !.current_char = Least(t.current_char + c[2], columns)]
      [] c[1] = "A" -> [t EXCEPT !.current_line =
                            Most(t.current_line - c[2], Most(Len(t.data) - Rows, 0))]
      [] c[1] = "B" -> [t EXCEPT !.current_line =
                            Least(t.current_line + c[2], Most(Len(t.data), Rows)),
                                 !.strayed = TRUE]

(* Mutant of Held: the characters held are forgotten.                        *)
HeldDropped(t) == <<>>

(* The bytes of characters above 127 are held until a letter comes.          *)
Held(t) == t.command_buffer

Show(t, symbols) == [AddAll(t, Held(t) \o symbols) EXCEPT !.command_buffer = <<>>]

(* A sequence ends at its first letter, so ESC 7 swallows what follows.      *)
Swallowed(t, c) ==
    IF c[1] \in {"NL", "CR", "BS", "w", "7"} THEN t ELSE [t EXCEPT !.command_buffer = <<>>]

(* An ESC behind held bytes is no sequence: it is shown with them.           *)
Sequence(t, c) ==
    IF t.command_buffer # <<>> THEN Show(t, Times(Bytes(c), "s"))
    ELSE IF c[1] = "7" THEN [t EXCEPT !.command_buffer = <<"ESC">>] ELSE parse_buffer(t, c)

Linux(t, c) ==
    IF t.command_buffer = <<"ESC">> THEN Swallowed(t, c)
    ELSE CASE c[1] = "w" -> [t EXCEPT !.command_buffer = Append(t.command_buffer, "w")]
           [] c[1] = "x" -> Show(t, <<"x">>)
           [] c[1] = "NL" -> NewLine(t)
           [] c[1] = "CR" -> [t EXCEPT !.current_char = 0]
           [] c[1] = "BS" -> Backspace(t)
           [] OTHER -> Sequence(t, c)

-------------------------------------------------------------------------------
(* The text so far as the properties see it.                                 *)

IsPlain(text) ==
    \A n \in 1 .. Len(text) :
        /\ text[n][1] \in Plain
        /\ text[n][1] = "CR" => n < Len(text) /\ text[n + 1][1] = "NL"

(* What a character of a plain text leaves on a line.                        *)
Shown(c) ==
    CASE c[1] = "x" -> <<"x">>
      [] c[1] = "w" -> IF type = "dumb" THEN <<"byte", "byte">> ELSE <<"w">>
      [] OTHER -> <<>>

Symbols(text) == FlattenSeq([n \in 1 .. Len(text) |-> Shown(text[n])])

-------------------------------------------------------------------------------
(* add_text of either terminal, letter by letter.                            *)
Added(text) ==
    LET added[n \in 0 .. Len(text)] ==
            IF n = 0 THEN [term EXCEPT !.lines_added = FALSE]
            ELSE IF added[n - 1].undefined THEN added[n - 1]
            ELSE IF type = "dumb" THEN Dumb(added[n - 1], text[n])
                                  ELSE Linux(added[n - 1], text[n])
    IN  added[Len(text)]

add_text(text) ==
    /\ ~term.undefined
    /\ sent < MaxTexts
    /\ LET added == Added(text)
       IN  /\ term' = IF added.lines_added THEN Recounted(added, columns) ELSE added
           /\ fresh' = \/ added.lines_added
                       \/ /\ fresh
                          /\ added.data = term.data
                          /\ added.line_wrap_count = term.line_wrap_count
    /\ sent' = sent + 1
    /\ plain' = (plain /\ IsPlain(text))
    /\ written' = IF plain' THEN written \o Symbols(text) ELSE <<>>
    /\ UNCHANGED <<type, columns>>

Resize(width) ==
    /\ ~term.undefined
    /\ columns # width
    /\ columns' = width
    /\ term' = Recounted(term, width)
    /\ fresh' = TRUE
    /\ UNCHANGED <<type, sent, written, plain>>

Next == (\E text \in Texts : add_text(text)) \/ (\E width \in Columns : Resize(width))

Spec == Init /\ [][Next]_vars

-------------------------------------------------------------------------------
(* A terminal never uses a line that is not there, unless the session sent   *)
(* the cursor down or cleared the lines under it: the cursor and data of the *)
(* dumb terminal, and of the Linux one as long as a program homes before it  *)
(* clears, move together over new lines, wraps, held characters and          *)
(* sequences that are shown or swallowed instead of obeyed.                  *)
StaysOnLines == term.undefined => term.strayed

NonBlank(line) == Kept(line, {i \in DOMAIN line : line[i] # "blank"})

(* Characters are shown in the order they were sent and none is lost or      *)
(* repeated, although the bytes above 127 are held back while new lines pass *)
(* them, and a new line alone leaves the cursor in its column.               *)
TextInOrder ==
    plain => FlattenSeq([l \in DOMAIN term.data |-> NonBlank(term.data[l])])
                \o term.command_buffer = written

(* Screen::paint wraps a line after columns + 5 symbols.                     *)
RowsPainted(data) ==
    LET count[n \in 0 .. Len(data)] ==
            IF n = 0 THEN Len(data) ELSE count[n - 1] + Len(data[n]) \div (columns + 5)
    IN  count[Len(data)]

(* Whenever the rows were counted, all that paint draws fits in them: the    *)
(* two wrap at different columns, and paint begins a row behind a full one.  *)
RowsFit == fresh => RowsPainted(term.data) <= term.line_wrap_count
===============================================================================
