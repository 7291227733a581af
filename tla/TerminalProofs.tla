--------------------------- MODULE TerminalProofs ---------------------------
(***************************************************************************)
(* Theorems about Terminal, for every set of texts and any number of them, *)
(* every width and height of the screen.                                   *)
(***************************************************************************)
EXTENDS Terminal, SequenceLemmas

(* What is held back: characters, or an ESC alone.                           *)
Buffers == Seq({"w"}) \cup {<<"ESC">>}

Term == [data : Seq(Seq(Symbol)), current_line : Nat, current_char : Nat,
         command_buffer : Buffers, line_wrap_count : Nat,
         lines_added : BOOLEAN, strayed : BOOLEAN, undefined : BOOLEAN]

(* A sequence that may leave the cursor on a line that is not there.         *)
Jump(c) == c[1] \in {"B", "J"} \/ (c[1] = "H" /\ c[2] > 1)

(* The session may send one.                                                 *)
Jumps == \E text \in Texts : \E n \in 1 .. Len(text) : Jump(text[n])

Sendable(c) == IsCharacter(c) /\ (Jump(c) => Jumps)

(* The cursor is on a line, unless a sequence may have left it elsewhere.    *)
Sound(t) ==
    /\ t \in Term
    /\ Len(t.data) > 0
    /\ t.undefined => t.strayed
    /\ t.strayed => type = "linux" /\ Jumps
    /\ ~t.strayed => t.current_line < Len(t.data)

Screen == type \in {"dumb", "linux"} /\ columns \in Nat \ {0} /\ Rows \in Nat \ {0}

(* A line with one more symbol is a line.                                    *)
LEMMA PutTyped ==
    ASSUME NEW line \in Seq(Symbol), NEW column \in Nat, NEW symbol \in Symbol
    PROVE  Put(line, column, symbol) \in Seq(Symbol)
<1>1. PICK m : m = Most(Len(line), column + 1)
  OBVIOUS
<1>2. m \in Nat /\ Len(line) \in Nat
  BY <1>1 DEF Most
<1>3. \A i \in 1 .. Len(line) : line[i] \in Symbol
  OBVIOUS
<1>4. "blank" \in Symbol
  BY DEF Symbol
<1>5. ASSUME NEW i \in 1 .. m
      PROVE  (IF i = column + 1 THEN symbol ELSE IF i <= Len(line) THEN line[i] ELSE "blank") \in Symbol
  <2>1. i <= Len(line) => i \in 1 .. Len(line)
    BY <1>2
  <2> QED
    BY <1>3, <1>4, <2>1
<1>6. Put(line, column, symbol) \in [1 .. m -> Symbol]
  BY <1>1, <1>5 DEF Put
<1> QED
  BY <1>2, <1>6

(* A terminal with the lines and the line of the cursor of a sound one.      *)
LEMMA SoundStays ==
    ASSUME NEW t, Sound(t), NEW u \in Term, Len(u.data) = Len(t.data),
           u.current_line = t.current_line, u.undefined = t.undefined, u.strayed = t.strayed
    PROVE  Sound(u)
  BY DEF Sound

(* Whether a line that is not there was used changes nothing else.           *)
LEMMA SoundUndefined ==
    ASSUME NEW t, Sound(t), NEW b \in BOOLEAN, t.strayed
    PROVE  Sound([t EXCEPT !.undefined = b])
<1>1. t \in Term
  BY DEF Sound
<1>2. PICK u : u = [t EXCEPT !.undefined = b]
  OBVIOUS
<1>3. u \in Term
  BY <1>1, <1>2 DEF Term
<1>4. u.data = t.data /\ u.current_line = t.current_line /\ u.strayed = t.strayed
  BY <1>1, <1>2 DEF Term
<1>5. Sound(u)
  BY <1>3, <1>4 DEF Sound
<1> QED
  BY <1>2, <1>5

(* add_letter keeps the cursor on a line.                                    *)
LEMMA LetterSound ==
    ASSUME Screen, NEW t, Sound(t), NEW symbol \in Symbol
    PROVE  Sound(add_letter(t, symbol))
<1>1. /\ t \in Term /\ Len(t.data) > 0 /\ t.data \in Seq(Seq(Symbol))
      /\ t.current_line \in Nat /\ t.current_char \in Nat /\ Len(t.data) \in Nat
  BY DEF Sound, Term
<1>2. CASE t.current_line >= Len(t.data)
  <2>1. t.strayed
    BY <1>1, <1>2 DEF Sound
  <2>2. PICK b \in BOOLEAN : b = (t.undefined \/ type = "dumb" \/ t.current_line = Len(t.data))
    OBVIOUS
  <2>3. add_letter(t, symbol) = [t EXCEPT !.undefined = b]
    BY <1>2, <2>2 DEF add_letter
  <2> QED
    BY <2>1, <2>3, SoundUndefined
<1>3. CASE ~(t.current_line >= Len(t.data))
  <2>1. Here(t) \in 1 .. Len(t.data)
    BY <1>1, <1>3 DEF Here
  <2>2. t.data[Here(t)] \in Seq(Symbol)
    BY <1>1, <2>1
  <2>3. PICK line \in Seq(Symbol) : line = Put(t.data[Here(t)], t.current_char, symbol)
    BY <1>1, <2>2, PutTyped
  <2>4. PICK data : data = [t.data EXCEPT ![Here(t)] = line]
    OBVIOUS
  <2>5. data \in Seq(Seq(Symbol)) /\ Len(data) = Len(t.data)
    BY <1>1, <2>1, <2>4
  <2>6. PICK column \in Nat : column = t.current_char + 1
    BY <1>1
  <2>7. add_letter(t, symbol) = [t EXCEPT !.data = data, !.current_char = column]
    BY <1>3, <2>3, <2>4, <2>6 DEF add_letter
  <2>8. PICK u : u = [t EXCEPT !.data = data, !.current_char = column]
    OBVIOUS
  <2>9. /\ u \in Term /\ u.data = data /\ u.current_line = t.current_line
        /\ u.undefined = t.undefined /\ u.strayed = t.strayed
    BY <1>1, <2>5, <2>8 DEF Term
  <2>a. Sound(u)
    BY <2>5, <2>9, SoundStays
  <2> QED
    BY <2>7, <2>8, <2>a
<1> QED
  BY <1>2, <1>3

(* added of the definition of AddAll.                                        *)
LettersUpTo(added, t, symbols) ==
    added = [n \in 0 .. Len(symbols) |->
                IF n = 0 THEN t ELSE add_letter(added[n - 1], symbols[n])]

Letters(g, t, symbols) ==
    /\ g[0] = t
    /\ \A n \in 0 .. Len(symbols) : Sound(g[n])
    /\ \A n \in 1 .. Len(symbols) : g[n] = add_letter(g[n - 1], symbols[n])

(* Showing several symbols is a chain of add_letter.                         *)
LEMMA AllLetters ==
    ASSUME Screen, NEW t, Sound(t), NEW symbols \in Seq(Symbol)
    PROVE  \E g : Letters(g, t, symbols) /\ AddAll(t, symbols) = g[Len(symbols)]
<1> DEFINE N == Len(symbols)
           X == {u \in Term : Sound(u)}
           step == [n \in 1 .. N |-> [u \in X |-> add_letter(u, symbols[n])]]
           f == CHOOSE h : LettersUpTo(h, t, symbols)
<1>1. N \in Nat /\ \A n \in 1 .. N : symbols[n] \in Symbol
  OBVIOUS
<1>2. t \in X
  BY DEF Sound
<1>3. ASSUME NEW n \in 1 .. N, NEW u \in X PROVE add_letter(u, symbols[n]) \in X
  <2>1. Sound(add_letter(u, symbols[n]))
    BY <1>1, LetterSound
  <2> QED
    BY <2>1 DEF Sound
<1> HIDE DEF X, N
<1>4. step \in [1 .. N -> [X -> X]]
  BY <1>3
<1>5. \A n \in 1 .. N, u \in X : step[n][u] = add_letter(u, symbols[n])
  OBVIOUS
<1> HIDE DEF step
<1>6. PICK g \in [0 .. N -> X] : StepsFrom(g, t, step, N)
  BY <1>1, <1>2, <1>4, Recursion
<1>7. ASSUME NEW n \in 0 .. N PROVE g[n] = IF n = 0 THEN t ELSE add_letter(g[n - 1], symbols[n])
  <2>1. n # 0 => n \in 1 .. N /\ n - 1 \in 0 .. N
    BY <1>1
  <2> QED
    BY <1>5, <1>6, <2>1 DEF StepsFrom
<1>8. LettersUpTo(g, t, symbols)
  <2>1. g = [n \in 0 .. N |-> IF n = 0 THEN t ELSE add_letter(g[n - 1], symbols[n])]
    BY <1>7
  <2> QED
    BY <2>1 DEF LettersUpTo, N
<1>9. LettersUpTo(f, t, symbols)
  BY <1>8
<1>a. AddAll(t, symbols) = f[N]
  BY DEF AddAll, LettersUpTo, N
<1> HIDE DEF f
<1>b. ASSUME NEW n \in 0 .. N PROVE f[n] = IF n = 0 THEN t ELSE add_letter(f[n - 1], symbols[n])
  BY <1>9 DEF LettersUpTo, N
<1> DEFINE T == {n \in 0 .. N : f[n] \in X}
<1>c. 0 \in T
  <2>1. 0 \in 0 .. N
    BY <1>1
  <2> QED
    BY <1>2, <1>b, <2>1
<1>d. ASSUME NEW n \in 1 .. N, n - 1 \in T PROVE n \in T
  <2>1. n \in 0 .. N /\ n # 0 /\ f[n - 1] \in X
    BY <1>1, <1>d
  <2> QED
    BY <1>3, <1>b, <2>1
<1>e. \A n \in 0 .. N : f[n] \in X
  <2>1. \A n \in 0 .. N : n \in T
    <3> HIDE DEF T
    <3> QED
      BY <1>1, <1>c, <1>d, InductionUpTo
  <2> QED
    BY <2>1
<1>f. f[0] = t
  <2>1. 0 \in 0 .. N
    BY <1>1
  <2> QED
    BY <1>b, <2>1
<1>g. ASSUME NEW n \in 1 .. N PROVE f[n] = add_letter(f[n - 1], symbols[n])
  <2>1. n \in 0 .. N /\ n # 0
    BY <1>1
  <2> QED
    BY <1>b, <2>1
<1>h. Letters(f, t, symbols)
  BY <1>e, <1>f, <1>g DEF Letters, X, N
<1> QED
  BY <1>a, <1>h DEF N

(* The chain keeps the cursor on a line.                                     *)
LEMMA AllSound ==
    ASSUME Screen, NEW t, Sound(t), NEW symbols \in Seq(Symbol)
    PROVE  Sound(AddAll(t, symbols))
<1>1. PICK g : Letters(g, t, symbols) /\ AddAll(t, symbols) = g[Len(symbols)]
  BY AllLetters
<1>2. Len(symbols) \in 0 .. Len(symbols)
  OBVIOUS
<1> QED
  BY <1>1, <1>2 DEF Letters

(* A new line appends the line the cursor moves to, if it is not there.      *)
LEMMA NewLineSound ==
    ASSUME Screen, NEW t, Sound(t)
    PROVE  Sound(NewLine(t))
<1>1. /\ t \in Term /\ Len(t.data) > 0 /\ t.data \in Seq(Seq(Symbol))
      /\ t.current_line \in Nat /\ Len(t.data) \in Nat
  BY DEF Sound, Term
<1>2. PICK l \in Nat : l = t.current_line + 1
  BY <1>1
<1>3. CASE NeedsLine(t, l)
  <2>1. PICK data : data = Append(t.data, <<>>)
    OBVIOUS
  <2>2. data \in Seq(Seq(Symbol)) /\ Len(data) = Len(t.data) + 1
    <3>1. <<>> \in Seq(Symbol)
      OBVIOUS
    <3> QED
      BY <1>1, <2>1, <3>1
  <2>3. NewLine(t) = [t EXCEPT !.current_line = l, !.data = data, !.lines_added = TRUE]
    BY <1>2, <1>3, <2>1, Zenon DEF NewLine
  <2>4. PICK u : u = [t EXCEPT !.current_line = l, !.data = data, !.lines_added = TRUE]
    OBVIOUS
  <2>5. u \in Term
    BY <1>1, <2>2, <2>4 DEF Term
  <2>6. /\ u.data = data /\ u.current_line = l
        /\ u.undefined = t.undefined /\ u.strayed = t.strayed
    BY <1>1, <2>4 DEF Term
  <2>7. Sound(u)
    BY <1>1, <1>2, <2>2, <2>5, <2>6 DEF Sound
  <2> QED
    BY <2>3, <2>4, <2>7
<1>4. CASE ~NeedsLine(t, l)
  <2>1. NewLine(t) = [t EXCEPT !.current_line = l]
    BY <1>2, <1>4 DEF NewLine
  <2>2. PICK u : u = [t EXCEPT !.current_line = l]
    OBVIOUS
  <2>3. u \in Term
    BY <1>1, <2>2 DEF Term
  <2>4. /\ u.data = t.data /\ u.current_line = l
        /\ u.undefined = t.undefined /\ u.strayed = t.strayed
    BY <1>1, <2>2 DEF Term
  <2>5. type # "dumb" /\ l # Len(t.data)
    BY <1>4 DEF NeedsLine
  <2>6. Sound(u)
    BY <1>1, <1>2, <2>3, <2>4, <2>5 DEF Sound
  <2> QED
    BY <2>1, <2>2, <2>6
<1> QED
  BY <1>3, <1>4

(* A line with a symbol erased is a line.                                    *)
LEMMA EraseTyped ==
    ASSUME NEW line \in Seq(Symbol), NEW column \in Nat, column # 0
    PROVE  Erase(line, column) \in Seq(Symbol)
<1>1. Len(line) \in Nat /\ \A i \in 1 .. Len(line) : line[i] \in Symbol
  OBVIOUS
<1>2. PICK blank \in Symbol : blank = "blank"
  BY DEF Symbol
<1>3. CASE column = Len(line)
  <2>0. PICK m \in Nat : m = Len(line) - 1
    BY <1>1, <1>3
  <2>1. Front(line) = [i \in 1 .. m |-> line[i]]
    BY <2>0 DEF Front
  <2>2. [i \in 1 .. m |-> line[i]] \in Seq(Symbol)
    <3>1. \A i \in 1 .. m : line[i] \in Symbol
      BY <1>1, <2>0
    <3> QED
      BY <3>1
  <2>3. ~(column < Len(line))
    BY <1>1, <1>3
  <2>4. Erase(line, column) = Front(line)
    BY <1>3, <2>3, Zenon DEF Erase
  <2> QED
    BY <2>1, <2>2, <2>4
<1>4. CASE column < Len(line)
  <2>1. [line EXCEPT ![column + 1] = blank] \in Seq(Symbol)
    <3>1. line \in [1 .. Len(line) -> Symbol]
      OBVIOUS
    <3>2. [line EXCEPT ![column + 1] = blank] \in [1 .. Len(line) -> Symbol]
      BY <3>1
    <3> QED
      BY <1>1, <3>2
  <2>2. column # Len(line)
    BY <1>1, <1>4
  <2>3. Erase(line, column) = [line EXCEPT ![column + 1] = blank]
    BY <1>2, <1>4, <2>2, Zenon DEF Erase
  <2> QED
    BY <2>1, <2>3
<1>5. CASE column > Len(line)
  <2>1. column # Len(line) /\ ~(column < Len(line))
    BY <1>1, <1>5
  <2>2. Erase(line, column) = line
    BY <2>1, Zenon DEF Erase
  <2> QED
    BY <2>2
<1> QED
  BY <1>1, <1>3, <1>4, <1>5

(* A backspace keeps the cursor on its line.                                 *)
LEMMA BackspaceSound ==
    ASSUME Screen, NEW t, Sound(t)
    PROVE  Sound(Backspace(t))
<1>1. /\ t \in Term /\ Len(t.data) > 0 /\ t.data \in Seq(Seq(Symbol))
      /\ t.current_line \in Nat /\ t.current_char \in Nat /\ Len(t.data) \in Nat
  BY DEF Sound, Term
<1>2. CASE t.current_char = 0
  <2>1. Backspace(t) = t
    BY <1>2, Zenon DEF Backspace, Screen
  <2> QED
    BY <2>1
<1>3. CASE t.current_char # 0 /\ type = "linux" /\ t.current_line >= Len(t.data)
  <2>1. Backspace(t) = [t EXCEPT !.undefined = TRUE]
    BY <1>3 DEF Backspace
  <2>2. t.strayed
    BY <1>1, <1>3 DEF Sound
  <2> QED
    BY <2>1, <2>2, SoundUndefined
<1>4. CASE t.current_char # 0 /\ ~(type = "linux" /\ t.current_line >= Len(t.data))
  <2>1. PICK b \in BOOLEAN : b = (t.lines_added \/ (t.current_char - 1) % columns = 0)
    OBVIOUS
  <2>a. PICK column \in Nat : column = t.current_char - 1
    BY <1>1, <1>4
  <2>2. PICK moved : moved = [t EXCEPT !.current_char = column, !.lines_added = b]
    OBVIOUS
  <2>3. PICK erased : erased = [t.data EXCEPT ![Here(t)] = Erase(t.data[Here(t)], t.current_char)]
    OBVIOUS
  <2>4. /\ moved \in Term /\ moved.data = t.data /\ moved.current_line = t.current_line
        /\ moved.undefined = t.undefined /\ moved.strayed = t.strayed
    BY <1>1, <2>2 DEF Term
  <2>5. Sound(moved)
    BY <2>4, SoundStays
  <2>6. CASE type = "dumb"
    <3>1. Backspace(t) = moved
      BY <1>4, <2>1, <2>2, <2>6, <2>a DEF Backspace
    <3> QED
      BY <2>5, <3>1
  <2>7. CASE type = "linux"
    <3>1. Here(t) \in 1 .. Len(t.data)
      BY <1>1, <1>4, <2>7 DEF Here
    <3>2. PICK line \in Seq(Symbol) : line = Erase(t.data[Here(t)], t.current_char)
      <4>1. t.data[Here(t)] \in Seq(Symbol) /\ t.current_char \in Nat
        BY <1>1, <1>4, <3>1
      <4>2. t.current_char # 0
        BY <1>4
      <4> QED
        BY <4>1, <4>2, EraseTyped
    <3>3. erased \in Seq(Seq(Symbol)) /\ Len(erased) = Len(moved.data)
      BY <1>1, <2>3, <2>4, <3>1, <3>2
    <3>4. Backspace(t) = [moved EXCEPT !.data = erased]
      BY <1>4, <2>1, <2>2, <2>3, <2>7, <2>a DEF Backspace
    <3>5. PICK u : u = [moved EXCEPT !.data = erased]
      OBVIOUS
    <3>6. /\ u \in Term /\ u.data = erased /\ u.current_line = moved.current_line
          /\ u.undefined = moved.undefined /\ u.strayed = moved.strayed
      BY <2>4, <3>3, <3>5 DEF Term
    <3>7. Sound(u)
      BY <2>5, <3>3, <3>6, SoundStays
    <3> QED
      BY <3>4, <3>5, <3>7
  <2> QED
    BY <2>6, <2>7 DEF Screen
<1> QED
  BY <1>2, <1>3, <1>4

(* blanked of the definition of Blanked.                                     *)
BlankedUpTo(blanked, t, start, count) ==
    blanked = [n \in 0 .. count |->
                  IF n = 0 THEN t
                  ELSE add_letter([blanked[n - 1] EXCEPT !.current_char = start + n - 1], "blank")]

(* Writing blanks with ESC [ K is a chain of add_letter as well.             *)
LEMMA BlankedSound ==
    ASSUME Screen, NEW t, Sound(t), NEW start \in Nat, NEW end \in Nat
    PROVE  Sound(Blanked(t, start, end))
<1> DEFINE X == {u \in Term : Sound(u)}
           at(n, u) == add_letter([u EXCEPT !.current_char = start + n - 1], "blank")
<1>0. PICK N \in Nat : N = Most(0, end - start)
  <2>1. Most(0, end - start) \in Nat
    BY DEF Most
  <2> QED
    BY <2>1
<1> DEFINE step == [n \in 1 .. N |-> [u \in X |-> at(n, u)]]
           f == CHOOSE h : BlankedUpTo(h, t, start, N)
<1>1. t \in X
  BY DEF Sound
<1>2. ASSUME NEW n \in 1 .. N, NEW u \in X PROVE at(n, u) \in X
  <2>1. PICK c \in Nat : c = start + n - 1
    OBVIOUS
  <2>2. PICK v : v = [u EXCEPT !.current_char = c]
    OBVIOUS
  <2>3. /\ v \in Term /\ v.data = u.data /\ v.current_line = u.current_line
        /\ v.undefined = u.undefined /\ v.strayed = u.strayed
    BY <2>2 DEF Term
  <2>4. Sound(u)
    OBVIOUS
  <2>5. Sound(v)
    BY <2>3, <2>4, SoundStays
  <2>6. "blank" \in Symbol
    BY DEF Symbol
  <2>7. Sound(add_letter(v, "blank"))
    BY <2>5, <2>6, LetterSound
  <2> QED
    BY <2>1, <2>2, <2>7 DEF Sound
<1> HIDE DEF X, at
<1>3. step \in [1 .. N -> [X -> X]]
  BY <1>2
<1>4. \A n \in 1 .. N, u \in X : step[n][u] = at(n, u)
  OBVIOUS
<1> HIDE DEF step
<1>5. PICK g \in [0 .. N -> X] : StepsFrom(g, t, step, N)
  BY <1>1, <1>3, Recursion
<1>6. ASSUME NEW n \in 0 .. N PROVE g[n] = IF n = 0 THEN t ELSE at(n, g[n - 1])
  <2>1. n # 0 => n \in 1 .. N /\ n - 1 \in 0 .. N
    OBVIOUS
  <2> QED
    BY <1>4, <1>5, <2>1 DEF StepsFrom
<1>7. BlankedUpTo(g, t, start, N)
  <2>1. g = [n \in 0 .. N |-> IF n = 0 THEN t ELSE at(n, g[n - 1])]
    BY <1>6
  <2> QED
    BY <2>1 DEF BlankedUpTo, at
<1>8. BlankedUpTo(f, t, start, N)
  BY <1>7
<1>9. Blanked(t, start, end) = [f[N] EXCEPT !.current_char = t.current_char]
  BY <1>0 DEF Blanked, BlankedUpTo
<1> HIDE DEF f
<1>a. ASSUME NEW n \in 0 .. N PROVE f[n] = IF n = 0 THEN t ELSE at(n, f[n - 1])
  BY <1>8 DEF BlankedUpTo, at
<1> DEFINE T == {n \in 0 .. N : f[n] \in X}
<1>b. 0 \in T
  BY <1>1, <1>a
<1>c. ASSUME NEW n \in 1 .. N, n - 1 \in T PROVE n \in T
  <2>1. n \in 0 .. N /\ n # 0 /\ f[n - 1] \in X
    BY <1>c
  <2> QED
    BY <1>2, <1>a, <2>1
<1>d. f[N] \in X
  <2>1. \A n \in 0 .. N : n \in T
    <3> HIDE DEF T
    <3> QED
      BY <1>b, <1>c, InductionUpTo
  <2> QED
    BY <2>1
<1>e. PICK u : u = f[N]
  OBVIOUS
<1>f. u \in Term /\ Sound(u) /\ t.current_char \in Nat
  BY <1>1, <1>d, <1>e DEF X, Term
<1>g. PICK v : v = [u EXCEPT !.current_char = t.current_char]
  OBVIOUS
<1>h. /\ v \in Term /\ v.data = u.data /\ v.current_line = u.current_line
      /\ v.undefined = u.undefined /\ v.strayed = u.strayed
  BY <1>f, <1>g DEF Term
<1>i. Sound(v)
  BY <1>f, <1>h, SoundStays
<1> QED
  BY <1>9, <1>e, <1>g, <1>i

(* A sum, from base on.                                                      *)
SumUpTo(f, base, w, N) ==
    f = [n \in 0 .. N |-> IF n = 0 THEN base ELSE f[n - 1] + w[n]]

(* Counting the rows line by line has a solution.                            *)
LEMMA SumExists ==
    ASSUME NEW N \in Nat, NEW base \in Nat, NEW w \in [1 .. N -> Nat]
    PROVE  \E f : SumUpTo(f, base, w, N)
<1> DEFINE X == Nat
           step == [n \in 1 .. N |-> [u \in X |-> u + w[n]]]
<1>1. step \in [1 .. N -> [X -> X]] /\ base \in X
  OBVIOUS
<1>2. \A n \in 1 .. N, u \in X : step[n][u] = u + w[n]
  OBVIOUS
<1> HIDE DEF X, step
<1>3. PICK g \in [0 .. N -> X] : StepsFrom(g, base, step, N)
  BY <1>1, Recursion
<1>4. ASSUME NEW n \in 0 .. N PROVE g[n] = IF n = 0 THEN base ELSE g[n - 1] + w[n]
  <2>1. n # 0 => n \in 1 .. N /\ n - 1 \in 0 .. N
    OBVIOUS
  <2> QED
    BY <1>2, <1>3, <2>1 DEF StepsFrom
<1>5. g = [n \in 0 .. N |-> IF n = 0 THEN base ELSE g[n - 1] + w[n]]
  BY <1>4
<1> QED
  BY <1>5 DEF SumUpTo

Sums(f, base, w, N) ==
    /\ f \in [0 .. N -> Nat]
    /\ f[0] = base
    /\ \A n \in 1 .. N : f[n] = f[n - 1] + w[n]

(* The counts are numbers, each the one before plus a line's.                *)
LEMMA SumTyped ==
    ASSUME NEW N \in Nat, NEW base \in Nat, NEW w \in [1 .. N -> Nat],
           NEW f, SumUpTo(f, base, w, N)
    PROVE  Sums(f, base, w, N)
<1>1. ASSUME NEW n \in 0 .. N PROVE f[n] = IF n = 0 THEN base ELSE f[n - 1] + w[n]
  BY DEF SumUpTo
<1> DEFINE T == {n \in 0 .. N : f[n] \in Nat}
<1>2. 0 \in T
  BY <1>1
<1>3. ASSUME NEW n \in 1 .. N, n - 1 \in T PROVE n \in T
  <2>1. n \in 0 .. N /\ n # 0 /\ f[n - 1] \in Nat /\ w[n] \in Nat
    BY <1>3
  <2>2. f[n] = f[n - 1] + w[n]
    BY <1>1, <2>1
  <2> QED
    BY <2>1, <2>2
<1>4. \A n \in 0 .. N : n \in T
  <2> HIDE DEF T
  <2> QED
    BY <1>2, <1>3, InductionUpTo
<1>5. f = [n \in 0 .. N |-> f[n]]
  BY DEF SumUpTo
<1>6. f \in [0 .. N -> Nat]
  BY <1>4, <1>5
<1>7. ASSUME NEW n \in 1 .. N PROVE f[n] = f[n - 1] + w[n]
  <2>1. n \in 0 .. N /\ n # 0
    OBVIOUS
  <2> QED
    BY <1>1, <2>1
<1> QED
  BY <1>1, <1>6, <1>7 DEF Sums

(* A sum is at most one with larger terms.                                   *)
LEMMA SumGrows ==
    ASSUME NEW N \in Nat, NEW base \in Nat, NEW v \in [1 .. N -> Nat], NEW w \in [1 .. N -> Nat],
           \A n \in 1 .. N : v[n] <= w[n],
           NEW f, Sums(f, base, v, N), NEW g, Sums(g, base, w, N)
    PROVE  f[N] <= g[N]
<1> DEFINE T == {n \in 0 .. N : f[n] <= g[n]}
<1>1. 0 \in T
  BY DEF Sums
<1>2. ASSUME NEW n \in 1 .. N, n - 1 \in T PROVE n \in T
  <2>1. /\ n \in 0 .. N /\ n - 1 \in 0 .. N /\ f[n - 1] <= g[n - 1]
        /\ v[n] \in Nat /\ w[n] \in Nat /\ v[n] <= w[n]
    BY <1>2
  <2>2. /\ f[n - 1] \in Nat /\ g[n - 1] \in Nat
        /\ f[n] = f[n - 1] + v[n] /\ g[n] = g[n - 1] + w[n]
    BY <2>1 DEF Sums
  <2> QED
    BY <2>1, <2>2
<1>3. \A n \in 0 .. N : n \in T
  <2> HIDE DEF T
  <2> QED
    BY <1>1, <1>2, InductionUpTo
<1> QED
  BY <1>3

(* A line wraps a number of times.                                           *)
LEMMA WrapsTyped ==
    ASSUME NEW n \in Nat, NEW width \in Nat
    PROVE  Wraps(n, width) \in Nat
<1>1. CASE n = 0
  BY <1>1 DEF Wraps
<1>2. CASE n # 0
  <2>1. (n - 1) \div (width + 1) \in Nat
    BY <1>2, Z3
  <2> QED
    BY <1>2, <2>1 DEF Wraps
<1> QED
  BY <1>1, <1>2

(* How often each line wraps.                                                *)
WrapsOf(data, width) == [n \in 1 .. Len(data) |-> Wraps(Len(data[n]), width)]

(* count of the definition of Recounted.                                     *)
CountUpTo(count, data, width) ==
    count = [n \in 0 .. Len(data) |->
                IF n = 0 THEN Len(data) ELSE count[n - 1] + Wraps(Len(data[n]), width)]

(* line_recount sets the lines plus the wraps of each.                       *)
LEMMA Recounts ==
    ASSUME NEW t, NEW width \in Nat, t.data \in Seq(Seq(Symbol))
    PROVE  /\ WrapsOf(t.data, width) \in [1 .. Len(t.data) -> Nat]
           /\ \E f : /\ Sums(f, Len(t.data), WrapsOf(t.data, width), Len(t.data))
                     /\ Recounted(t, width) = [t EXCEPT !.line_wrap_count = f[Len(t.data)]]
<1> DEFINE N == Len(t.data)
           w == WrapsOf(t.data, width)
           f == CHOOSE h : CountUpTo(h, t.data, width)
<1>1. N \in Nat /\ \A n \in 1 .. N : Len(t.data[n]) \in Nat
  OBVIOUS
<1>2. w \in [1 .. N -> Nat]
  BY <1>1, WrapsTyped DEF WrapsOf
<1>3. ASSUME NEW h PROVE CountUpTo(h, t.data, width) <=> SumUpTo(h, N, w, N)
  <2>1. [n \in 0 .. N |-> IF n = 0 THEN N ELSE h[n - 1] + Wraps(Len(t.data[n]), width)]
          = [n \in 0 .. N |-> IF n = 0 THEN N ELSE h[n - 1] + w[n]]
    <3>1. \A n \in 0 .. N : n # 0 => w[n] = Wraps(Len(t.data[n]), width)
      BY <1>1 DEF WrapsOf
    <3> HIDE DEF w
    <3> QED
      BY <3>1
  <2> QED
    BY <2>1 DEF CountUpTo, SumUpTo
<1>4. \E h : CountUpTo(h, t.data, width)
  <2>1. PICK h : SumUpTo(h, N, w, N)
    <3> HIDE DEF N, w
    <3> QED
      BY <1>1, <1>2, SumExists
  <2> QED
    BY <1>3, <2>1
<1>5. CountUpTo(f, t.data, width)
  BY <1>4
<1>6. Recounted(t, width) = [t EXCEPT !.line_wrap_count = f[N]]
  BY DEF Recounted, CountUpTo
<1> HIDE DEF f
<1>7. Sums(f, N, w, N)
  <2>1. SumUpTo(f, N, w, N)
    BY <1>3, <1>5
  <2> HIDE DEF N, w
  <2> QED
    BY <1>1, <1>2, <2>1, SumTyped
<1> QED
  BY <1>2, <1>6, <1>7

(* It changes nothing else.                                                  *)
LEMMA RecountedSound ==
    ASSUME Screen, NEW t, Sound(t), NEW width \in Nat
    PROVE  Sound(Recounted(t, width)) /\ Recounted(t, width).data = t.data
<1>1. t \in Term /\ t.data \in Seq(Seq(Symbol)) /\ Len(t.data) \in Nat
  BY DEF Sound, Term
<1>2. PICK f : /\ Sums(f, Len(t.data), WrapsOf(t.data, width), Len(t.data))
               /\ Recounted(t, width) = [t EXCEPT !.line_wrap_count = f[Len(t.data)]]
  BY <1>1, Recounts
<1>3. PICK count \in Nat : count = f[Len(t.data)]
  BY <1>1, <1>2 DEF Sums
<1>4. PICK u : u = [t EXCEPT !.line_wrap_count = count]
  OBVIOUS
<1>5. /\ u \in Term /\ u.data = t.data /\ u.current_line = t.current_line
      /\ u.undefined = t.undefined /\ u.strayed = t.strayed
  BY <1>1, <1>4 DEF Term
<1>6. Sound(u)
  BY <1>5, SoundStays
<1> QED
  BY <1>2, <1>3, <1>4, <1>5, <1>6

(* A symbol repeated is a sequence of symbols.                               *)
LEMMA TimesTyped ==
    ASSUME NEW n \in Nat, NEW symbol \in Symbol
    PROVE  Times(n, symbol) \in Seq(Symbol)
  BY DEF Times

(* A sequence has a length.                                                  *)
LEMMA BytesTyped ==
    ASSUME NEW c
    PROVE  Bytes(c) \in Nat
  BY DEF Bytes

(* A sequence that is obeyed leaves the cursor on a line, or says it         *)
(* strayed.                                                                  *)
LEMMA ParseSound ==
    ASSUME Screen, type = "linux", NEW t, Sound(t), ~t.undefined,
           NEW c, Sendable(c), c[1] \notin Plain \cup {"BS", "7"}
    PROVE  Sound(parse_buffer(t, c))
<1>1. /\ t \in Term /\ Len(t.data) > 0 /\ t.data \in Seq(Seq(Symbol))
      /\ t.current_line \in Nat /\ t.current_char \in Nat /\ Len(t.data) \in Nat
      /\ t.strayed \in BOOLEAN
  BY DEF Sound, Term
<1>2. columns \in Nat /\ columns # 0 /\ Rows \in Nat /\ Rows # 0
  BY DEF Screen
<1>3. c[1] \in {"A", "B", "C", "D", "Home", "H", "J", "K"}
  BY DEF Sendable, IsCharacter, Plain, Moves
<1>4. c[1] \in {"A", "B", "C", "D", "H", "K"} => c[2] \in Nat
  BY DEF Sendable, IsCharacter, Moves
<1>5. ASSUME NEW line \in Nat, NEW column \in Nat, NEW b \in BOOLEAN,
             b = TRUE \/ line < Len(t.data), b = TRUE => Jumps,
             NEW u, u = [t EXCEPT !.current_line = line, !.current_char = column, !.strayed = b]
      PROVE  Sound(u)
  <2>1. u \in Term
    BY <1>1, <1>5 DEF Term
  <2>2. /\ u.data = t.data /\ u.current_line = line
        /\ u.undefined = t.undefined /\ u.strayed = b
    BY <1>1, <1>5 DEF Term
  <2> QED
    BY <1>1, <1>5, <2>1, <2>2 DEF Sound
<1>6. ASSUME NEW column \in Nat
      PROVE  Sound([t EXCEPT !.current_char = column])
  <2>1. PICK u : u = [t EXCEPT !.current_char = column]
    OBVIOUS
  <2>2. /\ u \in Term /\ u.data = t.data /\ u.current_line = t.current_line
        /\ u.undefined = t.undefined /\ u.strayed = t.strayed
    BY <1>1, <2>1 DEF Term
  <2>3. Sound(u)
    BY <2>2, SoundStays
  <2> QED
    BY <2>1, <2>3
<1>7. CASE c[1] = "Home"
  <2>1. PICK line \in Nat, b \in BOOLEAN : line = 0 /\ b = FALSE
    OBVIOUS
  <2>2. PICK u : u = [t EXCEPT !.current_line = line, !.current_char = line, !.strayed = b]
    OBVIOUS
  <2>3. parse_buffer(t, c) = u
    BY <1>7, <2>1, <2>2 DEF parse_buffer
  <2>4. Sound(u)
    BY <1>1, <1>5, <2>1, <2>2
  <2> QED
    BY <2>3, <2>4
<1>8. CASE c[1] = "H"
  <2>1. c[2] \in Nat /\ c[3] \in Nat
    BY <1>8 DEF Sendable, IsCharacter
  <2>2. PICK line \in Nat : line = Most(c[2] - 1, 0)
    <3>1. Most(c[2] - 1, 0) \in Nat
      BY <2>1 DEF Most
    <3> QED
      BY <3>1
  <2>3. PICK column \in Nat : column = Most(c[3] - 1, 0)
    <3>1. Most(c[3] - 1, 0) \in Nat
      BY <2>1 DEF Most
    <3> QED
      BY <3>1
  <2>4. PICK b : b \in BOOLEAN /\ b = (c[2] > 1)
    <3>1. (c[2] > 1) \in BOOLEAN
      BY <2>1
    <3> QED
      BY <3>1, Zenon
  <2>a. b = TRUE => Jumps
    BY <1>8, <2>4, Zenon DEF Sendable, Jump
  <2>5. b = TRUE \/ line < Len(t.data)
    <3>1. c[2] > 1 \/ line < Len(t.data)
      BY <1>1, <2>1, <2>2 DEF Most
    <3>2. c[2] > 1 => b = TRUE
      BY <2>4, Zenon
    <3> QED
      BY <3>1, <3>2
  <2>6. PICK u : u = [t EXCEPT !.current_line = line, !.current_char = column, !.strayed = b]
    OBVIOUS
  <2>7. parse_buffer(t, c) = u
    BY <1>8, <2>2, <2>3, <2>4, <2>6, Zenon DEF parse_buffer
  <2>8. Sound(u)
    BY <1>5, <2>4, <2>5, <2>6, <2>a
  <2> QED
    BY <2>7, <2>8
<1>9. CASE c[1] = "J"
  <2>1. PICK b : b \in BOOLEAN /\ b = (t.current_line > 0)
    <3>1. (t.current_line > 0) \in BOOLEAN
      BY <1>1
    <3> QED
      BY <3>1, Zenon
  <2>2. PICK data : data \in Seq(Seq(Symbol)) /\ Len(data) = 1 /\ data = << <<>> >>
    <3>1. << <<>> >> \in Seq(Seq(Symbol)) /\ Len(<< <<>> >>) = 1
      OBVIOUS
    <3> QED
      BY <3>1, Zenon
  <2>3. PICK u : u = [t EXCEPT !.data = data, !.strayed = b]
    OBVIOUS
  <2>4. u \in Term
    BY <1>1, <2>1, <2>2, <2>3 DEF Term
  <2>5. /\ Len(u.data) = 1 /\ u.current_line = t.current_line
        /\ u.undefined = t.undefined /\ u.strayed = b
    BY <1>1, <2>1, <2>2, <2>3 DEF Term
  <2>6. Sound(u)
    <3>1. b = TRUE \/ u.current_line < Len(u.data)
      <4>1. t.current_line > 0 \/ u.current_line < Len(u.data)
        BY <1>1, <2>5
      <4>2. t.current_line > 0 => b = TRUE
        BY <2>1, Zenon
      <4> QED
        BY <4>1, <4>2
    <3>2. Jumps
      BY <1>9, Zenon DEF Sendable, Jump
    <3> QED
      BY <2>1, <2>4, <2>5, <3>1, <3>2 DEF Sound
  <2>7. Sound(Recounted(u, columns))
    BY <1>2, <2>6, RecountedSound
  <2>8. parse_buffer(t, c) = Recounted(u, columns)
    BY <1>9, <2>1, <2>2, <2>3, Zenon DEF parse_buffer
  <2> QED
    BY <2>7, <2>8
<1>a. CASE c[1] = "K"
  <2>1. PICK start \in Nat : start = IF c[2] = 0 THEN t.current_char ELSE 0
    BY <1>1
  <2>2. PICK end \in Nat : end = IF c[2] = 1 THEN t.current_char ELSE columns
    BY <1>1, <1>2
  <2>3. Sound(Blanked(t, start, end))
    BY BlankedSound
  <2>4. parse_buffer(t, c) = Blanked(t, start, end)
    BY <1>a, <2>1, <2>2 DEF parse_buffer
  <2> QED
    BY <2>3, <2>4
<1>b. CASE c[1] = "D"
  <2>1. PICK column \in Nat : column = Left(t, c[2])
    <3>1. Left(t, c[2]) \in Nat
      BY <1>1, <1>4, <1>b DEF Left, Most
    <3> QED
      BY <3>1
  <2>2. parse_buffer(t, c) = [t EXCEPT !.current_char = column]
    BY <1>b, <2>1 DEF parse_buffer
  <2> QED
    BY <1>6, <2>2
<1>c. CASE c[1] = "C"
  <2>1. PICK column \in Nat : column = Least(t.current_char + c[2], columns)
    <3>1. Least(t.current_char + c[2], columns) \in Nat
      BY <1>1, <1>2, <1>4, <1>c DEF Least
    <3> QED
      BY <3>1
  <2>2. parse_buffer(t, c) = [t EXCEPT !.current_char = column]
    BY <1>c, <2>1 DEF parse_buffer
  <2> QED
    BY <1>6, <2>2
<1>d. CASE c[1] = "A"
  <2>1. PICK line \in Nat : line = Most(t.current_line - c[2], Most(Len(t.data) - Rows, 0))
    <3>1. PICK top \in Nat : top = Most(Len(t.data) - Rows, 0)
      <4>1. Most(Len(t.data) - Rows, 0) \in Nat
        BY <1>1, <1>2 DEF Most
      <4> QED
        BY <4>1
    <3>2. Most(t.current_line - c[2], top) \in Nat
      BY <1>1, <1>4, <1>d, <3>1 DEF Most
    <3> QED
      BY <3>1, <3>2
  <2>2. t.strayed \/ line < Len(t.data)
    <3>1. t.strayed \/ t.current_line < Len(t.data)
      BY DEF Sound
    <3>2. CASE t.current_line < Len(t.data)
      <4>1. PICK here \in Nat, up \in Nat, all \in Nat, rows \in Nat :
               here = t.current_line /\ up = c[2] /\ all = Len(t.data) /\ rows = Rows
        BY <1>1, <1>2, <1>4, <1>d
      <4>2. rows # 0 /\ here < all
        BY <1>2, <3>2, <4>1
      <4>3. Most(here - up, Most(all - rows, 0)) < all
        BY <4>2 DEF Most
      <4> QED
        BY <2>1, <4>1, <4>3
    <3> QED
      BY <3>1, <3>2
  <2>3. PICK b \in BOOLEAN : b = t.strayed
    BY <1>1
  <2>4. PICK u :
          u = [t EXCEPT !.current_line = line, !.current_char = t.current_char, !.strayed = b]
    OBVIOUS
  <2>5. parse_buffer(t, c) = u
    <3>1. parse_buffer(t, c) = [t EXCEPT !.current_line = line]
      BY <1>d, <2>1 DEF parse_buffer
    <3> QED
      BY <1>1, <2>3, <2>4, <3>1 DEF Term
  <2>a. b = TRUE => Jumps
    BY <2>3 DEF Sound
  <2>6. Sound(u)
    BY <1>1, <1>5, <2>2, <2>3, <2>4, <2>a
  <2> QED
    BY <2>5, <2>6
<1>e. CASE c[1] = "B"
  <2>1. PICK line \in Nat : line = Least(t.current_line + c[2], Most(Len(t.data), Rows))
    <3>1. Least(t.current_line + c[2], Most(Len(t.data), Rows)) \in Nat
      BY <1>1, <1>2, <1>4, <1>e DEF Least, Most
    <3> QED
      BY <3>1
  <2>2. PICK b \in BOOLEAN : b = TRUE
    OBVIOUS
  <2>3. PICK u :
          u = [t EXCEPT !.current_line = line, !.current_char = t.current_char, !.strayed = b]
    OBVIOUS
  <2>4. parse_buffer(t, c) = u
    <3>1. parse_buffer(t, c) = [t EXCEPT !.current_line = line, !.strayed = b]
      BY <1>e, <2>1, <2>2 DEF parse_buffer
    <3> QED
      BY <1>1, <2>3, <3>1 DEF Term
  <2>a. Jumps
    BY <1>e, Zenon DEF Sendable, Jump
  <2>5. Sound(u)
    BY <1>1, <1>5, <2>2, <2>3, <2>a
  <2> QED
    BY <2>4, <2>5
<1> QED
  BY <1>3, <1>7, <1>8, <1>9, <1>a, <1>b, <1>c, <1>d, <1>e

(* Holding bytes back leaves the lines alone.                                *)
LEMMA BufferSound ==
    ASSUME NEW t, Sound(t), NEW buffer \in Buffers
    PROVE  Sound([t EXCEPT !.command_buffer = buffer])
<1>1. t \in Term
  BY DEF Sound
<1>2. PICK u : u = [t EXCEPT !.command_buffer = buffer]
  OBVIOUS
<1>3. /\ u \in Term /\ u.data = t.data /\ u.current_line = t.current_line
      /\ u.undefined = t.undefined /\ u.strayed = t.strayed
  BY <1>1, <1>2 DEF Term
<1>4. Sound(u)
  BY <1>3, SoundStays
<1> QED
  BY <1>2, <1>4

(* What is held are characters of two bytes, or an ESC alone.                *)
LEMMA BufferKinds ==
    ASSUME NEW buffer \in Buffers
    PROVE  /\ buffer \in Seq({"w", "ESC"})
           /\ buffer # <<"ESC">> => buffer \in Seq({"w"}) /\ buffer \in Seq(Symbol)
           /\ <<>> \in Buffers /\ <<"ESC">> \in Buffers
<1>1. <<>> \in Seq({"w"}) /\ <<"ESC">> \in Seq({"w", "ESC"})
  OBVIOUS
<1>2. ASSUME buffer \in Seq({"w"}) PROVE buffer \in Seq({"w", "ESC"})
  BY <1>2
<1>3. ASSUME buffer \in Seq({"w"}) PROVE buffer \in Seq(Symbol)
  <2>1. "w" \in Symbol
    BY DEF Symbol
  <2> QED
    BY <1>3, <2>1
<1>4. buffer \in Seq({"w"}) \/ buffer = <<"ESC">>
  BY Zenon DEF Buffers
<1> QED
  BY <1>1, <1>2, <1>3, <1>4, Zenon DEF Buffers

(* A carriage return stays on the line.                                      *)
LEMMA CarriageSound ==
    ASSUME NEW t, Sound(t)
    PROVE  Sound([t EXCEPT !.current_char = 0])
<1>1. t \in Term
  BY DEF Sound
<1>2. PICK u : u = [t EXCEPT !.current_char = 0]
  OBVIOUS
<1>3. /\ u \in Term /\ u.data = t.data /\ u.current_line = t.current_line
      /\ u.undefined = t.undefined /\ u.strayed = t.strayed
  BY <1>1, <1>2 DEF Term
<1>4. Sound(u)
  BY <1>3, SoundStays
<1> QED
  BY <1>2, <1>4

(* One character of Dumb::add_text.                                          *)
LEMMA DumbSound ==
    ASSUME Screen, NEW t, Sound(t), NEW c
    PROVE  Sound(Dumb(t, c))
<1>1. "x" \in Symbol /\ "s" \in Symbol /\ "byte" \in Symbol
  BY DEF Symbol
<1>2. <<"byte", "byte">> \in Seq(Symbol) /\ Times(Bytes(c), "s") \in Seq(Symbol)
  BY <1>1, BytesTyped, TimesTyped
<1>3. /\ Sound(NewLine(t)) /\ Sound([t EXCEPT !.current_char = 0]) /\ Sound(Backspace(t))
      /\ Sound(add_letter(t, "x")) /\ Sound(AddAll(t, <<"byte", "byte">>))
      /\ Sound(AddAll(t, Times(Bytes(c), "s")))
  BY <1>1, <1>2, NewLineSound, CarriageSound, BackspaceSound, LetterSound, AllSound
<1> QED
  BY <1>3, Zenon DEF Dumb

(* Showing what was held together with what ended it.                        *)
LEMMA ShowSound ==
    ASSUME Screen, NEW t, Sound(t), t.command_buffer # <<"ESC">>, NEW symbols \in Seq(Symbol)
    PROVE  Sound(Show(t, symbols))
<1>1. t.command_buffer \in Buffers
  BY DEF Sound, Term
<1>2. Held(t) \in Seq(Symbol)
  BY <1>1, BufferKinds DEF Held
<1>3. Held(t) \o symbols \in Seq(Symbol)
  BY <1>2
<1>4. Sound(AddAll(t, Held(t) \o symbols))
  BY <1>3, AllSound
<1>5. <<>> \in Buffers
  BY <1>1, BufferKinds
<1> QED
  BY <1>4, <1>5, BufferSound, Zenon DEF Show

(* One character of Linux::add_text.                                         *)
LEMMA LinuxSound ==
    ASSUME Screen, type = "linux", NEW t, Sound(t), ~t.undefined, NEW c, Sendable(c)
    PROVE  Sound(Linux(t, c))
<1>1. t.command_buffer \in Buffers
  BY DEF Sound, Term
<1>2. <<>> \in Buffers /\ <<"ESC">> \in Buffers
  BY <1>1, BufferKinds
<1>3. CASE t.command_buffer = <<"ESC">>
  <2>1. Sound(Swallowed(t, c))
    BY <1>2, BufferSound, Zenon DEF Swallowed
  <2> QED
    BY <1>3, <2>1, Zenon DEF Linux
<1>4. CASE t.command_buffer # <<"ESC">>
  <2>1. Append(t.command_buffer, "w") \in Buffers
    <3>1. t.command_buffer \in Seq({"w"})
      BY <1>1, <1>4, BufferKinds
    <3>2. Append(t.command_buffer, "w") \in Seq({"w"})
      BY <3>1
    <3> QED
      BY <3>2, Zenon DEF Buffers
  <2>2. Sound(Show(t, <<"x">>)) /\ Sound(Show(t, Times(Bytes(c), "s")))
    <3>1. <<"x">> \in Seq(Symbol) /\ Times(Bytes(c), "s") \in Seq(Symbol)
      <4>1. "x" \in Symbol /\ "s" \in Symbol
        BY DEF Symbol
      <4> QED
        BY <4>1, BytesTyped, TimesTyped
    <3> QED
      BY <1>4, <3>1, ShowSound
  <2>3. /\ Sound([t EXCEPT !.command_buffer = Append(t.command_buffer, "w")])
        /\ Sound(NewLine(t)) /\ Sound([t EXCEPT !.current_char = 0]) /\ Sound(Backspace(t))
        /\ Sound([t EXCEPT !.command_buffer = <<"ESC">>])
    BY <1>2, <2>1, BufferSound, NewLineSound, CarriageSound, BackspaceSound
  <2>4. c[1] \notin {"w", "x", "NL", "CR", "BS"} => Sound(Sequence(t, c))
    <3> SUFFICES ASSUME c[1] \notin {"w", "x", "NL", "CR", "BS"} PROVE Sound(Sequence(t, c))
      OBVIOUS
    <3>1. c[1] # "7" => Sound(parse_buffer(t, c))
      <4>1. c[1] # "7" => c[1] \notin Plain \cup {"BS", "7"}
        BY DEF Plain
      <4> QED
        BY <4>1, ParseSound
    <3> QED
      BY <2>2, <2>3, <3>1, Zenon DEF Sequence
  <2>5. CASE c[1] \in {"w", "x", "NL", "CR", "BS"}
    BY <1>4, <2>2, <2>3, <2>5, Zenon DEF Linux
  <2>6. CASE c[1] \notin {"w", "x", "NL", "CR", "BS"}
    <3>1. Linux(t, c) = Sequence(t, c)
      BY <1>4, <2>6, Zenon DEF Linux
    <3> QED
      BY <2>4, <2>6, <3>1
  <2> QED
    BY <2>5, <2>6
<1> QED
  BY <1>3, <1>4

(* One character of a text.                                                  *)
OneMore(t, c) ==
    IF t.undefined THEN t ELSE IF type = "dumb" THEN Dumb(t, c) ELSE Linux(t, c)

(* One character of a text, on either terminal.                              *)
LEMMA OneMoreSound ==
    ASSUME Screen, NEW t, Sound(t), NEW c, Sendable(c)
    PROVE  Sound(OneMore(t, c))
<1>1. ~t.undefined /\ type # "dumb" => Sound(Linux(t, c))
  BY LinuxSound DEF Screen
<1>2. Sound(Dumb(t, c))
  BY DumbSound
<1> QED
  BY <1>1, <1>2, Zenon DEF OneMore

(* added of the definition of Added, in other words.                         *)
AddedUpTo(added, text) ==
    added = [n \in 0 .. Len(text) |->
                IF n = 0 THEN [term EXCEPT !.lines_added = FALSE]
                ELSE IF added[n - 1].undefined THEN added[n - 1]
                ELSE IF type = "dumb" THEN Dumb(added[n - 1], text[n])
                                      ELSE Linux(added[n - 1], text[n])]

Steps(g, text) ==
    /\ g[0] = [term EXCEPT !.lines_added = FALSE]
    /\ \A n \in 0 .. Len(text) : Sound(g[n])
    /\ \A n \in 1 .. Len(text) : g[n] = OneMore(g[n - 1], text[n])

(* The loop of add_text is a chain of single characters.                     *)
LEMMA AddedSteps ==
    ASSUME Screen, Sound(term), NEW text, Len(text) \in Nat,
           \A n \in 1 .. Len(text) : Sendable(text[n])
    PROVE  \E g : Steps(g, text) /\ Added(text) = g[Len(text)]
<1> DEFINE N == Len(text)
           X == {u \in Term : Sound(u)}
           step == [n \in 1 .. N |-> [u \in X |-> OneMore(u, text[n])]]
           f == CHOOSE h : AddedUpTo(h, text)
<1>1. PICK t : t = [term EXCEPT !.lines_added = FALSE]
  OBVIOUS
<1>2. t \in X
  <2>1. term \in Term
    BY DEF Sound
  <2>2. /\ t \in Term /\ t.data = term.data /\ t.current_line = term.current_line
        /\ t.undefined = term.undefined /\ t.strayed = term.strayed
    BY <1>1, <2>1 DEF Term
  <2>3. Sound(t)
    BY <2>2, SoundStays
  <2> QED
    BY <2>2, <2>3
<1>3. ASSUME NEW n \in 1 .. N, NEW u \in X PROVE OneMore(u, text[n]) \in X
  <2>1. Sound(OneMore(u, text[n]))
    BY OneMoreSound
  <2> QED
    BY <2>1 DEF Sound
<1>4. N \in Nat
  OBVIOUS
<1> HIDE DEF X, N
<1>5. step \in [1 .. N -> [X -> X]]
  BY <1>3
<1>6. \A n \in 1 .. N, u \in X : step[n][u] = OneMore(u, text[n])
  OBVIOUS
<1> HIDE DEF step
<1>7. PICK g \in [0 .. N -> X] : StepsFrom(g, t, step, N)
  BY <1>2, <1>4, <1>5, Recursion
<1>8. ASSUME NEW h
      PROVE  AddedUpTo(h, text)
               <=> h = [n \in 0 .. N |-> IF n = 0 THEN t ELSE OneMore(h[n - 1], text[n])]
  BY <1>1 DEF AddedUpTo, OneMore, N
<1>9. ASSUME NEW n \in 0 .. N PROVE g[n] = IF n = 0 THEN t ELSE OneMore(g[n - 1], text[n])
  <2>1. n # 0 => n \in 1 .. N /\ n - 1 \in 0 .. N
    BY <1>4
  <2> QED
    BY <1>6, <1>7, <2>1 DEF StepsFrom
<1>a. AddedUpTo(g, text)
  <2>1. g = [n \in 0 .. N |-> IF n = 0 THEN t ELSE OneMore(g[n - 1], text[n])]
    BY <1>9
  <2> QED
    BY <1>8, <2>1
<1>b. AddedUpTo(f, text)
  BY <1>a
<1>c. Added(text) = f[N]
  BY DEF Added, AddedUpTo, N
<1> HIDE DEF f
<1>d. ASSUME NEW n \in 0 .. N PROVE f[n] = IF n = 0 THEN t ELSE OneMore(f[n - 1], text[n])
  BY <1>8, <1>b
<1> DEFINE T == {n \in 0 .. N : f[n] \in X}
<1>e. 0 \in T
  <2>1. 0 \in 0 .. N
    BY <1>4
  <2> QED
    BY <1>2, <1>d, <2>1
<1>f. ASSUME NEW n \in 1 .. N, n - 1 \in T PROVE n \in T
  <2>1. n \in 0 .. N /\ n # 0 /\ f[n - 1] \in X
    BY <1>4, <1>f
  <2> QED
    BY <1>3, <1>d, <2>1
<1>g. \A n \in 0 .. N : f[n] \in X
  <2>1. \A n \in 0 .. N : n \in T
    <3> HIDE DEF T
    <3> QED
      BY <1>4, <1>e, <1>f, InductionUpTo
  <2> QED
    BY <2>1
<1>h. f[0] = t
  <2>1. 0 \in 0 .. N
    BY <1>4
  <2> QED
    BY <1>d, <2>1
<1>i. ASSUME NEW n \in 1 .. N PROVE f[n] = OneMore(f[n - 1], text[n])
  <2>1. n \in 0 .. N /\ n # 0
    BY <1>4
  <2> QED
    BY <1>d, <2>1
<1>j. Steps(f, text)
  BY <1>1, <1>g, <1>h, <1>i DEF Steps, X, N
<1> QED
  BY <1>c, <1>j DEF N

-------------------------------------------------------------------------------
Typed ==
    /\ type \in {"dumb", "linux"}
    /\ Sound(term)
    /\ columns \in Columns
    /\ sent \in 0 .. MaxTexts
    /\ written \in Seq(Symbol)
    /\ plain \in BOOLEAN
    /\ fresh \in BOOLEAN

(* The screen has a width.                                                   *)
LEMMA TypedScreen ==
    ASSUME Typed
    PROVE  Screen
  BY TerminalAssumption DEF Typed, Screen

(* A new terminal has one line and the cursor at its beginning.              *)
LEMMA TypedInit ==
    ASSUME Init
    PROVE  Typed
<1>1. PICK data : data \in Seq(Seq(Symbol)) /\ Len(data) = 1 /\ data = << <<>> >>
  <2>1. << <<>> >> \in Seq(Seq(Symbol)) /\ Len(<< <<>> >>) = 1
    OBVIOUS
  <2> QED
    BY <2>1, Zenon
<1>2. PICK buffer : buffer \in Buffers /\ buffer = <<>>
  <2>1. <<>> \in Seq({"w"})
    OBVIOUS
  <2> QED
    BY <2>1, Zenon DEF Buffers
<1>3. term = [data |-> data, current_line |-> 0, current_char |-> 0,
              command_buffer |-> buffer, line_wrap_count |-> 0,
              lines_added |-> FALSE, strayed |-> FALSE, undefined |-> FALSE]
  BY <1>1, <1>2, Zenon DEF Init
<1>4. Sound(term)
  BY <1>1, <1>2, <1>3 DEF Sound, Term
<1>5. <<>> \in Seq(Symbol)
  OBVIOUS
<1>6. /\ type \in {"dumb", "linux"} /\ columns \in Columns /\ sent = 0
      /\ written = <<>> /\ plain = TRUE /\ fresh = FALSE
  BY Zenon DEF Init
<1>7. sent \in 0 .. MaxTexts
  BY <1>6, TerminalAssumption
<1>8. written \in Seq(Symbol)
  BY <1>5, <1>6, Zenon
<1> QED
  BY <1>4, <1>6, <1>7, <1>8 DEF Typed

(* What a character leaves on a line is a sequence of symbols.               *)
LEMMA ShownTyped ==
    ASSUME NEW c
    PROVE  Shown(c) \in Seq(Symbol)
<1>1. "x" \in Symbol /\ "byte" \in Symbol /\ "w" \in Symbol
  BY DEF Symbol
<1>2. <<"x">> \in Seq(Symbol) /\ <<"byte", "byte">> \in Seq(Symbol) /\ <<"w">> \in Seq(Symbol)
      /\ <<>> \in Seq(Symbol)
  BY <1>1
<1>3. CASE c[1] = "x"
  BY <1>2, <1>3, Zenon DEF Shown
<1>4. CASE c[1] = "w"
  BY <1>2, <1>4, Zenon DEF Shown
<1>5. CASE c[1] \notin {"x", "w"}
  BY <1>2, <1>5, Zenon DEF Shown
<1> QED
  BY <1>3, <1>4, <1>5

(* And so is what a text leaves.                                             *)
LEMMA SymbolsTyped ==
    ASSUME NEW text, Len(text) \in Nat
    PROVE  /\ [n \in 1 .. Len(text) |-> Shown(text[n])] \in Seq(Seq(Symbol))
           /\ Symbols(text) \in Seq(Symbol)
<1>1. PICK S : S = Seq(Symbol)
  OBVIOUS
<1>2. [n \in 1 .. Len(text) |-> Shown(text[n])] \in Seq(S)
  <2>1. \A n \in 1 .. Len(text) : Shown(text[n]) \in S
    BY <1>1, ShownTyped
  <2> QED
    BY <2>1
<1>a. PICK shown : shown \in Seq(Seq(Symbol)) /\ shown = [n \in 1 .. Len(text) |-> Shown(text[n])]
  BY <1>1, <1>2, Zenon
<1>3. FlattenSeq(shown) \in Seq(Symbol)
  BY <1>a, Flat
<1> QED
  BY <1>a, <1>3, Zenon DEF Symbols

(* A state of the terminal that is sound is sound as the next one.           *)
LEMMA SoundNext ==
    ASSUME NEW u, Sound(u), term' = u, type' = type
    PROVE  Sound(term)'
  BY DEF Sound, Term

(* The characters of a text.                                                 *)
LEMMA Characters ==
    ASSUME NEW text \in Texts
    PROVE  Len(text) \in Nat /\ \A n \in 1 .. Len(text) : Sendable(text[n])
<1>1. Len(text) \in Nat /\ \A n \in 1 .. Len(text) : IsCharacter(text[n])
  BY TerminalAssumption
<1>2. \A n \in 1 .. Len(text) : Jump(text[n]) => Jumps
  BY Zenon DEF Jumps
<1> QED
  BY <1>1, <1>2, Zenon DEF Sendable

(* add_text leaves the terminal sound.                                       *)
LEMMA AddedSound ==
    ASSUME Screen, Sound(term), NEW text \in Texts
    PROVE  Sound(Added(text))
<1>1. Len(text) \in Nat /\ \A n \in 1 .. Len(text) : Sendable(text[n])
  BY Characters
<1>2. PICK g : Steps(g, text) /\ Added(text) = g[Len(text)]
  BY <1>1, AddedSteps
<1>3. Len(text) \in 0 .. Len(text)
  BY <1>1
<1> QED
  BY <1>2, <1>3 DEF Steps

(* A text and a new width preserve the invariant.                            *)
LEMMA TypedNext ==
    ASSUME Typed, [Next]_vars
    PROVE  Typed'
<1>1. Screen /\ Sound(term) /\ columns \in Nat
  BY TypedScreen DEF Typed, Screen
<1>2. ASSUME NEW text \in Texts, add_text(text) PROVE Typed'
  <2>1. Sound(Added(text))
    BY <1>1, AddedSound
  <2>2. Sound(Recounted(Added(text), columns))
    BY <1>1, <2>1, RecountedSound
  <2>3. PICK u : u = Added(text)
    OBVIOUS
  <2>4. /\ term' = IF u.lines_added THEN Recounted(u, columns) ELSE u
        /\ fresh' = \/ u.lines_added
                    \/ /\ fresh
                       /\ u.data = term.data
                       /\ u.line_wrap_count = term.line_wrap_count
        /\ sent < MaxTexts /\ sent' = sent + 1
        /\ type' = type /\ columns' = columns
        /\ plain' = (plain /\ IsPlain(text))
        /\ written' = IF plain' THEN written \o Symbols(text) ELSE <<>>
    BY <1>2, <2>3, Zenon DEF add_text
  <2>5. Sound(term)'
    <3>1. PICK v : term' = v /\ Sound(v)
      BY <2>1, <2>2, <2>3, <2>4, Zenon
    <3> QED
      BY <2>4, <3>1, SoundNext
  <2>6. fresh' \in BOOLEAN
    <3>1. u.lines_added \in BOOLEAN
      BY <2>1, <2>3 DEF Sound, Term
    <3> QED
      BY <2>4, <3>1, Zenon
  <2>7. written' \in Seq(Symbol)
    <3>1. Symbols(text) \in Seq(Symbol)
      BY Characters, SymbolsTyped
    <3>2. written \o Symbols(text) \in Seq(Symbol)
      BY <3>1 DEF Typed
    <3>3. <<>> \in Seq(Symbol)
      OBVIOUS
    <3> QED
      BY <2>4, <3>2, <3>3, Zenon
  <2>8. plain' \in BOOLEAN
    BY <2>4, Zenon
  <2>9. sent' \in 0 .. MaxTexts
    BY <2>4, TerminalAssumption DEF Typed
  <2> QED
    BY <2>4, <2>5, <2>6, <2>7, <2>8, <2>9 DEF Typed
<1>3. ASSUME NEW width \in Columns, Resize(width) PROVE Typed'
  <2>1. width \in Nat
    BY TerminalAssumption
  <2>2. Sound(Recounted(term, width))
    BY <1>1, <2>1, RecountedSound
  <2>3. /\ term' = Recounted(term, width) /\ columns' = width /\ fresh' = TRUE
        /\ type' = type /\ sent' = sent /\ written' = written /\ plain' = plain
    BY <1>3, Zenon DEF Resize
  <2>4. Sound(term)'
    BY <2>2, <2>3, SoundNext
  <2> QED
    BY <2>3, <2>4 DEF Typed
<1>4. ASSUME UNCHANGED vars PROVE Typed'
  <2>1. /\ term' = term /\ columns' = columns /\ fresh' = fresh
        /\ type' = type /\ sent' = sent /\ written' = written /\ plain' = plain
    BY <1>4, Zenon DEF vars
  <2>2. Sound(term)'
    BY <1>1, <2>1, SoundNext
  <2> QED
    BY <2>1, <2>2 DEF Typed
<1> QED
  BY <1>2, <1>3, <1>4, Zenon DEF Next

(* It implies the types, and that no missing line is used unless a sequence  *)
(* sent the cursor there.                                                    *)
LEMMA TypedTypeOK ==
    ASSUME Typed
    PROVE  TypeOK /\ StaysOnLines
<1>1. /\ term \in Term /\ Len(term.data) > 0 /\ term.data \in Seq(Seq(Symbol))
      /\ term.command_buffer \in Buffers /\ (term.undefined => term.strayed)
  BY DEF Typed, Sound, Term
<1>2. term.command_buffer \in Seq({"w", "ESC"})
  BY <1>1, BufferKinds
<1>3. term.data # <<>>
  BY <1>1
<1>4. PICK lines : lines = Seq(Seq(Symbol)) \ {<<>>}
  OBVIOUS
<1>5. PICK buffers : buffers = Seq({"w", "ESC"})
  OBVIOUS
<1>6. term.data \in lines /\ term.command_buffer \in buffers
  BY <1>1, <1>2, <1>3, <1>4, <1>5, Zenon
<1>7. term \in [data : lines, current_line : Nat, current_char : Nat,
                command_buffer : buffers, line_wrap_count : Nat,
                lines_added : BOOLEAN, strayed : BOOLEAN, undefined : BOOLEAN]
  BY <1>1, <1>6 DEF Term
<1>8. TypeOK
  BY <1>4, <1>5, <1>7, Zenon DEF TypeOK, Typed
<1> QED
  BY <1>1, <1>8 DEF StaysOnLines

(* All variables keep their types.                                           *)
THEOREM TypesHold == Spec => []TypeOK
<1>1. Init => Typed
  BY TypedInit
<1>2. Typed /\ [Next]_vars => Typed'
  BY TypedNext
<1>3. Typed => TypeOK
  BY TypedTypeOK
<1> QED
  BY <1>1, <1>2, <1>3, PTL DEF Spec

(* The cursor and the lines move together: a terminal indexes data beyond    *)
(* its lines only after a sequence that may leave the cursor there, whatever *)
(* the session sends.                                                        *)
THEOREM CursorOnLines == Spec => []StaysOnLines
<1>1. Init => Typed
  BY TypedInit
<1>2. Typed /\ [Next]_vars => Typed'
  BY TypedNext
<1>3. Typed => StaysOnLines
  BY TypedTypeOK
<1> QED
  BY <1>1, <1>2, <1>3, PTL DEF Spec

(* The dumb terminal stays on its lines whatever is sent to it, and the      *)
(* Linux terminal does unless the session sends ESC [ B, ESC [ J or an       *)
(* ESC [ H below the first line: of all that add_text obeys, nothing else    *)
(* can bring it to a line that is not there.                                 *)
THEOREM OnlyJumpsStray ==
    Spec => []((type = "dumb" \/ ~Jumps) => /\ ~term.undefined
                                            /\ term.current_line < Len(term.data))
<1>1. Init => Typed
  BY TypedInit
<1>2. Typed /\ [Next]_vars => Typed'
  BY TypedNext
<1>3. Typed => ((type = "dumb" \/ ~Jumps) => /\ ~term.undefined
                                             /\ term.current_line < Len(term.data))
  BY DEF Typed, Sound
<1> QED
  BY <1>1, <1>2, <1>3, PTL DEF Spec

-------------------------------------------------------------------------------
(* Paint wraps a line no more often than line_recount does.                  *)
LEMMA PaintWraps ==
    ASSUME NEW n \in Nat, NEW width \in Nat
    PROVE  /\ n \div (width + 5) \in Nat
           /\ n \div (width + 5) <= Wraps(n, width)
<1>1. PICK a \in Nat, b \in Nat : a = width + 5 /\ b = width + 1 /\ b # 0 /\ a = b + 4
  OBVIOUS
<1>2. PICK q : q = n \div a
  OBVIOUS
<1>3. q \in Nat /\ q * a <= n
  BY <1>1, <1>2, Z3
<1>4. CASE n = 0
  <2>1. q = 0
    BY <1>1, <1>2, <1>4, Z3
  <2> QED
    BY <1>1, <1>2, <1>4, <2>1 DEF Wraps
<1>5. CASE n # 0
  <2>1. PICK m \in Nat : m = n - 1
    BY <1>5
  <2>2. q * b <= m
    <3>1. CASE q = 0
      BY <1>1, <2>1, <3>1
    <3>2. CASE q # 0
      <4>1. q * a = q * b + 4 * q
        BY <1>1, <1>3
      <4> QED
        BY <1>1, <1>3, <2>1, <3>2, <4>1
    <3> QED
      BY <3>1, <3>2
  <2>3. q <= m \div b
    BY <1>1, <1>3, <2>2
  <2> QED
    BY <1>1, <1>2, <1>3, <1>5, <2>1, <2>3 DEF Wraps
<1> QED
  BY <1>4, <1>5

(* RowsPainted on a screen of this width.                                    *)
Painted(data, width) ==
    LET count[n \in 0 .. Len(data)] ==
            IF n = 0 THEN Len(data) ELSE count[n - 1] + Len(data[n]) \div (width + 5)
    IN  count[Len(data)]

PaintedUpTo(count, data, width) ==
    count = [n \in 0 .. Len(data) |->
                IF n = 0 THEN Len(data) ELSE count[n - 1] + Len(data[n]) \div (width + 5)]

(* What paint draws fits in the rows just counted: line by line paint wraps  *)
(* no more often than line_recount.                                          *)
LEMMA RecountFits ==
    ASSUME NEW t, Sound(t), NEW width \in Nat
    PROVE  Painted(t.data, width) <= Recounted(t, width).line_wrap_count
<1> DEFINE N == Len(t.data)
           w == WrapsOf(t.data, width)
           v == [n \in 1 .. N |-> Len(t.data[n]) \div (width + 5)]
           p == CHOOSE h : PaintedUpTo(h, t.data, width)
<1>1. /\ t \in Term /\ t.data \in Seq(Seq(Symbol)) /\ N \in Nat
      /\ \A n \in 1 .. N : Len(t.data[n]) \in Nat
  BY DEF Sound, Term
<1>2. w \in [1 .. N -> Nat]
  BY <1>1, Recounts
<1>3. PICK f : Sums(f, N, w, N) /\ Recounted(t, width) = [t EXCEPT !.line_wrap_count = f[N]]
  BY <1>1, Recounts
<1>4. /\ v \in [1 .. N -> Nat]
      /\ \A n \in 1 .. N : v[n] = Len(t.data[n]) \div (width + 5)
  <2>1. \A n \in 1 .. N : Len(t.data[n]) \div (width + 5) \in Nat
    BY <1>1, PaintWraps
  <2> QED
    BY <2>1
<1>5. \A n \in 1 .. N : v[n] <= w[n]
  <2> SUFFICES ASSUME NEW n \in 1 .. N PROVE v[n] <= w[n]
    OBVIOUS
  <2>1. Len(t.data[n]) \div (width + 5) <= Wraps(Len(t.data[n]), width)
    BY <1>1, PaintWraps
  <2>2. w[n] = Wraps(Len(t.data[n]), width)
    BY DEF WrapsOf
  <2> HIDE DEF v, w
  <2> QED
    BY <1>4, <2>1, <2>2
<1> HIDE DEF v
<1>6. ASSUME NEW h PROVE PaintedUpTo(h, t.data, width) <=> SumUpTo(h, N, v, N)
  <2>1. [n \in 0 .. N |-> IF n = 0 THEN N ELSE h[n - 1] + Len(t.data[n]) \div (width + 5)]
          = [n \in 0 .. N |-> IF n = 0 THEN N ELSE h[n - 1] + v[n]]
    <3>1. ASSUME NEW n \in 0 .. N, n # 0 PROVE v[n] = Len(t.data[n]) \div (width + 5)
      <4>1. n \in 1 .. N
        BY <1>1, <3>1
      <4> QED
        BY <1>4, <4>1, Zenon
    <3> QED
      BY <3>1
  <2> QED
    BY <2>1 DEF PaintedUpTo, SumUpTo
<1>7. \E h : PaintedUpTo(h, t.data, width)
  <2>1. PICK h : SumUpTo(h, N, v, N)
    <3> HIDE DEF N
    <3> QED
      BY <1>1, <1>4, SumExists
  <2> QED
    BY <1>6, <2>1
<1>8. PaintedUpTo(p, t.data, width)
  BY <1>7
<1>9. Painted(t.data, width) = p[N]
  BY DEF Painted, PaintedUpTo
<1> HIDE DEF p
<1>a. Sums(p, N, v, N)
  <2>1. SumUpTo(p, N, v, N)
    BY <1>6, <1>8
  <2> HIDE DEF N
  <2> QED
    BY <1>1, <1>4, <2>1, SumTyped
<1>b. p[N] <= f[N]
  <2> HIDE DEF N, w
  <2> QED
    BY <1>1, <1>2, <1>3, <1>4, <1>5, <1>a, SumGrows
<1>c. Recounted(t, width).line_wrap_count = f[N]
  BY <1>1, <1>3 DEF Term
<1> QED
  BY <1>9, <1>b, <1>c

(* A step that leaves the count valid recounted, or changed no line.         *)
LEMMA RowsNext ==
    ASSUME Typed, RowsFit, [Next]_vars
    PROVE  RowsFit'
<1>1. Screen /\ Sound(term) /\ columns \in Nat
  BY TypedScreen DEF Typed, Screen
<1>2. RowsPainted(term.data) = Painted(term.data, columns)
  BY DEF RowsPainted, Painted
<1>3. RowsPainted(term.data)' = Painted(term'.data, columns')
  BY DEF RowsPainted, Painted
<1>4. fresh => Painted(term.data, columns) <= term.line_wrap_count
  BY <1>2 DEF RowsFit
<1>5. ASSUME NEW text \in Texts, add_text(text)
      PROVE  fresh' => Painted(term'.data, columns') <= term'.line_wrap_count
  <2>1. PICK u : u = Added(text)
    OBVIOUS
  <2>2. /\ term' = IF u.lines_added THEN Recounted(u, columns) ELSE u
        /\ fresh' = \/ u.lines_added
                    \/ /\ fresh
                       /\ u.data = term.data
                       /\ u.line_wrap_count = term.line_wrap_count
        /\ columns' = columns
    BY <1>5, <2>1, Zenon DEF add_text
  <2>3. Sound(u)
    BY <1>1, <2>1, AddedSound
  <2>4. CASE u.lines_added
    <3>1. /\ Painted(u.data, columns) <= Recounted(u, columns).line_wrap_count
          /\ Recounted(u, columns).data = u.data
      BY <1>1, <2>3, RecountFits, RecountedSound
    <3> QED
      BY <2>2, <2>4, <3>1, Zenon
  <2>5. CASE ~u.lines_added
    BY <1>4, <2>2, <2>5, Zenon
  <2> QED
    BY <2>4, <2>5
<1>6. ASSUME NEW width \in Columns, Resize(width)
      PROVE  Painted(term'.data, columns') <= term'.line_wrap_count
  <2>1. width \in Nat
    BY TerminalAssumption
  <2>2. term' = Recounted(term, width) /\ columns' = width
    BY <1>6, Zenon DEF Resize
  <2>3. /\ Painted(term.data, width) <= Recounted(term, width).line_wrap_count
        /\ Recounted(term, width).data = term.data
    BY <1>1, <2>1, RecountFits, RecountedSound
  <2> QED
    BY <2>2, <2>3, Zenon
<1>7. ASSUME UNCHANGED vars
      PROVE  fresh' => Painted(term'.data, columns') <= term'.line_wrap_count
  <2>1. term' = term /\ columns' = columns /\ fresh' = fresh
    BY <1>7, Zenon DEF vars
  <2> QED
    BY <1>4, <2>1, Zenon
<1>8. fresh' => Painted(term'.data, columns') <= term'.line_wrap_count
  BY <1>5, <1>6, <1>7, Zenon DEF Next
<1> QED
  BY <1>3, <1>8, Zenon DEF RowsFit

(* Whenever update_scroll_height has counted the rows, paint draws no row    *)
(* beyond them: a line of any length, on a screen of any width, wraps no     *)
(* more often in paint than in the count, and no row is drawn that a later   *)
(* text or an empty line left uncounted.                                     *)
THEOREM PaintFits == Spec => []RowsFit
<1>1. Init => Typed /\ RowsFit
  BY TypedInit DEF Init, RowsFit
<1>2. Typed /\ RowsFit /\ [Next]_vars => (Typed /\ RowsFit)'
  BY TypedNext, RowsNext
<1> QED
  BY <1>1, <1>2, PTL DEF Spec

-------------------------------------------------------------------------------
(* A symbol behind the last one of a line.                                   *)
LEMMA PutBehind ==
    ASSUME NEW line \in Seq(Symbol), NEW column \in Nat, column >= Len(line),
           NEW symbol \in Symbol, symbol # "blank"
    PROVE  /\ Len(Put(line, column, symbol)) = column + 1
           /\ NonBlank(line) \in Seq(Symbol)
           /\ NonBlank(Put(line, column, symbol)) = Append(NonBlank(line), symbol)
<1>1. PICK p : p \in Seq(Symbol) /\ p = Put(line, column, symbol)
  <2>1. Put(line, column, symbol) \in Seq(Symbol)
    BY PutTyped
  <2> QED
    BY <2>1, Zenon
<1>2. PICK L \in Nat, N \in Nat : Len(line) = L /\ N = column + 1
  OBVIOUS
<1>3. /\ Len(p) = N /\ L < N /\ p[N] = symbol
      /\ \A i \in 1 .. L : p[i] = line[i]
      /\ \A i \in 1 .. column : i > L => p[i] = "blank"
  <2>1. Most(Len(line), column + 1) = N
    BY <1>2 DEF Most
  <2>2. p = [i \in 1 .. N |-> IF i = N THEN symbol ELSE IF i <= L THEN line[i] ELSE "blank"]
    BY <1>1, <1>2, <2>1 DEF Put
  <2>3. N \in 1 .. N /\ \A i \in 1 .. L : i \in 1 .. N /\ i # N /\ i <= L
    BY <1>2
  <2>4. \A i \in 1 .. column : i > L => i \in 1 .. N /\ i # N /\ ~(i <= L)
    BY <1>2
  <2> QED
    BY <1>1, <1>2, <2>2, <2>3, <2>4
<1> DEFINE kept == {i \in DOMAIN line : line[i] # "blank"}
           more == {i \in DOMAIN p : p[i] # "blank"}
<1>4. PICK f : KeptUpTo(line, kept, f) /\ Kept(line, kept) = f[L]
  BY <1>2, KeptRecursion
<1>5. PICK g : KeptUpTo(p, more, g) /\ Kept(p, more) = g[N]
  BY <1>1, <1>3, KeptRecursion
<1>6. /\ f \in [0 .. L -> Seq(Symbol)] /\ f[0] = <<>>
      /\ \A n \in 1 .. L : f[n] = IF n \in kept THEN Append(f[n - 1], line[n]) ELSE f[n - 1]
  <2>1. /\ f \in [0 .. Len(line) -> Seq(Symbol)] /\ f[0] = <<>>
        /\ \A n \in 1 .. Len(line) :
              f[n] = IF n \in kept THEN Append(f[n - 1], line[n]) ELSE f[n - 1]
    BY <1>4, KeptTyped
  <2> QED
    BY <1>2, <2>1, Zenon
<1>7. /\ g \in [0 .. N -> Seq(Symbol)] /\ g[0] = <<>>
      /\ \A n \in 1 .. N : g[n] = IF n \in more THEN Append(g[n - 1], p[n]) ELSE g[n - 1]
  <2>1. /\ g \in [0 .. Len(p) -> Seq(Symbol)] /\ g[0] = <<>>
        /\ \A n \in 1 .. Len(p) : g[n] = IF n \in more THEN Append(g[n - 1], p[n]) ELSE g[n - 1]
    BY <1>1, <1>5, KeptTyped
  <2> QED
    BY <1>3, <2>1, Zenon
<1>8. /\ \A n \in 1 .. L : n \in more <=> n \in kept
      /\ \A n \in 1 .. column : n > L => n \notin more
      /\ N \in more
  <2>1. DOMAIN line = 1 .. L /\ DOMAIN p = 1 .. N
    BY <1>1, <1>2, <1>3
  <2> QED
    BY <1>2, <1>3, <2>1
<1> HIDE DEF kept, more
<1> DEFINE T == {n \in 0 .. column : g[n] = f[IF n <= L THEN n ELSE L]}
<1>9. 0 \in T
  BY <1>2, <1>6, <1>7
<1>a. ASSUME NEW n \in 1 .. column, n - 1 \in T PROVE n \in T
  <2>1. n \in 0 .. column /\ n \in 1 .. N
    BY <1>2
  <2>2. CASE n <= L
    <3>1. n \in 1 .. L /\ n - 1 <= L /\ p[n] = line[n]
      BY <1>2, <1>3, <2>2
    <3>2. g[n - 1] = f[n - 1]
      BY <1>a, <3>1
    <3>3. g[n] = f[n]
      BY <1>6, <1>7, <1>8, <2>1, <3>1, <3>2, Zenon
    <3> QED
      BY <2>1, <2>2, <3>3
  <2>3. CASE ~(n <= L)
    <3>1. n > L /\ (n - 1 <= L => n - 1 = L)
      BY <1>2, <2>3
    <3>2. g[n - 1] = f[L]
      BY <1>a, <3>1
    <3>3. n \notin more
      BY <1>8, <3>1
    <3>4. g[n] = f[L]
      BY <1>7, <2>1, <3>2, <3>3, Zenon
    <3> QED
      BY <2>1, <2>3, <3>4
  <2> QED
    BY <2>2, <2>3
<1>b. g[column] = f[L]
  <2>1. \A n \in 0 .. column : n \in T
    <3> HIDE DEF T
    <3> QED
      BY <1>9, <1>a, InductionUpTo
  <2>2. column \in T
    BY <2>1
  <2> QED
    BY <1>2, <2>2
<1>c. g[N] = Append(f[L], symbol)
  <2>1. N \in 1 .. N /\ N - 1 = column
    BY <1>2
  <2> QED
    BY <1>3, <1>7, <1>8, <1>b, <2>1, Zenon
<1>d. f[L] \in Seq(Symbol)
  BY <1>6
<1>e. NonBlank(line) = f[L] /\ NonBlank(p) = g[N]
  BY <1>4, <1>5 DEF NonBlank, kept, more
<1> QED
  BY <1>1, <1>2, <1>3, <1>c, <1>d, <1>e, Zenon

(* One symbol more at the end of the last of n sequences.                    *)
LastGrows(S, seqs, more, n, x) ==
    /\ seqs \in Seq(Seq(S)) /\ more \in Seq(Seq(S)) /\ x \in S
    /\ n \in Nat /\ n # 0 /\ Len(seqs) = n /\ Len(more) = n
    /\ \A l \in 1 .. n : l # n => more[l] = seqs[l]
    /\ more[n] = Append(seqs[n], x)

(* Joined, the sequences have one symbol more at the end.                    *)
JoinedGrows(seqs, more, x) == FlattenSeq(more) = Append(FlattenSeq(seqs), x)

(* A symbol behind the last sequence of several.                             *)
LEMMA FlattenLast ==
    ASSUME NEW S, NEW seqs, NEW more, NEW n, NEW x, LastGrows(S, seqs, more, n, x)
    PROVE  JoinedGrows(seqs, more, x)
<1>0. /\ seqs \in Seq(Seq(S)) /\ more \in Seq(Seq(S)) /\ x \in S
      /\ n \in Nat /\ n # 0 /\ Len(seqs) = n /\ Len(more) = n
      /\ \A l \in 1 .. n : l # n => more[l] = seqs[l]
      /\ more[n] = Append(seqs[n], x)
  BY Zenon DEF LastGrows
<1>a. PICK last \in Seq(S) : seqs[n] = last
  BY <1>0
<1>1. PICK Q : Q = Seq(S)
  OBVIOUS
<1>2. PICK m \in Nat : m = n - 1
  BY <1>0
<1>3. PICK front : front \in Seq(Q) /\ front = [i \in 1 .. m |-> seqs[i]]
  <2>1. \A i \in 1 .. m : seqs[i] \in Q
    BY <1>0, <1>1, <1>2
  <2>2. [i \in 1 .. m |-> seqs[i]] \in Seq(Q)
    BY <2>1
  <2> QED
    BY <2>2, Zenon
<1>4. PICK y : y \in Seq(S) /\ y = Append(last, x)
  <2>1. Append(last, x) \in Seq(S)
    BY <1>0
  <2> QED
    BY <2>1, Zenon
<1>5. seqs = Append(front, last) /\ more = Append(front, y)
  <2>1. Len(front) = m /\ m + 1 = n /\ more[n] = y
    <3>1. more[n] = y
      BY <1>0, <1>4, <1>a, Zenon
    <3> QED
      BY <1>0, <1>2, <1>3, <3>1
  <2>2. seqs \in Seq(Q) /\ more \in Seq(Q) /\ last \in Q /\ y \in Q
    BY <1>0, <1>1, <1>4, <1>a, Zenon
  <2>3. \A i \in 1 .. m : front[i] = seqs[i] /\ front[i] = more[i]
    BY <1>0, <1>2, <1>3
  <2>4. seqs = Append(front, last)
    BY <1>0, <1>2, <1>3, <1>a, <2>1, <2>2, <2>3
  <2>5. more = Append(front, y)
    BY <1>0, <1>2, <1>3, <2>1, <2>2, <2>3
  <2> QED
    BY <2>4, <2>5
<1>6. /\ FlattenSeq(Append(front, last)) = FlattenSeq(front) \o last
      /\ FlattenSeq(Append(front, y)) = FlattenSeq(front) \o y
  BY <1>1, <1>3, <1>4, FlattenAppend
<1>7. FlattenSeq(front) \in Seq(S)
  BY <1>1, <1>3, Flat
<1>8. FlattenSeq(front) \o Append(last, x) = Append(FlattenSeq(front) \o last, x)
  <2>1. \A a \in Seq(S) : a \o Append(last, x) = Append(a \o last, x)
    BY <1>0, <1>a
  <2> QED
    BY <1>7, <2>1
<1> QED
  BY <1>4, <1>5, <1>6, <1>8, Zenon DEF JoinedGrows

(* The symbols of the lines, in their order.                                 *)
Marks(data) == [l \in DOMAIN data |-> NonBlank(data[l])]

TextOf(data) == FlattenSeq(Marks(data))

(* A line without its blanks.                                                *)
LEMMA NonBlankTyped ==
    ASSUME NEW line \in Seq(Symbol)
    PROVE  NonBlank(line) \in Seq(Symbol)
  BY KeptPositions DEF NonBlank, Selects

(* The text the lines show.                                                  *)
LEMMA MarksTyped ==
    ASSUME NEW data \in Seq(Seq(Symbol))
    PROVE  /\ Marks(data) \in Seq(Seq(Symbol)) /\ Len(Marks(data)) = Len(data)
           /\ \A l \in 1 .. Len(data) : Marks(data)[l] = NonBlank(data[l])
           /\ TextOf(data) \in Seq(Symbol)
<1>1. PICK Q : Q = Seq(Symbol)
  OBVIOUS
<1>2. Len(data) \in Nat /\ DOMAIN data = 1 .. Len(data)
  OBVIOUS
<1>3. \A l \in 1 .. Len(data) : NonBlank(data[l]) \in Q
  BY <1>1, NonBlankTyped
<1>4. Marks(data) = [l \in 1 .. Len(data) |-> NonBlank(data[l])]
  BY <1>2 DEF Marks
<1>5. Marks(data) \in Seq(Q) /\ Len(Marks(data)) = Len(data)
  BY <1>2, <1>3, <1>4
<1>6. \A l \in 1 .. Len(data) : Marks(data)[l] = NonBlank(data[l])
  BY <1>4
<1>7. Marks(data) \in Seq(Seq(Symbol))
  BY <1>1, <1>5
<1>8. TextOf(data) \in Seq(Symbol)
  BY <1>7, Flat DEF TextOf
<1> QED
  BY <1>5, <1>6, <1>7, <1>8

(* The cursor is on the last line; and behind what it shows.                 *)
OnLast(t) == ~t.undefined /\ ~t.strayed /\ Here(t) = Len(t.data)

Behind(t) == t.current_char >= Len(t.data[Len(t.data)])

(* Only letters were added.                                                  *)
Extends(u, t, symbols) ==
    /\ Sound(u) /\ OnLast(u) /\ Behind(u)
    /\ u.command_buffer = t.command_buffer
    /\ TextOf(u.data) = TextOf(t.data) \o symbols

(* At the end of the last line a symbol is appended to the text shown.       *)
LEMMA LetterExtends ==
    ASSUME Screen, NEW t, Sound(t), OnLast(t), Behind(t),
           NEW symbol \in Symbol, symbol # "blank"
    PROVE  Extends(add_letter(t, symbol), t, <<symbol>>)
<1>1. /\ t \in Term /\ Len(t.data) > 0 /\ t.data \in Seq(Seq(Symbol))
      /\ t.current_line \in Nat /\ t.current_char \in Nat
  BY DEF Sound, Term
<1>2. PICK n \in Nat : Len(t.data) = n /\ n # 0 /\ Here(t) = n /\ ~(t.current_line >= n)
  BY <1>1 DEF OnLast, Here
<1>3. PICK line \in Seq(Symbol) : t.data[n] = line /\ t.current_char >= Len(line)
  <2>1. t.data[n] \in Seq(Symbol)
    BY <1>1, <1>2
  <2>2. t.current_char >= Len(t.data[n])
    BY <1>2 DEF Behind
  <2> QED
    BY <2>1, <2>2
<1>4. PICK put \in Seq(Symbol) : put = Put(line, t.current_char, symbol)
  BY <1>1, PutTyped
<1>5. /\ Len(put) = t.current_char + 1 /\ NonBlank(line) \in Seq(Symbol)
      /\ NonBlank(put) = Append(NonBlank(line), symbol)
  BY <1>1, <1>3, <1>4, PutBehind
<1>6. PICK data : data = [t.data EXCEPT ![n] = put]
  OBVIOUS
<1>7. data \in Seq(Seq(Symbol)) /\ Len(data) = n /\ data[n] = put
  <2>1. n \in 1 .. Len(t.data)
    BY <1>2
  <2>2. data \in Seq(Seq(Symbol)) /\ Len(data) = Len(t.data)
    BY <1>1, <1>6, <2>1
  <2>3. data[n] = put
    BY <1>1, <1>6, <2>1
  <2> QED
    BY <1>2, <2>2, <2>3
<1>8. PICK column \in Nat : column = t.current_char + 1
  BY <1>1
<1>9. add_letter(t, symbol) = [t EXCEPT !.data = data, !.current_char = column]
  BY <1>2, <1>3, <1>4, <1>6, <1>8 DEF add_letter
<1>a. PICK u : u = [t EXCEPT !.data = data, !.current_char = column]
  OBVIOUS
<1>b. /\ u.data = data /\ u.current_line = t.current_line /\ u.current_char = column
      /\ u.undefined = t.undefined /\ u.strayed = t.strayed
      /\ u.command_buffer = t.command_buffer
  BY <1>1, <1>a DEF Term
<1>c. Sound(u)
  BY <1>9, <1>a, LetterSound
<1>d. OnLast(u)
  BY <1>2, <1>7, <1>b DEF OnLast, Here
<1>e. Behind(u)
  BY <1>5, <1>7, <1>8, <1>b DEF Behind
<1>f. TextOf(data) = TextOf(t.data) \o <<symbol>>
  <2>1. PICK seqs : seqs \in Seq(Seq(Symbol)) /\ seqs = Marks(t.data)
    BY <1>1, MarksTyped, Zenon
  <2>2. Len(seqs) = n /\ seqs[n] = NonBlank(line) /\ \A l \in 1 .. n : seqs[l] = NonBlank(t.data[l])
    <3>1. Len(seqs) = Len(t.data) /\ \A l \in 1 .. Len(t.data) : seqs[l] = NonBlank(t.data[l])
      BY <1>1, <2>1, MarksTyped, Zenon
    <3>2. n \in 1 .. n
      BY <1>2
    <3> QED
      BY <1>2, <1>3, <3>1, <3>2, Zenon
  <2>a. PICK marks \in Seq(Symbol) : NonBlank(line) = marks
    BY <1>5
  <2>b. Append(marks, symbol) \in Seq(Symbol)
    OBVIOUS
  <2>3. PICK y : y \in Seq(Symbol) /\ y = Append(marks, symbol)
    BY <2>b, Zenon
  <2>4. PICK more : more \in Seq(Seq(Symbol)) /\ more = Marks(data)
    BY <1>7, MarksTyped, Zenon
  <2>c. Len(more) = n /\ more[n] = y /\ \A l \in 1 .. n : l # n => more[l] = seqs[l]
    <3>1. Len(more) = Len(data) /\ \A l \in 1 .. Len(data) : more[l] = NonBlank(data[l])
      BY <1>7, <2>4, MarksTyped, Zenon
    <3>2. n \in 1 .. n /\ \A l \in 1 .. n : l # n => data[l] = t.data[l]
      BY <1>1, <1>2, <1>6
    <3>3. \A l \in 1 .. n : l # n => more[l] = seqs[l]
      BY <1>7, <2>2, <3>1, <3>2, Zenon
    <3>4. more[n] = y
      BY <1>5, <1>7, <2>3, <2>a, <3>1, <3>2, Zenon
    <3> QED
      BY <1>7, <3>1, <3>3, <3>4
  <2>5. FlattenSeq(more) = Append(FlattenSeq(seqs), symbol)
    <3>1. seqs \in Seq(Seq(Symbol)) /\ more \in Seq(Seq(Symbol))
      BY <2>1, <2>4, Zenon
    <3>2. n \in Nat /\ n # 0
      BY <1>2
    <3>3. more[n] = Append(seqs[n], symbol)
      BY <2>2, <2>3, <2>a, <2>c, Zenon
    <3>4. LastGrows(Symbol, seqs, more, n, symbol)
      BY <1>2, <2>1, <2>2, <2>c, <3>1, <3>2, <3>3, Zenon DEF LastGrows
    <3>5. JoinedGrows(seqs, more, symbol)
      BY <3>4, FlattenLast, Zenon
    <3> QED
      BY <3>5 DEF JoinedGrows
  <2>6. TextOf(t.data) \in Seq(Symbol) /\ TextOf(t.data) = FlattenSeq(seqs)
    BY <1>1, <2>1, MarksTyped DEF TextOf
  <2>7. Append(TextOf(t.data), symbol) = TextOf(t.data) \o <<symbol>>
    BY <2>6
  <2> QED
    BY <2>3, <2>4, <2>5, <2>6, <2>7, Zenon DEF TextOf
<1> QED
  BY <1>9, <1>a, <1>b, <1>c, <1>d, <1>e, <1>f DEF Extends

(* Several symbols likewise.                                                 *)
LEMMA LettersExtend ==
    ASSUME Screen, NEW t, Sound(t), OnLast(t), Behind(t),
           NEW symbols \in Seq(Symbol), \A n \in 1 .. Len(symbols) : symbols[n] # "blank"
    PROVE  Extends(AddAll(t, symbols), t, symbols)
<1>1. PICK g : Letters(g, t, symbols) /\ AddAll(t, symbols) = g[Len(symbols)]
  BY AllLetters
<1>2. TextOf(t.data) \in Seq(Symbol)
  BY MarksTyped DEF Sound, Term
<1> DEFINE N == Len(symbols)
           pre(n) == [i \in 1 .. n |-> symbols[i]]
           T == {n \in 0 .. N : Extends(g[n], t, pre(n))}
<1>3. N \in Nat /\ \A n \in 1 .. N : symbols[n] \in Symbol
  OBVIOUS
<1>4. \A n \in 0 .. N : pre(n) \in Seq(Symbol) /\ Len(pre(n)) = n
  BY <1>3
<1>5. 0 \in T
  <2>1. pre(0) = <<>>
    OBVIOUS
  <2>2. TextOf(t.data) \o <<>> = TextOf(t.data)
    BY <1>2
  <2>3. g[0] = t
    BY <1>1 DEF Letters
  <2>4. Extends(g[0], t, pre(0))
    <3> HIDE DEF pre
    <3> QED
      BY <2>1, <2>2, <2>3, Zenon DEF Extends
  <2> QED
    BY <1>3, <2>4
<1>6. ASSUME NEW n \in 1 .. N, n - 1 \in T PROVE n \in T
  <2>1. n \in 0 .. N /\ n - 1 \in 0 .. N
    BY <1>3
  <2>2. g[n] = add_letter(g[n - 1], symbols[n])
    BY <1>1 DEF Letters
  <2>3. PICK u : u = g[n - 1] /\ Extends(u, t, pre(n - 1))
    BY <1>6
  <2>4. PICK v : v = g[n] /\ Extends(v, u, <<symbols[n]>>)
    <3>1. Extends(add_letter(u, symbols[n]), u, <<symbols[n]>>)
      BY <1>3, <2>3, LetterExtends DEF Extends
    <3> QED
      BY <2>2, <2>3, <3>1, Zenon
  <2>5. (TextOf(t.data) \o pre(n - 1)) \o <<symbols[n]>> = TextOf(t.data) \o pre(n)
    <3>1. pre(n - 1) \o <<symbols[n]>> = pre(n)
      <4>1. pre(n - 1) \o <<symbols[n]>> = Append(pre(n - 1), symbols[n])
        <5>1. pre(n - 1) \in Seq(Symbol) /\ symbols[n] \in Symbol
          BY <1>3, <1>4, <2>1
        <5> HIDE DEF pre
        <5> QED
          BY <5>1
      <4>2. Append(pre(n - 1), symbols[n]) = pre(n)
        <5>1. Len(pre(n - 1)) = n - 1 /\ pre(n - 1) \in Seq(Symbol) /\ pre(n) \in Seq(Symbol)
              /\ Len(pre(n)) = n
          BY <1>4, <2>1
        <5>2. \A i \in 1 .. n : pre(n)[i] = symbols[i]
          OBVIOUS
        <5>3. \A i \in 1 .. n - 1 : pre(n - 1)[i] = symbols[i]
          OBVIOUS
        <5> HIDE DEF pre
        <5> QED
          BY <1>3, <5>1, <5>2, <5>3
      <4> QED
        BY <4>1, <4>2
    <3>2. \A a, b, c \in Seq(Symbol) : (a \o b) \o c = a \o (b \o c)
      OBVIOUS
    <3>3. pre(n - 1) \in Seq(Symbol) /\ <<symbols[n]>> \in Seq(Symbol)
      <4>1. symbols[n] \in Symbol
        BY <1>3
      <4> QED
        BY <1>4, <2>1, <4>1
    <3>4. PICK a \in Seq(Symbol), b \in Seq(Symbol), c \in Seq(Symbol) :
             a = TextOf(t.data) /\ b = pre(n - 1) /\ c = <<symbols[n]>>
      <4> HIDE DEF pre
      <4> QED
        BY <1>2, <3>3, Zenon
    <3>5. (a \o b) \o c = a \o (b \o c)
      BY <3>2
    <3> HIDE DEF pre
    <3> QED
      BY <3>1, <3>4, <3>5, Zenon
  <2>6. Extends(g[n], t, pre(n))
    <3> HIDE DEF pre
    <3> QED
      BY <2>3, <2>4, <2>5, Zenon DEF Extends
  <2> QED
    BY <2>1, <2>6
<1>7. Extends(g[N], t, pre(N))
  <2>1. \A n \in 0 .. N : n \in T
    <3> HIDE DEF T
    <3> QED
      BY <1>3, <1>5, <1>6, InductionUpTo
  <2>2. N \in T
    BY <1>3, <2>1
  <2> QED
    BY <2>2
<1>8. pre(N) = symbols
  OBVIOUS
<1> QED
  BY <1>1, <1>7, <1>8, Zenon

(* All that was sent is on the lines, or held behind them.                   *)
Placed(t, sentSymbols) ==
    /\ OnLast(t)
    /\ t.command_buffer \in Seq({"w"})
    /\ type = "dumb" => t.command_buffer = <<>>
    /\ TextOf(t.data) \o t.command_buffer = sentSymbols

(* A new line, wherever in the last line the cursor is.                      *)
LEMMA NewLinePlaced ==
    ASSUME Screen, NEW t, Sound(t), NEW w, Placed(t, w)
    PROVE  Placed(NewLine(t), w) /\ Behind(NewLine(t))
<1>1. /\ t \in Term /\ Len(t.data) > 0 /\ t.data \in Seq(Seq(Symbol))
      /\ t.current_line \in Nat /\ t.current_char \in Nat
  BY DEF Sound, Term
<1>2. PICK n \in Nat : Len(t.data) = n /\ Here(t) = n
  BY <1>1 DEF Placed, OnLast
<1>3. NeedsLine(t, t.current_line + 1)
  BY <1>2 DEF NeedsLine, Here
<1>4. PICK data : data \in Seq(Seq(Symbol)) /\ data = Append(t.data, <<>>)
  <2>1. <<>> \in Seq(Symbol)
    OBVIOUS
  <2>2. Append(t.data, <<>>) \in Seq(Seq(Symbol))
    BY <1>1, <2>1
  <2> QED
    BY <2>2, Zenon
<1>5. /\ Len(data) = n + 1 /\ Len(data[n + 1]) = 0
      /\ \A l \in 1 .. n : data[l] = t.data[l]
  BY <1>1, <1>2, <1>4
<1>6. PICK l \in Nat : l = t.current_line + 1
  BY <1>1
<1>7. NewLine(t) = [t EXCEPT !.current_line = l, !.data = data, !.lines_added = TRUE]
  BY <1>3, <1>4, <1>6, Zenon DEF NewLine
<1>8. PICK u : u = [t EXCEPT !.current_line = l, !.data = data, !.lines_added = TRUE]
  OBVIOUS
<1>9. /\ u.data = data /\ u.current_line = l /\ u.current_char = t.current_char
      /\ u.undefined = t.undefined /\ u.strayed = t.strayed
      /\ u.command_buffer = t.command_buffer
  BY <1>1, <1>8 DEF Term
<1>a. OnLast(u)
  BY <1>2, <1>5, <1>6, <1>9 DEF Placed, OnLast, Here
<1>b. Behind(u)
  BY <1>1, <1>5, <1>9 DEF Behind
<1>c. TextOf(data) = TextOf(t.data)
  <2>1. PICK Q : Q = Seq(Symbol)
    OBVIOUS
  <2>2. PICK seqs : seqs \in Seq(Seq(Symbol)) /\ seqs = Marks(t.data)
    BY <1>1, MarksTyped, Zenon
  <2>3. PICK more : more \in Seq(Seq(Symbol)) /\ more = Marks(data)
    BY <1>4, MarksTyped, Zenon
  <2>4. Len(seqs) = n /\ \A i \in 1 .. n : seqs[i] = NonBlank(t.data[i])
    BY <1>1, <1>2, <2>2, MarksTyped, Zenon
  <2>5. Len(more) = n + 1 /\ \A i \in 1 .. n + 1 : more[i] = NonBlank(data[i])
    BY <1>4, <1>5, <2>3, MarksTyped, Zenon
  <2>6. PICK last : last \in Seq(Symbol) /\ last = <<>>
    <3>1. <<>> \in Seq(Symbol)
      OBVIOUS
    <3> QED
      BY <3>1, Zenon
  <2>7. more[n + 1] = last
    <3>1. NonBlank(<<>>) = <<>>
      <4>1. PICK keep : keep = {i \in DOMAIN last : last[i] # "blank"}
        OBVIOUS
      <4>2. Len(last) = 0
        BY <2>6
      <4>3. PICK f : KeptUpTo(last, keep, f) /\ Kept(last, keep) = f[Len(last)]
        BY <2>6, KeptRecursion
      <4>4. f[0] = <<>>
        BY <2>6, <4>3, KeptTyped
      <4>5. NonBlank(last) = <<>>
        BY <4>1, <4>2, <4>3, <4>4, Zenon DEF NonBlank
      <4> QED
        BY <2>6, <4>5, Zenon
    <3>2. data[n + 1] = <<>>
      BY <1>1, <1>2, <1>4
    <3>3. n + 1 \in 1 .. n + 1
      BY <1>2
    <3> QED
      BY <2>5, <2>6, <3>1, <3>2, <3>3, Zenon
  <2>8. more = Append(seqs, last)
    <3>1. \A i \in 1 .. n : more[i] = seqs[i]
      <4>1. \A i \in 1 .. n : i \in 1 .. n + 1
        OBVIOUS
      <4> QED
        BY <1>5, <2>4, <2>5, <4>1, Zenon
    <3>2. seqs \in Seq(Q) /\ more \in Seq(Q) /\ last \in Q
      BY <2>1, <2>2, <2>3, <2>6
    <3> QED
      BY <2>4, <2>5, <2>7, <3>1, <3>2
  <2>9. FlattenSeq(Append(seqs, last)) = FlattenSeq(seqs) \o last
    BY <2>2, <2>6, FlattenAppend
  <2>a. FlattenSeq(seqs) \in Seq(Symbol)
    BY <2>2, Flat
  <2>b. FlattenSeq(seqs) \o <<>> = FlattenSeq(seqs)
    BY <2>a
  <2> QED
    BY <2>2, <2>3, <2>6, <2>8, <2>9, <2>b, Zenon DEF TextOf
<1>d. Placed(u, w)
  BY <1>9, <1>a, <1>c, Zenon DEF Placed
<1> QED
  BY <1>7, <1>8, <1>b, <1>d

(* Joining sequences is associative.                                         *)
LEMMA Joined ==
    ASSUME NEW S, NEW a \in Seq(S), NEW b \in Seq(S), NEW c \in Seq(S)
    PROVE  (a \o b) \o c = a \o (b \o c) /\ a \o <<>> = a /\ <<>> \o a = a
  OBVIOUS

(* It does not matter which two of three sequences are joined first.         *)
Associates(a, b, c) == (a \o b) \o c = a \o (b \o c)

(* It never does for sequences of symbols.                                   *)
LEMMA JoinedSymbols == \A a, b, c \in Seq(Symbol) : Associates(a, b, c)
  BY DEF Associates

(* One character that a plain text may have, with the cursor behind the last *)
(* line; a carriage return alone leaves it elsewhere.                        *)
LEMMA PlainStep ==
    ASSUME Screen, NEW t, Sound(t), NEW w, Placed(t, w), NEW c, c[1] \in Plain,
           Behind(t) \/ c[1] = "NL"
    PROVE  /\ Placed(OneMore(t, c), w \o Shown(c))
           /\ Behind(OneMore(t, c)) \/ c[1] = "CR"
<1>0. c[1] \in {"x", "w", "NL", "CR"}
  BY DEF Plain
<1>1. /\ t \in Term /\ t.data \in Seq(Seq(Symbol)) /\ ~t.undefined /\ OnLast(t)
      /\ t.command_buffer \in Seq({"w"}) /\ t.command_buffer \in Buffers
      /\ (type = "dumb" => t.command_buffer = <<>>)
      /\ TextOf(t.data) \o t.command_buffer = w
  BY DEF Sound, Term, Placed, OnLast
<1>2. t.command_buffer # <<"ESC">>
  <2>1. PICK b : b \in Seq({"w"}) /\ b = t.command_buffer
    BY <1>1, Zenon
  <2>2. SUFFICES ASSUME b = <<"ESC">> PROVE FALSE
    BY <2>1, Zenon
  <2>3. Len(b) = 1 /\ b[1] = "ESC"
    BY <2>2
  <2>4. \A i \in 1 .. Len(b) : b[i] = "w"
    BY <2>1
  <2>5. 1 \in 1 .. 1
    OBVIOUS
  <2> QED
    BY <2>3, <2>4, <2>5
<1>3. PICK text \in Seq(Symbol), buffer \in Seq(Symbol) :
         text = TextOf(t.data) /\ buffer = t.command_buffer
  BY <1>1, <1>2, BufferKinds, MarksTyped
<1>4. w = text \o buffer /\ w \in Seq(Symbol)
  <2>1. text \o buffer \in Seq(Symbol)
    OBVIOUS
  <2> QED
    BY <1>1, <1>3, <2>1, Zenon
<1>5. w \o <<>> = w
  BY <1>4
<1>6. CASE c[1] = "NL"
  <2>1. OneMore(t, c) = NewLine(t)
    BY <1>1, <1>2, <1>6, Zenon DEF OneMore, Dumb, Linux
  <2>2. Shown(c) = <<>>
    BY <1>6, Zenon DEF Shown
  <2> QED
    BY <1>5, <2>1, <2>2, NewLinePlaced
<1>7. CASE c[1] = "CR"
  <2>1. OneMore(t, c) = [t EXCEPT !.current_char = 0]
    BY <1>1, <1>2, <1>7, Zenon DEF OneMore, Dumb, Linux
  <2>2. PICK u : u = [t EXCEPT !.current_char = 0]
    OBVIOUS
  <2>3. /\ u.data = t.data /\ u.current_line = t.current_line
        /\ u.undefined = t.undefined /\ u.strayed = t.strayed
        /\ u.command_buffer = t.command_buffer
    BY <1>1, <2>2 DEF Term
  <2>4. OnLast(u)
    BY <1>1, <2>3 DEF OnLast, Here
  <2>5. Placed(u, w)
    BY <2>3, <2>4, Zenon DEF Placed
  <2>6. Shown(c) = <<>>
    BY <1>7, Zenon DEF Shown
  <2> QED
    BY <1>5, <1>7, <2>1, <2>2, <2>5, <2>6
<1>8. CASE c[1] \in {"x", "w"} /\ type = "dumb"
  <2>1. PICK symbols \in Seq(Symbol) : symbols = Shown(c)
    BY ShownTyped
  <2>2. Extends(OneMore(t, c), t, symbols)
    <3>1. CASE c[1] = "x"
      <4>1. symbols = <<"x">> /\ OneMore(t, c) = add_letter(t, "x")
        BY <1>1, <1>8, <2>1, <3>1, Zenon DEF OneMore, Dumb, Shown
      <4>2. "x" \in Symbol
        BY DEF Symbol
      <4>3. Extends(add_letter(t, "x"), t, <<"x">>)
        BY <1>1, <1>8, <4>2, LetterExtends
      <4> QED
        BY <4>1, <4>3
    <3>2. CASE c[1] = "w"
      <4>1. symbols = <<"byte", "byte">> /\ OneMore(t, c) = AddAll(t, symbols)
        BY <1>1, <1>8, <2>1, <3>2, Zenon DEF OneMore, Dumb, Shown
      <4>2. \A i \in 1 .. Len(symbols) : symbols[i] # "blank"
        BY <4>1
      <4>3. Extends(AddAll(t, symbols), t, symbols)
        BY <1>1, <1>8, <4>2, LettersExtend
      <4> QED
        BY <4>1, <4>3
    <3> QED
      BY <1>8, <3>1, <3>2
  <2>3. PICK u : u = OneMore(t, c) /\ Extends(u, t, symbols)
    BY <2>2
  <2>4. w = text /\ u.command_buffer = <<>>
    <3>1. text \o <<>> = text
      OBVIOUS
    <3> QED
      BY <1>1, <1>3, <1>4, <1>8, <2>3, <3>1, Zenon DEF Extends
  <2>5. TextOf(u.data) \o u.command_buffer = w \o symbols
    <3>0. text \o symbols \in Seq(Symbol)
      OBVIOUS
    <3>1. PICK more \in Seq(Symbol) : more = text \o symbols
      BY <3>0, Zenon
    <3>2. more \o <<>> = more
      OBVIOUS
    <3> QED
      BY <1>3, <2>3, <2>4, <3>1, <3>2, Zenon DEF Extends
  <2>6. <<>> \in Seq({"w"})
    OBVIOUS
  <2>7. Placed(u, w \o symbols)
    BY <2>3, <2>4, <2>5, <2>6, Zenon DEF Extends, Placed
  <2> QED
    BY <2>1, <2>3, <2>7, Zenon DEF Extends
<1>9. CASE c[1] = "x" /\ type # "dumb"
  <2>1. PICK symbols \in Seq(Symbol) : symbols = <<"x">> /\ symbols = Shown(c)
    <3>1. "x" \in Symbol
      BY DEF Symbol
    <3>2. <<"x">> \in Seq(Symbol)
      BY <3>1
    <3> QED
      BY <1>9, <3>2, Zenon DEF Shown
  <2>2. PICK all \in Seq(Symbol) : all = buffer \o symbols
    <3>1. buffer \o symbols \in Seq(Symbol)
      OBVIOUS
    <3> QED
      BY <3>1, Zenon
  <2>3. \A i \in 1 .. Len(all) : all[i] # "blank"
    <3>1. \A i \in 1 .. Len(buffer) : buffer[i] = "w"
      BY <1>1, <1>3
    <3>2. \A i \in 1 .. Len(symbols) : symbols[i] = "x"
      BY <2>1
    <3>3. ASSUME NEW i \in 1 .. Len(all) PROVE all[i] = "w" \/ all[i] = "x"
      <4>1. /\ Len(all) = Len(buffer) + Len(symbols)
            /\ Len(buffer) \in Nat /\ Len(symbols) \in Nat
            /\ all[i] = IF i <= Len(buffer) THEN buffer[i] ELSE symbols[i - Len(buffer)]
        BY <2>2
      <4>2. CASE i <= Len(buffer)
        <5>1. i \in 1 .. Len(buffer)
          BY <4>1, <4>2
        <5> QED
          BY <3>1, <4>1, <4>2, <5>1
      <4>3. CASE ~(i <= Len(buffer))
        <5>1. i - Len(buffer) \in 1 .. Len(symbols)
          BY <4>1, <4>3
        <5> QED
          BY <3>2, <4>1, <4>3, <5>1
      <4> QED
        BY <4>2, <4>3
    <3> QED
      BY <3>3
  <2>4. PICK v : v = AddAll(t, all) /\ Extends(v, t, all)
    BY <1>1, <1>9, <2>3, LettersExtend
  <2>5. OneMore(t, c) = [v EXCEPT !.command_buffer = <<>>]
    <3>1. OneMore(t, c) = Show(t, <<"x">>)
      BY <1>1, <1>2, <1>9, Zenon DEF OneMore, Linux
    <3>2. Held(t) = buffer
      BY <1>3 DEF Held
    <3> QED
      BY <2>1, <2>2, <2>4, <3>1, <3>2, Zenon DEF Show
  <2>6. PICK u : u = [v EXCEPT !.command_buffer = <<>>]
    OBVIOUS
  <2>7. v \in Term /\ OnLast(v) /\ Behind(v) /\ TextOf(v.data) = text \o all
    BY <1>3, <2>4 DEF Extends, Sound
  <2>8. /\ u.data = v.data /\ u.current_line = v.current_line /\ u.current_char = v.current_char
        /\ u.undefined = v.undefined /\ u.strayed = v.strayed /\ u.command_buffer = <<>>
    BY <2>6, <2>7 DEF Term
  <2>9. OnLast(u) /\ Behind(u)
    BY <2>7, <2>8, Zenon DEF OnLast, Behind, Here
  <2>a. TextOf(u.data) \o u.command_buffer = w \o symbols
    <3>0. text \o all \in Seq(Symbol)
      OBVIOUS
    <3>1. PICK more \in Seq(Symbol) : more = text \o all
      BY <3>0, Zenon
    <3>2. more \o <<>> = more
      OBVIOUS
    <3>3. (text \o buffer) \o symbols = text \o (buffer \o symbols)
      <4>1. Associates(text, buffer, symbols)
        BY JoinedSymbols, Zenon
      <4> QED
        BY <4>1, Zenon DEF Associates
    <3> QED
      BY <1>4, <2>2, <2>7, <2>8, <3>1, <3>2, <3>3, Zenon
  <2>b. <<>> \in Seq({"w"})
    OBVIOUS
  <2>c. Placed(u, w \o symbols)
    BY <2>8, <2>9, <2>a, <2>b, Zenon DEF Placed
  <2> QED
    BY <2>1, <2>5, <2>6, <2>9, <2>c, Zenon
<1>a. CASE c[1] = "w" /\ type # "dumb"
  <2>1. PICK held : held \in Seq({"w"}) /\ held = Append(t.command_buffer, "w")
    <3>1. Append(t.command_buffer, "w") \in Seq({"w"})
      BY <1>1
    <3> QED
      BY <3>1, Zenon
  <2>2. OneMore(t, c) = [t EXCEPT !.command_buffer = held]
    BY <1>1, <1>2, <1>a, <2>1, Zenon DEF OneMore, Linux
  <2>3. PICK u : u = [t EXCEPT !.command_buffer = held]
    OBVIOUS
  <2>4. /\ u.data = t.data /\ u.current_line = t.current_line /\ u.current_char = t.current_char
        /\ u.undefined = t.undefined /\ u.strayed = t.strayed /\ u.command_buffer = held
    BY <1>1, <2>3 DEF Term
  <2>5. OnLast(u) /\ Behind(u)
    BY <1>1, <1>a, <2>4 DEF OnLast, Behind, Here
  <2>6. Shown(c) = <<"w">>
    BY <1>a, Zenon DEF Shown
  <2>7. text \o held = w \o <<"w">>
    <3>1. PICK one \in Seq(Symbol) : one = <<"w">>
      <4>1. "w" \in Symbol
        BY DEF Symbol
      <4>2. <<"w">> \in Seq(Symbol)
        BY <4>1
      <4> QED
        BY <4>2
    <3>2. held = buffer \o one
      <4>1. "w" \in Symbol
        BY DEF Symbol
      <4>2. Append(buffer, "w") = buffer \o <<"w">>
        BY <4>1
      <4> QED
        BY <1>3, <2>1, <3>1, <4>2, Zenon
    <3>3. (text \o buffer) \o one = text \o (buffer \o one)
      BY Joined
    <3> QED
      BY <1>4, <3>1, <3>2, <3>3, Zenon
  <2>8. Placed(u, w \o <<"w">>)
    BY <1>3, <1>a, <2>1, <2>4, <2>5, <2>7, Zenon DEF Placed
  <2> QED
    BY <2>2, <2>3, <2>5, <2>6, <2>8, Zenon
<1> QED
  BY <1>0, <1>6, <1>7, <1>8, <1>9, <1>a

(* What a plain text adds.                                                   *)
LEMMA PlainText ==
    ASSUME Screen, Sound(term), NEW w \in Seq(Symbol), Placed(term, w), Behind(term),
           NEW text, Len(text) \in Nat, \A n \in 1 .. Len(text) : Sendable(text[n]),
           IsPlain(text)
    PROVE  Placed(Added(text), w \o Symbols(text)) /\ Behind(Added(text))
<1> DEFINE N == Len(text)
<1>1. N \in Nat
  OBVIOUS
<1>2. PICK g : Steps(g, text) /\ Added(text) = g[N]
  BY AddedSteps
<1>3. PICK shown : /\ shown \in Seq(Seq(Symbol))
                   /\ shown = [n \in 1 .. Len(text) |-> Shown(text[n])]
  BY SymbolsTyped, Zenon
<1>4. Len(shown) = N /\ \A n \in 1 .. N : shown[n] = Shown(text[n])
  BY <1>1, <1>3
<1>5. PICK f : FlatUpTo(shown, f, Symbol) /\ FlattenSeq(shown) = f[Len(shown)]
  BY <1>3, Flat
<1>6. /\ f \in [0 .. N -> Seq(Symbol)] /\ f[0] = <<>>
      /\ \A n \in 1 .. N : f[n] = f[n - 1] \o shown[n]
  BY <1>4, <1>5, Zenon DEF FlatUpTo
<1>7. Symbols(text) = f[N]
  BY <1>3, <1>4, <1>5, Zenon DEF Symbols
<1> DEFINE Good(n) == /\ Placed(g[n], w \o f[n])
                      /\ Behind(g[n]) \/ (n # 0 /\ text[n][1] = "CR")
           T == {n \in 0 .. N : Good(n)}
<1>8. 0 \in T
  <2>1. term \in Term
    BY DEF Sound
  <2>2. PICK u : u = g[0] /\ u = [term EXCEPT !.lines_added = FALSE]
    BY <1>2 DEF Steps
  <2>3. /\ u.data = term.data /\ u.current_line = term.current_line
        /\ u.current_char = term.current_char
        /\ u.undefined = term.undefined /\ u.strayed = term.strayed
        /\ u.command_buffer = term.command_buffer
    BY <2>1, <2>2 DEF Term
  <2>4. w \o <<>> = w
    OBVIOUS
  <2>5. OnLast(u) /\ Behind(u)
    BY <2>3, Zenon DEF Placed, OnLast, Behind, Here
  <2>6. Placed(u, w \o f[0])
    BY <1>6, <2>3, <2>4, <2>5, Zenon DEF Placed
  <2>7. Good(0)
    BY <2>2, <2>5, <2>6, Zenon
  <2> HIDE DEF Good
  <2> QED
    BY <1>1, <2>7
<1>9. ASSUME NEW n \in 1 .. N, n - 1 \in T PROVE n \in T
  <2>1. n \in 0 .. N /\ n - 1 \in 0 .. N /\ n # 0
    BY <1>1
  <2>2. Good(n - 1)
    BY <1>9
  <2>3. PICK t, c : t = g[n - 1] /\ c = text[n]
    OBVIOUS
  <2>4. Sound(t) /\ g[n] = OneMore(t, c)
    BY <1>2, <2>1, <2>3 DEF Steps
  <2>5. c[1] \in Plain
    BY <2>3 DEF IsPlain
  <2>6. Behind(t) \/ c[1] = "NL"
    <3> SUFFICES ASSUME ~Behind(t) PROVE c[1] = "NL"
      OBVIOUS
    <3>1. n - 1 # 0 /\ text[n - 1][1] = "CR"
      BY <2>2, <2>3, Zenon
    <3>2. n - 1 \in 1 .. N /\ (n - 1) + 1 = n
      BY <1>1, <3>1
    <3>3. text[(n - 1) + 1][1] = "NL"
      BY <3>1, <3>2, Zenon DEF IsPlain
    <3> QED
      BY <2>3, <3>2, <3>3, Zenon
  <2>7. Placed(t, w \o f[n - 1])
    BY <2>2, <2>3
  <2>8. /\ Placed(OneMore(t, c), (w \o f[n - 1]) \o Shown(c))
        /\ Behind(OneMore(t, c)) \/ c[1] = "CR"
    BY <2>4, <2>5, <2>6, <2>7, PlainStep
  <2>9. (w \o f[n - 1]) \o Shown(c) = w \o f[n]
    <3>2. f[n - 1] \in Seq(Symbol) /\ Shown(c) \in Seq(Symbol)
      BY <1>6, <2>1, ShownTyped
    <3>3. f[n] = f[n - 1] \o Shown(c)
      BY <1>4, <1>6, <2>3
    <3>4. (w \o f[n - 1]) \o Shown(c) = w \o (f[n - 1] \o Shown(c))
      BY <3>2, JoinedSymbols, Zenon DEF Associates
    <3> QED
      BY <3>3, <3>4, Zenon
  <2>a. Good(n)
    BY <2>1, <2>3, <2>4, <2>8, <2>9, Zenon
  <2> HIDE DEF Good
  <2> QED
    BY <2>1, <2>a
<1>a. Good(N)
  <2>1. \A n \in 0 .. N : n \in T
    <3> HIDE DEF T, N
    <3> QED
      BY <1>1, <1>8, <1>9, InductionUpTo
  <2>2. N \in T
    <3> HIDE DEF T
    <3> QED
      BY <1>1, <2>1
  <2> HIDE DEF Good
  <2> QED
    BY <2>2
<1>b. Behind(g[N])
  <2> SUFFICES ASSUME N # 0, text[N][1] = "CR" PROVE FALSE
    BY <1>a, Zenon
  <2>1. N \in 1 .. N /\ ~(N < N)
    BY <1>1
  <2>2. N < Len(text)
    BY <2>1, Zenon DEF IsPlain
  <2> QED
    BY <2>1, <2>2
<1> QED
  BY <1>2, <1>7, <1>a, <1>b, Zenon

(* While only plain texts were sent.                                         *)
InOrder == plain => Placed(term, written) /\ Behind(term)

(* A text that is placed now is placed in the next state.                    *)
LEMMA PlacedNext ==
    ASSUME NEW u, NEW w, Placed(u, w), Behind(u), term' = u, written' = w, type' = type
    PROVE  InOrder'
<1>1. Placed(term, written)'
  BY DEF Placed, OnLast, Here, TextOf, Marks, NonBlank
<1>2. Behind(term)'
  BY DEF Behind
<1> QED
  BY <1>1, <1>2 DEF InOrder

(* Counting the rows moves no text.                                          *)
LEMMA RecountedPlaced ==
    ASSUME NEW t, Sound(t), NEW width \in Nat, NEW w, Placed(t, w), Behind(t)
    PROVE  Placed(Recounted(t, width), w) /\ Behind(Recounted(t, width))
<1>1. t \in Term /\ t.data \in Seq(Seq(Symbol))
  BY DEF Sound, Term
<1>2. PICK f : Recounted(t, width) = [t EXCEPT !.line_wrap_count = f[Len(t.data)]]
  BY <1>1, Recounts
<1>3. PICK u : u = [t EXCEPT !.line_wrap_count = f[Len(t.data)]]
  OBVIOUS
<1>4. /\ u.data = t.data /\ u.current_line = t.current_line /\ u.current_char = t.current_char
      /\ u.undefined = t.undefined /\ u.strayed = t.strayed
      /\ u.command_buffer = t.command_buffer
  BY <1>1, <1>3 DEF Term
<1>5. Placed(u, w) /\ Behind(u)
  BY <1>4, Zenon DEF Placed, OnLast, Behind, Here
<1> QED
  BY <1>2, <1>3, <1>5, Zenon

(* Nothing was sent and nothing is shown.                                    *)
LEMMA InOrderInit ==
    ASSUME Init
    PROVE  InOrder
<1>1. PICK line : line \in Seq(Symbol) /\ line = <<>> /\ Len(line) = 0
  <2>1. <<>> \in Seq(Symbol) /\ Len(<<>>) = 0
    OBVIOUS
  <2> QED
    BY <2>1, Zenon
<1>2. PICK data : data \in Seq(Seq(Symbol)) /\ data = <<line>> /\ Len(data) = 1 /\ data[1] = line
  <2>1. <<line>> \in Seq(Seq(Symbol)) /\ Len(<<line>>) = 1 /\ <<line>>[1] = line
    BY <1>1
  <2> QED
    BY <2>1, Zenon
<1>3. PICK buffer : buffer \in Seq({"w"}) /\ buffer = <<>>
  <2>1. <<>> \in Seq({"w"})
    OBVIOUS
  <2> QED
    BY <2>1, Zenon
<1>4. term = [data |-> data, current_line |-> 0, current_char |-> 0,
              command_buffer |-> buffer, line_wrap_count |-> 0,
              lines_added |-> FALSE, strayed |-> FALSE, undefined |-> FALSE]
  BY <1>1, <1>2, <1>3, Zenon DEF Init
<1>5. /\ term.data = data /\ term.current_line = 0 /\ term.current_char = 0
      /\ term.command_buffer = buffer /\ ~term.strayed /\ ~term.undefined
  BY <1>4
<1>6. OnLast(term) /\ Behind(term)
  BY <1>1, <1>2, <1>5 DEF OnLast, Behind, Here
<1>7. TextOf(data) = <<>>
  <2>1. PICK seqs : seqs \in Seq(Seq(Symbol)) /\ seqs = Marks(data)
    BY <1>2, MarksTyped, Zenon
  <2>2. Len(seqs) = 1 /\ \A i \in 1 .. 1 : seqs[i] = NonBlank(data[i])
    BY <1>2, <2>1, MarksTyped, Zenon
  <2>3. NonBlank(line) = <<>>
    <3>1. PICK keep : keep = {i \in DOMAIN line : line[i] # "blank"}
      OBVIOUS
    <3>2. PICK f : KeptUpTo(line, keep, f) /\ Kept(line, keep) = f[Len(line)]
      BY <1>1, KeptRecursion
    <3>3. f[0] = <<>>
      <4>1. line \in Seq(Symbol)
        BY <1>1
      <4> QED
        BY <3>2, <4>1, KeptTyped
    <3> QED
      BY <1>1, <3>1, <3>2, <3>3, Zenon DEF NonBlank
  <2>4. PICK f : FlatUpTo(seqs, f, Symbol) /\ FlattenSeq(seqs) = f[Len(seqs)]
    BY <2>1, Flat
  <2>5. f[0] = <<>> /\ f[1] = f[1 - 1] \o seqs[1]
    BY <2>2, <2>4 DEF FlatUpTo
  <2>6. seqs[1] = <<>>
    <3>1. 1 \in 1 .. 1
      OBVIOUS
    <3> QED
      BY <1>2, <2>2, <2>3, <3>1, Zenon
  <2>7. 1 - 1 = 0 /\ <<>> \o <<>> = <<>>
    OBVIOUS
  <2> QED
    BY <2>1, <2>2, <2>4, <2>5, <2>6, <2>7, Zenon DEF TextOf
<1>8. <<>> \o <<>> = <<>>
  OBVIOUS
<1>9. Placed(term, <<>>)
  BY <1>3, <1>5, <1>6, <1>7, <1>8, Zenon DEF Placed
<1> QED
  BY <1>6, <1>9, Zenon DEF InOrder, Init

(* A text of plain characters is appended to what is shown; any other ends   *)
(* the claim.                                                                *)
LEMMA InOrderNext ==
    ASSUME Typed, InOrder, [Next]_vars
    PROVE  InOrder'
<1>1. Screen /\ Sound(term) /\ columns \in Nat /\ written \in Seq(Symbol)
  BY TypedScreen DEF Typed, Screen
<1>2. ASSUME NEW text \in Texts, add_text(text) PROVE InOrder'
  <2> SUFFICES ASSUME plain' PROVE InOrder'
    BY DEF InOrder
  <2>1. PICK u : u = Added(text)
    OBVIOUS
  <2>2. /\ term' = IF u.lines_added THEN Recounted(u, columns) ELSE u
        /\ type' = type /\ plain /\ IsPlain(text)
        /\ written' = written \o Symbols(text)
    BY <1>2, <2>1, Zenon DEF add_text
  <2>3. Sound(u)
    BY <1>1, <2>1, AddedSound
  <2>4. Placed(u, written') /\ Behind(u)
    <3>1. Len(text) \in Nat /\ \A n \in 1 .. Len(text) : Sendable(text[n])
      BY Characters
    <3>2. Placed(term, written) /\ Behind(term)
      BY <2>2 DEF InOrder
    <3>3. Placed(u, written \o Symbols(text)) /\ Behind(u)
      BY <1>1, <2>1, <2>2, <3>1, <3>2, PlainText
    <3> QED
      BY <2>2, <3>3
  <2>5. PICK v : term' = v /\ Placed(v, written') /\ Behind(v)
    <3>1. Placed(Recounted(u, columns), written') /\ Behind(Recounted(u, columns))
      BY <1>1, <2>3, <2>4, RecountedPlaced
    <3> QED
      BY <2>2, <2>4, <3>1, Zenon
  <2>6. PICK w : w = written'
    OBVIOUS
  <2> QED
    BY <2>2, <2>5, <2>6, PlacedNext
<1>3. ASSUME NEW width \in Columns, Resize(width) PROVE InOrder'
  <2> SUFFICES ASSUME plain' PROVE InOrder'
    BY DEF InOrder
  <2>1. width \in Nat
    BY TerminalAssumption
  <2>2. /\ term' = Recounted(term, width) /\ type' = type /\ written' = written
        /\ plain
    BY <1>3, Zenon DEF Resize
  <2>3. Placed(term, written) /\ Behind(term)
    BY <2>2 DEF InOrder
  <2>4. Placed(Recounted(term, width), written) /\ Behind(Recounted(term, width))
    BY <1>1, <2>1, <2>3, RecountedPlaced
  <2>5. PICK v : term' = v /\ Placed(v, written) /\ Behind(v)
    BY <2>2, <2>4
  <2> QED
    BY <2>2, <2>5, PlacedNext
<1>4. ASSUME UNCHANGED vars PROVE InOrder'
  <2> SUFFICES ASSUME plain' PROVE InOrder'
    BY DEF InOrder
  <2>1. term' = term /\ type' = type /\ written' = written /\ plain
    BY <1>4, Zenon DEF vars
  <2>2. PICK v : term' = v /\ Placed(v, written) /\ Behind(v)
    BY <2>1 DEF InOrder
  <2> QED
    BY <2>1, <2>2, PlacedNext
<1> QED
  BY <1>2, <1>3, <1>4, Zenon DEF Next

(* Whatever plain text the session sends, in pieces cut anywhere, the lines  *)
(* and the bytes add_text holds back are together what was sent: nothing is  *)
(* lost, shown twice or shown before something sent earlier.                 *)
THEOREM NothingOutOfOrder == Spec => []TextInOrder
<1>1. Init => Typed /\ InOrder
  BY TypedInit, InOrderInit
<1>2. Typed /\ InOrder /\ [Next]_vars => (Typed /\ InOrder)'
  BY TypedNext, InOrderNext
<1>3. InOrder => TextInOrder
  BY Zenon DEF InOrder, Placed, TextInOrder, TextOf, Marks
<1> QED
  BY <1>1, <1>2, <1>3, PTL DEF Spec
===============================================================================
