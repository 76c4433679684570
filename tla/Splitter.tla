------------------------------ MODULE Splitter ------------------------------
(***************************************************************************)
(* How pbench cuts a text into parts: SplitQueries cuts a query file into  *)
(* statements, `pbench round` a row into fields.                           *)
(*                                                                         *)
(* Both give a split function, ScanSqlStmt or scanCommaSeparatedField, to  *)
(* a bufio.Scanner, which calls it with what it has read so far and not    *)
(* yet consumed, in pieces of any size.  The function looks at that window *)
(* from its beginning each time, and asks for more until a part is over.   *)
(* No part may depend on where a piece ends.                               *)
(***************************************************************************)
EXTENDS Integers, Sequences, FiniteSetsExt, SequencesExt

CONSTANTS
  Texts,             \* [kind : {"sql", "csv"}, chars : Seq(characters)]
  MaxToken           \* the Scanner's limit: 1 MB for queries, 64 KB for fields

ASSUME SplitterAssumption == MaxToken \in Nat \ {0}

VARIABLES
  text,
  start, end,        \* the Scanner's window: chars start + 1 .. end
  atEOF,
  tokens,
  scanPc             \* "splitting", "reading", "ended", "tooLong" or "error"

scanVars == <<text, start, end, atEOF, tokens, scanPc>>

Quotes == {"'", "\""}
Blank == {" ", "\n"}

\* strings.TrimSpace
TrimSpace(s) ==
  LET solid == {i \in DOMAIN s : s[i] \notin Blank}
  IN IF solid = {} THEN <<>> ELSE SubSeq(s, Min(solid), Max(solid))

\* The first position from pos on of a character in S, 0 if there is none.
IndexAny(data, pos, S) == SelectInSubSeq(data, pos, Len(data), LAMBDA c : c \in S)

-----------------------------------------------------------------------------
(* Faulty variants of definitions below; each breaks SplitExact.           *)

\* One backslash before a quote escapes it, itself escaped or not.
EscapedByOne(data, i) == i > 1 /\ data[i - 1] = "\\"

-----------------------------------------------------------------------------
\* Is the quote at i after an odd number of backslashes?
Escaped(data, i) ==
  LET others == {j \in 1..(i - 1) : data[j] # "\\"}
      before == IF others = {} THEN 0 ELSE Max(others)
  IN (i - 1 - before) % 2 = 1

\* ScanSqlStmt's loop from pos on: where the statement's semicolon is, 0 if it has none yet.
\* place is "sql", "comment", "multiline" or the open quote.
RECURSIVE Semicolon(_, _, _)
Semicolon(data, pos, place) ==
  LET stops == CASE place = "sql"       -> {"-", "'", "\"", ";", "/"}
                 [] place = "comment"   -> {"\n"}
                 [] place = "multiline" -> {"*"}
                 [] OTHER               -> {place}
      i == IndexAny(data, pos, stops)
      next == IF i < Len(data) THEN data[i + 1] ELSE ""
  IN IF i = 0 THEN 0
     ELSE CASE place = "comment" -> Semicolon(data, i + 1, "sql")
            [] place = "multiline" -> IF next = "/" THEN Semicolon(data, i + 2, "sql")
                                                   ELSE Semicolon(data, i + 1, place)
            [] place \in Quotes -> Semicolon(data, i + 1, IF Escaped(data, i) THEN place ELSE "sql")
            [] OTHER ->
                 CASE data[i] = ";" -> i
                   [] data[i] \in Quotes -> Semicolon(data, i + 1, data[i])
                   [] data[i] = "-" /\ next = "-" -> Semicolon(data, i + 2, "comment")
                   [] data[i] = "/" /\ next = "*" -> Semicolon(data, i + 2, "multiline")
                   [] OTHER -> Semicolon(data, i + 1, place)

\* scanCommaSeparatedField's loop: where the field's comma is, 0 if it has none yet, -1 if
\* the window ends inside quotes.
RECURSIVE Comma(_, _, _)
Comma(data, pos, place) ==
  LET i == IndexAny(data, pos, IF place = "field" THEN {"'", "\"", ",", "\n"} ELSE {place})
  IN IF i = 0 THEN IF place = "field" THEN 0 ELSE -1
     ELSE IF place # "field" THEN Comma(data, i + 1, IF Escaped(data, i) THEN place ELSE "field")
     ELSE IF data[i] \in Quotes THEN Comma(data, i + 1, data[i])
     ELSE i

\* What the split function returns: bytes to advance (0 asks for more), and the token.
SplitFunc(kind, data, eof) ==
  LET cut == IF kind = "sql" THEN Semicolon(data, 1, "sql") ELSE Comma(data, 1, "field")
  IN IF cut > 0 THEN [advance |-> cut, token |-> TrimSpace(SubSeq(data, 1, cut - 1)), err |-> FALSE]
     ELSE IF ~eof THEN [advance |-> 0, token |-> <<>>, err |-> FALSE]
     ELSE IF cut < 0 THEN [advance |-> 0, token |-> <<>>, err |-> TRUE]
     ELSE [advance |-> Len(data), token |-> TrimSpace(data), err |-> FALSE]

-----------------------------------------------------------------------------
(* bufio.Scanner, as SplitQueries and round use it.                        *)

ScanInit ==
  /\ text \in Texts
  /\ start = 0 /\ end = 0 /\ atEOF = FALSE
  /\ tokens = <<>> /\ scanPc = "reading"

\* scanner.Scan() calls the split function.  A token is returned, the caller appends it and
\* calls Scan again.  Without one, be it for an empty part that was cut off, the Scanner does not
\* look at the rest of its window: it reads more, or gives up if it has seen the end.
Scan ==
  /\ scanPc = "splitting"
  /\ LET r == SplitFunc(text.kind, SubSeq(text.chars, start + 1, end), atEOF)
     IN /\ start' = start + r.advance
        /\ \/ /\ r.token # <<>>
              /\ tokens' = Append(tokens, r.token)
              /\ scanPc' = IF start' < end \/ atEOF THEN "splitting" ELSE "reading"
           \/ /\ r.token = <<>>
              /\ scanPc' = IF r.err THEN "error" ELSE IF atEOF THEN "ended" ELSE "reading"
              /\ UNCHANGED tokens
  /\ UNCHANGED <<text, end, atEOF>>

\* The reader returns a piece of any size, or the end of the file.
Read ==
  /\ scanPc = "reading" /\ end - start < MaxToken
  /\ LET left == Len(text.chars) - end
     IN \/ /\ \E n \in 1..Min({left, MaxToken - (end - start)}) : end' = end + n
           /\ UNCHANGED atEOF
        \/ /\ left = 0
           /\ atEOF' = TRUE
           /\ UNCHANGED end
  /\ scanPc' = "splitting"
  /\ UNCHANGED <<text, start, tokens>>

\* bufio.ErrTooLong
BufferFull ==
  /\ scanPc = "reading" /\ end - start >= MaxToken
  /\ scanPc' = "tooLong"
  /\ UNCHANGED <<text, start, end, atEOF, tokens>>

ScanNext == Scan \/ Read \/ BufferFull

-----------------------------------------------------------------------------
(* The parts, defined on the whole text character by character.  A state is where a character *)
(* leaves the text, and the character if the next one may combine with it.                    *)

StepSql(m, c) ==
  CASE m[1] = "sql" ->
         CASE c = "-" -> IF m[2] = "-" THEN <<"comment", "">> ELSE <<"sql", "-">>
           [] c = "*" /\ m[2] = "/" -> <<"multiline", "">>
           [] c \in Quotes -> <<c, "">>
           [] OTHER -> <<"sql", c>>
    [] m[1] = "comment" -> IF c = "\n" THEN <<"sql", "">> ELSE m
    [] m[1] = "multiline" -> IF m[2] = "*" /\ c = "/" THEN <<"sql", "">> ELSE <<"multiline", c>>
    [] OTHER -> IF c = m[1] /\ m[2] # "\\" THEN <<"sql", "">>
                ELSE <<m[1], IF c = "\\" /\ m[2] # "\\" THEN "\\" ELSE "">>

\* Fields have no comments.
StepCsv(m, c) == IF m[1] = "sql" THEN <<IF c \in Quotes THEN c ELSE "sql", "">> ELSE StepSql(m, c)

States(t) ==
  LET s[i \in 0..Len(t.chars)] ==
        IF i = 0 THEN <<"sql", "">>
        ELSE IF t.kind = "sql" THEN StepSql(s[i - 1], t.chars[i]) ELSE StepCsv(s[i - 1], t.chars[i])
  IN s

Separators(t) ==
  LET states == States(t)
  IN {i \in DOMAIN t.chars : /\ t.chars[i] \in (IF t.kind = "sql" THEN {";"} ELSE {",", "\n"})
                             /\ states[i - 1][1] = "sql"}

\* What is between the separators, trimmed.
Parts(t) ==
  LET separators == Separators(t)
      cuts == SelectSeq([i \in 1..Len(t.chars) |-> i], LAMBDA i : i \in separators)
      from == <<0>> \o cuts
      to   == Append(cuts, Len(t.chars) + 1)
  IN [k \in DOMAIN from |-> TrimSpace(SubSeq(t.chars, from[k] + 1, to[k] - 1))]

NotEmpty(parts) == SelectSeq(parts, LAMBDA p : p # <<>>)
EmptyAmong(parts) == {k \in DOMAIN parts : parts[k] = <<>>}

EndsInQuotes(t) == t.kind = "csv" /\ States(t)[Len(t.chars)][1] # "sql"

\* However the text arrives, what is returned are its first k parts without the empty ones: all
\* of them, or, if the scanner gives up at an empty part after another one, those before it.
\* A text with at most one empty part is returned in full; the last part needs no separator.
\* If the scanner stops with an error, the next part is longer than the buffer, or a field
\* whose quotes are not closed.
SplitExact ==
  LET parts == Parts(text)
  IN /\ scanPc = "ended" =>
          \E k \in 0..Len(parts) :
            LET returned == SubSeq(parts, 1, k)
            IN /\ tokens = NotEmpty(returned)
               /\ \/ k = Len(parts) /\ ~EndsInQuotes(text)
                  \/ k \in EmptyAmong(returned) /\ Cardinality(EmptyAmong(returned)) > 1
     /\ scanPc \in {"tooLong", "error"} => IsPrefix(tokens, NotEmpty(parts))
     /\ scanPc = "tooLong" => (start + 1)..(start + MaxToken) \cap Separators(text) = {}
     /\ scanPc = "error" => EndsInQuotes(text)
=============================================================================
