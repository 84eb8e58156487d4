----------------------------- MODULE ProcArgs -----------------------------
(***************************************************************************)
(* The command line xiom_process_spawn_args builds on Windows: each        *)
(* argument of the blob is appended with the quoting that the C runtime of *)
(* the child undoes.  A text is a sequence of characters, of which only    *)
(* the backslash, the quote, the blank and the others differ.              *)
(***************************************************************************)
EXTENDS Integers, Sequences, SequencesExt

CONSTANT LineCap    \* bytes of the command line buffer, its terminator included

ASSUME LineAssumption == LineCap \in Nat \ {0, 1}

Chars == {"bs", "quote", "blank", "letter"}
NoRoom == <<"no room">>    \* the function's -1

\* A write of some characters, which must leave room for `spare` more.
Put(out, text, spare) ==
  IF out = NoRoom \/ Len(out) + Len(text) > LineCap - spare THEN NoRoom ELSE out \o text

Backslashes(n) == [k \in 1 .. n |-> "bs"]

\* Faulty variant, in no result: backslashes before a quote are not doubled.
FaultyQuoteChar(acc, c) ==
  CASE c = "bs"    -> [acc EXCEPT !.bs = @ + 1]
    [] c = "quote" -> [out |-> Put(Put(acc.out, Backslashes(acc.bs + 1), 1), <<c>>, 1), bs |-> 0]
    [] OTHER       -> [out |-> Put(Put(acc.out, Backslashes(acc.bs), 1), <<c>>, 1), bs |-> 0]

\* One character between the quotes: backslashes are counted until what
\* follows them is known.
QuoteChar(acc, c) ==
  CASE c = "bs"    -> [acc EXCEPT !.bs = @ + 1]
    [] c = "quote" -> [out |-> Put(Put(acc.out, Backslashes(2 * acc.bs + 1), 1), <<c>>, 1),
                       bs |-> 0]
    [] OTHER       -> [out |-> Put(Put(acc.out, Backslashes(acc.bs), 1), <<c>>, 1), bs |-> 0]

NeedsQuotes(arg) == arg = <<>> \/ \E k \in DOMAIN arg : arg[k] \in {"blank", "quote"}

Quoted(out, arg) ==
  LET body[k \in 0 .. Len(arg)] ==
        IF k = 0 THEN [out |-> Put(out, <<"quote">>, 1), bs |-> 0] ELSE QuoteChar(body[k - 1], arg[k])
      ended == body[Len(arg)]
  IN Put(Put(ended.out, Backslashes(2 * ended.bs), 1), <<"quote">>, 1)

\* xiom_win_quote_arg
QuoteArg(out, arg) ==
  LET begun == IF Len(out) > 0 THEN Put(out, <<"blank">>, 1) ELSE out
  IN IF out = NoRoom THEN NoRoom
     ELSE IF NeedsQuotes(arg) THEN Quoted(begun, arg) ELSE Put(begun, arg, 1)

\* What the blob keeps of an argument list: an empty argument is its end.
Blob(args) ==
  SubSeq(args, 1, SelectInSeq(args \o << <<>> >>, LAMBDA arg : arg = <<>>) - 1)

\* xiom_process_spawn_args: a blob without arguments stands for the file itself.
Listed(file, args) == IF Blob(args) = <<>> THEN <<file>> ELSE Blob(args)

CommandLine(file, args) ==
  LET list == Listed(file, args)
      line[k \in 0 .. Len(list)] == IF k = 0 THEN <<>> ELSE QuoteArg(line[k - 1], list[k])
  IN line[Len(list)]
-----------------------------------------------------------------------------
(* The child's side, which is external: how the C runtime splits a line.   *)

ParseChar(acc, c) ==
  LET escaped == acc.bs % 2 = 1
      kept    == acc.word \o Backslashes(acc.bs)
      halved  == acc.word \o Backslashes(acc.bs \div 2)
  IN CASE c = "bs" -> [acc EXCEPT !.bs = @ + 1, !.open = TRUE]
       [] c = "quote" /\ escaped -> [acc EXCEPT !.word = Append(halved, c), !.bs = 0]
       [] c = "quote" /\ ~escaped ->
            [acc EXCEPT !.word = halved, !.bs = 0, !.inside = ~@, !.open = TRUE]
       [] c = "blank" /\ ~acc.inside ->
            [acc EXCEPT !.argv = IF acc.open THEN Append(@, kept) ELSE @,
                        !.word = <<>>, !.bs = 0, !.open = FALSE]
       [] OTHER -> [acc EXCEPT !.word = Append(kept, c), !.bs = 0, !.open = TRUE]

Between(argv) == [argv |-> argv, word |-> <<>>, bs |-> 0, inside |-> FALSE, open |-> FALSE]

Parse(line) ==
  LET text == Append(line, "blank")
      acc[k \in 0 .. Len(text)] == IF k = 0 THEN Between(<<>>) ELSE ParseChar(acc[k - 1], text[k])
  IN acc[Len(text)].argv
=============================================================================
