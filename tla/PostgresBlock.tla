--------------------------- MODULE PostgresBlock ---------------------------
(***************************************************************************)
(* The blocks that cross between PostgresWire and NativePostgres.cpp: the  *)
(* bound values one way, a result the other. A cell stands for a byte and  *)
(* for a four-byte integer alike, and an integer holds -Top-1 .. Top: the  *)
(* arithmetic on lengths wraps where the code's would.                     *)
(***************************************************************************)
EXTENDS Integers, Sequences, FiniteSets
LOCAL INSTANCE SequencesExt

CONSTANTS
  Top,        \* INT_MAX
  MaxValues,  \* bound: values bound, columns, rows
  MaxCells,   \* bound: cells of a block that is not one of encodeParameters'
  MaxDigits   \* bound: digits of a count

VARIABLES
  asked,      \* what is given to the code
  answer      \* what it gives back: a sequence of one, or none yet

blockVars == <<asked, answer>>

Wide == 2 * (Top + 1)
Wrap(n) == ((n + Top + 1) % Wide) - (Top + 1)
Unsigned(cell) == IF cell < 0 THEN cell + Wide ELSE cell
Larger(a, b) == IF a > b THEN a ELSE b

\* A value's bytes, or NULL, which is no value of any length.
NULL == [null |-> TRUE]
Text(bytes) == [null |-> FALSE, bytes |-> bytes]
Refused == [ok |-> FALSE]

-----------------------------------------------------------------------------
\* encodeParameters: a count, then a format, a length and bytes for each.
EncodeParameter(p) ==
  IF p.value.null THEN <<0, -1>> ELSE <<p.format, Len(p.value.bytes)>> \o p.value.bytes

encodeParameters(params) ==
  <<Len(params)>> \o FlattenSeq([i \in DOMAIN params |-> EncodeParameter(params[i])])

\* Variant of Fits: by the sum.
FitsBySum(block, cursor, length) == Wrap(cursor + length) <= Len(block)

\* The check before a value is copied: by the difference.
Fits(block, cursor, length) == length <= Wrap(Len(block) - cursor)

\* A whole integer is left at the cursor.
takeInt(block, cursor) == cursor >= 0 /\ Len(block) - cursor >= 1

\* The values of a block from the cursor on, each a span of it.
RECURSIVE ParseValues(_, _, _)
ParseValues(block, cursor, count) ==
  IF count = 0 THEN [ok |-> TRUE, spans |-> <<>>]
  ELSE IF ~takeInt(block, cursor) \/ ~takeInt(block, cursor + 1) THEN Refused
  ELSE LET format == IF block[cursor + 1] = 1 THEN 1 ELSE 0
           length == block[cursor + 2]
           start == cursor + 2
           rest == ParseValues(block, Wrap(start + Larger(length, 0)), count - 1)
       IN  IF (length >= 0 /\ ~Fits(block, start, length)) \/ ~rest.ok THEN Refused
           ELSE [ok |-> TRUE, spans |-> <<[format |-> format, at |-> start, length |-> length]>>
                                          \o rest.spans]

\* A count the block cannot hold is refused before anything is sized by it.
CountHeld(block) == block[1] >= 0 /\ block[1] <= (Len(block) - 1) \div 2

parseParameters(block) ==
  IF ~takeInt(block, 0) \/ ~CountHeld(block) THEN Refused ELSE ParseValues(block, 1, block[1])

\* What libpq is handed for a span: a null pointer, or bytes.
Bound(block, span) ==
  [format |-> span.format,
   value |-> IF span.length < 0 THEN NULL
             ELSE Text(SubSeq(block, span.at + 1, span.at + span.length))]

-----------------------------------------------------------------------------

\* The count in decimal, saturating at 2^64 - 1 (two halves of Wide).
parseAffectedRows(digits) ==
  LET Full == Wide * Wide - 1
  IN  FoldLeft(LAMBDA value, digit :
                 IF value = Full \/ value > (Full - digit) \div 10 THEN Full
                 ELSE value * 10 + digit,
               0, digits)

EncodeCell(v) == IF v.null THEN <<-1>> ELSE <<Len(v.bytes)>> \o v.bytes
Signed(n) == IF n > Top THEN n - Wide ELSE n

\* What encodeResult sizes its block by, before it writes it.
SizeOf(r) ==
  6 + FoldLeft(LAMBDA n, name : n + 1 + Len(name), 0, r.fields)
    + FoldLeft(LAMBDA n, v : n + 1 + IF v.null THEN 0 ELSE Len(v.bytes), 0, FlattenSeq(r.rows))
    + 1 + Len(r.command)

\* What it writes.
Written(r) ==
  LET affected == parseAffectedRows(r.digits)
  IN  <<0, Signed(affected % Wide), Signed(affected \div Wide), Signed(r.oid), Len(r.fields)>>
      \o FlattenSeq([i \in DOMAIN r.fields |-> <<Len(r.fields[i])>> \o r.fields[i]])
      \o <<Len(r.rows)>>
      \o FlattenSeq([i \in DOMAIN FlattenSeq(r.rows) |-> EncodeCell(FlattenSeq(r.rows)[i])])
      \o <<Len(r.command)>> \o r.command

errorBlock == <<1, 0>>

encodeResult(r) == IF SizeOf(r) > Top THEN errorBlock ELSE Written(r)

\* The reads of a Cursor: n values, each after its length.
RECURSIVE ReadValues(_, _, _)
ReadValues(block, cursor, n) ==
  IF n = 0 THEN [ok |-> TRUE, values |-> <<>>, at |-> cursor]
  ELSE IF cursor >= Len(block) \/ block[cursor + 1] > Len(block) - cursor - 1 THEN Refused
  ELSE LET length == block[cursor + 1]
           value == IF length < 0 THEN NULL ELSE Text(SubSeq(block, cursor + 2, cursor + 1 + length))
           rest == ReadValues(block, cursor + 1 + Larger(length, 0), n - 1)
       IN  IF rest.ok THEN [rest EXCEPT !.values = <<value>> \o @] ELSE Refused

\* __command: the tag after the rows, when there is one.
CommandOf(block, cursor) ==
  IF Len(block) - cursor < 1 THEN [ok |-> TRUE, values |-> <<NULL>>]
  ELSE LET tag == ReadValues(block, cursor, 1)
       IN  IF tag.ok /\ NULL \notin Range(tag.values) THEN tag ELSE Refused

\* __head: the status, counts and column names, no count or length below zero.
HeadOf(block) ==
  LET names == ReadValues(block, 5, block[5])
      rowCount == block[names.at + 1]
  IN  IF \/ Len(block) < 5 \/ block[1] # 0 \/ block[5] < 0
         \/ ~names.ok \/ NULL \in Range(names.values) \/ names.at >= Len(block)
         \/ rowCount < 0 \/ (block[5] = 0 /\ rowCount > 0)
      THEN Refused
      ELSE [ok |-> TRUE, at |-> names.at + 1, rowCount |-> rowCount,
            affected |-> Unsigned(block[3]) * Wide + Unsigned(block[2]),
            oid |-> Unsigned(block[4]),
            fields |-> [i \in DOMAIN names.values |-> names.values[i].bytes]]

\* decodeResult: the head, the rows, a length below zero a NULL, and the tag.
decodeResult(block) ==
  LET head == HeadOf(block)
      n == Len(head.fields)
      cells == ReadValues(block, head.at, head.rowCount * n)
      tag == CommandOf(block, cells.at)
  IN  IF ~head.ok \/ ~cells.ok \/ ~tag.ok THEN Refused
      ELSE [ok |-> TRUE, affected |-> head.affected, oid |-> head.oid,
            fields |-> head.fields, command |-> tag.values[1],
            rows |-> [i \in 1..head.rowCount |-> SubSeq(cells.values, (i - 1) * n + 1, i * n)]]

-----------------------------------------------------------------------------
SeqsTo(S, n) == UNION {[1..k -> S] : k \in 0..n}

Bytes == {<<>>, <<0>>, <<1, Top>>}
ValuesOf == {NULL} \cup {Text(b) : b \in Bytes}
ParameterLists ==
  SeqsTo({[format |-> f, value |-> v] : f \in {0, 1}, v \in ValuesOf} \ {[format |-> 1, value |-> NULL]},
         MaxValues)
Blocks == SeqsTo({-Top - 1, -1, 0, 1, 2, Top - 1, Top}, MaxCells)
Digits == SeqsTo({0, 1, 9}, MaxDigits)
RowsOf(n) == SeqsTo([1..n -> ValuesOf], IF n = 0 THEN 0 ELSE IF n = 1 THEN 2 ELSE 1)
Results ==
  UNION {[fields : [1..n -> {<<>>, <<1>>}], rows : RowsOf(n), digits : {<<>>, <<9>>, <<1, 0, 0>>},
          oid : {0, Top, Wide - 1}, command : {<<>>, <<1, 1>>}] : n \in 0..MaxValues}

BlockInit ==
  /\ answer = <<>>
  /\ \/ \E p \in ParameterLists : asked = [what |-> "bind", params |-> p]
     \/ \E b \in Blocks : asked = [what |-> "parse", block |-> b]
     \/ \E r \in Results : asked = [what |-> "result", result |-> r]
     \/ \E d \in Digits : asked = [what |-> "count", digits |-> d]

Bind ==
  /\ asked.what = "bind" /\ answer = <<>>
  /\ LET block == encodeParameters(asked.params)
         parsed == parseParameters(block)
     IN  answer' = <<IF parsed.ok THEN [ok |-> TRUE, params |-> [i \in DOMAIN parsed.spans |->
                                                                  Bound(block, parsed.spans[i])]]
                     ELSE Refused>>
  /\ UNCHANGED asked

Parse ==
  /\ asked.what = "parse" /\ answer = <<>>
  /\ answer' = <<parseParameters(asked.block)>> /\ UNCHANGED asked

Fetch ==
  /\ asked.what = "result" /\ answer = <<>>
  /\ LET block == encodeResult(asked.result)
     IN  answer' = <<[block |-> block,
                      decoded |-> IF block[1] = 1 THEN Refused ELSE decodeResult(block)]>>
  /\ UNCHANGED asked

Count ==
  /\ asked.what = "count" /\ answer = <<>>
  /\ answer' = <<parseAffectedRows(asked.digits)>> /\ UNCHANGED asked

BlockNext == Bind \/ Parse \/ Fetch \/ Count
BlockSpec == BlockInit /\ [][BlockNext]_blockVars

Answered(what) == asked.what = what /\ answer # <<>>

-----------------------------------------------------------------------------
\* The values bound are the ones libpq is handed, in order, a NULL and a
\* value of no bytes apart (encodeParameters, parseParameters).
ValuesArrive ==
  Answered("bind") => answer[1] = [ok |-> TRUE, params |-> asked.params]

\* Whatever the block, a value taken from it lies inside it, after the one
\* before, and there are as many as it says: no length, however large, gets
\* past the truncation checks.
ParseStaysInside ==
  Answered("parse") /\ answer[1].ok =>
    LET spans == answer[1].spans
        End(s) == s.at + Larger(s.length, 0)
    IN  /\ Len(spans) = asked.block[1]
        /\ \A i \in DOMAIN spans : End(spans[i]) <= Len(asked.block)
        /\ \A i \in 2..Len(spans) : End(spans[i - 1]) + 2 = spans[i].at

\* A result that fits is read back as it was, and its block is written to its
\* last byte; one that does not is refused, never cut (encodeResult).
ResultArrives ==
  Answered("result") =>
    LET r == asked.result
        back == answer[1].decoded
    IN  IF SizeOf(r) > Top THEN answer[1].block = errorBlock
        ELSE /\ Len(answer[1].block) = SizeOf(r)
             /\ back.ok /\ back.fields = r.fields /\ back.rows = r.rows /\ back.oid = r.oid
             /\ back.command = Text(r.command) /\ back.affected = parseAffectedRows(r.digits)

\* The rows a command changed are counted exactly, or at the most there is:
\* never as fewer than they were because the count was long.
CountSaturates ==
  Answered("count") =>
    LET exact == FoldLeft(LAMBDA n, d : n * 10 + d, 0, asked.digits)
    IN  answer[1] = IF exact < Wide * Wide THEN exact ELSE Wide * Wide - 1

\* What goes through a block comes out as it went in, or is refused: bound
\* values, results and counts, with no length believed that leads outside.
BlocksAreExact == ValuesArrive /\ ParseStaysInside /\ ResultArrives /\ CountSaturates
=============================================================================
