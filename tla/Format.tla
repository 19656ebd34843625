------------------------------- MODULE Format -------------------------------
(***************************************************************************)
(* printf of lib/stdio.c.  A format is a sequence of characters, its       *)
(* arguments a sequence of integers (as unsigned, or signed for a "*"),    *)
(* sequences of characters and NULL; what is written is a sequence of      *)
(* characters.                                                             *)
(***************************************************************************)
EXTENDS Integers, Sequences, SequencesExt, FiniteSetsExt, Pointers

CONSTANTS Bits,       \* of each type of argument
          BUF_SIZE,   \* of format_integer's buffer, 64 in the code
          PER_LINE    \* bytes a line of hex_dump, 16 in the code

ASSUME FormatAssumption ==
    /\ Bits \in [{"CHAR", "SHORT", "INT", "INTMAX", "LONG", "LONGLONG", "PTRDIFFT", "SIZET"} -> Nat]
    /\ BUF_SIZE \in Nat /\ PER_LINE \in Nat \ {0}

Digit == <<"0", "1", "2", "3", "4", "5", "6", "7", "8", "9", "a", "b", "c", "d", "e", "f">>
Upper == SubSeq(Digit, 1, 10) \o <<"A", "B", "C", "D", "E", "F">>

base_d == [base |-> 10, digits |-> Digit, x |-> NULL, group |-> 3]
base_o == [base |-> 8, digits |-> Digit, x |-> NULL, group |-> 3]
base_x == [base |-> 16, digits |-> Digit, x |-> "x", group |-> 4]
base_X == [base |-> 16, digits |-> Upper, x |-> "X", group |-> 4]

output_dup(ch, cnt) == [i \in 1 .. cnt |-> ch]

NonNeg(n) == IF n < 0 THEN 0 ELSE n

-----------------------------------------------------------------------------
\* The digits, last one first, with the groups set apart; CNT are in the buffer.
RECURSIVE reversed_digits(_, _, _, _)
reversed_digits(v, cnt, b, group) ==
    IF v = 0 THEN <<>>
    ELSE (IF group /\ cnt > 0 /\ cnt % b.group = 0 THEN <<",">> ELSE <<>>)
         \o <<b.digits[(v % b.base) + 1]>>
         \o reversed_digits(v \div b.base, cnt + 1, b, group)

\* What format_integer has in its buffer before it writes anything out.
integer_buffer(v, b, c) ==
    LET b1 == reversed_digits(v, 0, b, "GROUP" \in c.flags)
        precision == IF c.precision < 0 THEN 1 ELSE c.precision
        upto == Min({precision, BUF_SIZE - 1})
        b2 == b1 \o output_dup("0", NonNeg(upto - Len(b1)))
    IN  IF "POUND" \in c.flags /\ b.base = 8 /\ (b2 = <<>> \/ Last(b2) # "0")
        THEN Append(b2, "0") ELSE b2

format_integer(v, is_signed, negative, b, c) ==
    LET sign == IF ~is_signed THEN <<>>
                ELSE IF negative THEN <<"-">>
                ELSE IF "PLUS" \in c.flags THEN <<"+">>
                ELSE IF "SPACE" \in c.flags THEN <<" ">> ELSE <<>>
        x == IF "POUND" \in c.flags /\ v # 0 /\ b.x # NULL THEN <<"0", b.x>> ELSE <<>>
        buf == integer_buffer(v, b, c)
        pad_cnt == NonNeg(c.width - Len(buf) - Len(x) - Len(sign))
        pad(ch, cond) == IF cond THEN output_dup(ch, pad_cnt) ELSE <<>>
    IN  pad(" ", c.flags \cap {"MINUS", "ZERO"} = {}) \o sign \o x
        \o pad("0", "ZERO" \in c.flags) \o Reverse(buf) \o pad(" ", "MINUS" \in c.flags)

format_string(s, c) ==
    LET pad == output_dup(" ", NonNeg(c.width - Len(s)))
    IN  IF "MINUS" \in c.flags THEN s \o pad ELSE pad \o s

-----------------------------------------------------------------------------
At(f, i) == IF i <= Len(f) THEN f[i] ELSE ""

\* How many characters from I on are in a set, and the number they spell.
Span(f, i, set) == CHOOSE n \in 0 .. Len(f) : /\ \A k \in 0 .. n - 1 : At(f, i + k) \in set
                                              /\ At(f, i + n) \notin set
Decimal == ToSet(SubSeq(Digit, 1, 10))
Number(s) == FoldLeft(LAMBDA v, ch : v * 10 + SelectInSeq(Digit, LAMBDA x : x = ch) - 1, 0, s)

FlagOf(ch) == CASE ch = "-" -> "MINUS" [] ch = "+" -> "PLUS" [] ch = " " -> "SPACE"
                [] ch = "#" -> "POUND" [] ch = "0" -> "ZERO" [] ch = "'" -> "GROUP"

\* A number in the format, or the next argument for a "*": the place after it, the
\* arguments left and the value.
Field(f, i, args) ==
    LET n == Span(f, i, Decimal)
    IN  IF At(f, i) = "*" THEN [at |-> i + 1, args |-> Tail(args), v |-> Head(args)]
        ELSE [at |-> i + n, args |-> args, v |-> Number(SubSeq(f, i, i + n - 1))]

TypeAt(f, i) ==
    CASE At(f, i) = "h" -> IF At(f, i + 1) = "h" THEN <<"CHAR", 2>> ELSE <<"SHORT", 1>>
      [] At(f, i) = "l" -> IF At(f, i + 1) = "l" THEN <<"LONGLONG", 2>> ELSE <<"LONG", 1>>
      [] At(f, i) = "j" -> <<"INTMAX", 1>>
      [] At(f, i) = "t" -> <<"PTRDIFFT", 1>>
      [] At(f, i) = "z" -> <<"SIZET", 1>>
      [] OTHER -> <<"INT", 0>>

\* The conversion with flags FL, width W and precision P: with the place of its letter
\* and the arguments left.
Conversion(f, fl, w, p) ==
    LET type == TypeAt(f, p.at)
    IN  [flags |-> (fl \cup (IF w.v < 0 THEN {"MINUS"} ELSE {})) \ (IF p.v >= 0 THEN {"ZERO"} ELSE {}),
         width |-> IF w.v < 0 THEN -w.v ELSE w.v,
         precision |-> IF p.v < 0 THEN -1 ELSE p.v,
         type |-> type[1], at |-> p.at + type[2], args |-> p.args]

\* The same without the precision, which may follow.
ConversionFrom(f, fl, w) ==
    Conversion(f, fl, w, IF At(f, w.at) = "." THEN Field(f, w.at + 1, w.args) ELSE [w EXCEPT !.v = -1])

parse_conversion(f, i, args) ==
    LET n == Span(f, i, {"-", "+", " ", "#", "0", "'"})
        f0 == {FlagOf(f[k]) : k \in i .. i + n - 1}
        f1 == (f0 \ (IF "MINUS" \in f0 THEN {"ZERO"} ELSE {}))
                  \ (IF "PLUS" \in f0 THEN {"SPACE"} ELSE {})
    IN  ConversionFrom(f, f1, Field(f, i + n, args))

\* An argument as the type reads it.
UnsignedArg(a, type) == a % 2^Bits[type]
SignedArg(a, type) ==
    LET n == 2^Bits[type] IN IF a % n >= n \div 2 THEN (a % n) - n ELSE a % n

\* The refusals of unknown and of floating-point conversions differ in their wording.
Refused(how) == <<"<", "<", "n", "o", " ", "%", how, ">", ">">>

\* The conversion C of the letter HOW, of argument A.
Convert(c, how, a) ==
    CASE how \in {"d", "i"} ->
             LET v == SignedArg(a, c.type)
             IN  format_integer(IF v < 0 THEN -v ELSE v, TRUE, v < 0, base_d, c)
      [] how \in {"o", "u", "x", "X"} ->
             LET b == CASE how = "o" -> base_o [] how = "u" -> base_d
                        [] how = "x" -> base_x [] OTHER -> base_X
             IN  format_integer(UnsignedArg(a, c.type), FALSE, FALSE, b, c)
      [] how = "c" -> format_string(a, c)
      [] how = "s" ->
             LET s == IF a = NULL THEN <<"(", "n", "u", "l", "l", ")">> ELSE a
             IN  format_string(IF c.precision < 0 THEN s
                               ELSE SubSeq(s, 1, Min({Len(s), c.precision})), c)
      [] how = "p" -> format_integer(UnsignedArg(a, "LONG"), FALSE, FALSE, base_x,
                                     [c EXCEPT !.flags = {"POUND"}])

Letters == {"d", "i", "o", "u", "x", "X", "c", "s", "p"}

RECURSIVE vprintf_from(_, _, _)

\* The conversion C, and what follows it.
vprintf_conversion(f, c) ==
    IF At(f, c.at) \in Letters
    THEN Convert(c, f[c.at], Head(c.args)) \o vprintf_from(f, c.at + 1, Tail(c.args))
    ELSE Refused(At(f, c.at)) \o vprintf_from(f, c.at + 1, c.args)

vprintf_from(f, i, args) ==
    IF i > Len(f) THEN <<>>
    ELSE IF f[i] # "%" THEN <<f[i]>> \o vprintf_from(f, i + 1, args)
    ELSE IF At(f, i + 1) = "%" THEN <<"%">> \o vprintf_from(f, i + 2, args)
    ELSE vprintf_conversion(f, parse_conversion(f, i + 1, args))

__vprintf(f, args) == vprintf_from(f, 1, args)

\* Mutant: the terminator is not counted in the size of the buffer.
vsnprintf_full(size, f, args) ==
    LET out == __vprintf(f, args)
    IN  [buffer |-> IF size = 0 THEN <<>> ELSE Append(SubSeq(out, 1, Min({Len(out), size})), ""),
         ret |-> Len(out)]

\* The characters stored in a buffer, the null byte among them, and what is returned.
vsnprintf(size, f, args) ==
    LET out == __vprintf(f, args)
    IN  [buffer |-> IF size = 0 THEN <<>> ELSE Append(SubSeq(out, 1, Min({Len(out), size - 1})), ""),
         ret |-> Len(out)]

\* The lines of a hex dump: the offset each is labelled with and the byte in each
\* column, NULL for a blank one.
RECURSIVE hex_dump(_, _)
hex_dump(ofs, buf) ==
    LET start == ofs % PER_LINE
        end == Min({PER_LINE, start + Len(buf)})
        line == [label |-> ofs - start,
                 column |-> [i \in 0 .. PER_LINE - 1 |->
                                IF i \in start .. end - 1 THEN buf[i - start + 1] ELSE NULL]]
    IN  IF buf = <<>> THEN <<>>
        ELSE <<line>> \o hex_dump(ofs + end - start, SubSeq(buf, end - start + 1, Len(buf)))

-----------------------------------------------------------------------------
(* What the output says.                                                   *)

Blanks(out) == Len(SelectSeq(out, LAMBDA ch : ch = " "))

\* A conversion spelled out, its width as a number, as a "*" or left out.
Spelled(flags, width, precision, type, how) ==
    <<"%">> \o flags \o width \o (IF precision < 0 THEN <<>> ELSE <<".", Digit[precision + 1]>>)
        \o type \o <<how>>

\* V is printed right as NATURAL without a width, as OUT in a field of WIDTH, and as
\* LEFT in one to its left.
Shows(v, flags, width, precision, how, natural, out, left) ==
    LET size == IF v < 0 THEN -v ELSE v
        base == CASE how = "o" -> 8 [] how \in {"d", "u"} -> 10 [] OTHER -> 16
        digit(ch) == SelectInSeq(IF how = "X" THEN Upper ELSE Digit, LAMBDA x : x = ch) - 1
        digits == SelectSeq(natural, LAMBDA ch : ch \in ToSet(Digit) \cup ToSet(Upper))
        zero == "0" \in ToSet(flags) /\ "-" \notin ToSet(flags) /\ precision < 0
        pad == Max({Len(natural), width}) - Len(natural)
    IN  /\ FoldLeft(LAMBDA n, ch : n * base + digit(ch), 0, digits) = size
        /\ Len(digits) >= precision \/ "'" \in ToSet(flags)
        /\ ("-" \in ToSet(natural)) <=> v < 0
        /\ how = "d" /\ v >= 0 /\ "+" \in ToSet(flags) => natural[1] = "+"
        /\ CASE zero -> Len(out) = Len(natural) + pad /\ Blanks(out) = Blanks(natural)
             [] ~zero /\ "-" \in ToSet(flags) -> out = natural \o output_dup(" ", pad)
             [] OTHER -> out = output_dup(" ", pad) \o natural
        /\ left = natural \o output_dup(" ", pad)
        /\ Len(integer_buffer(size, base_o, [flags |-> {"POUND", "GROUP"}, precision |-> precision]))
               <= BUF_SIZE

\* An integer printed in any way can be read back, has its sign, at least as many
\* digits as the precision asks for, and fills the field's width on the right side
\* with one kind of padding; the buffer is big enough.
PrintsInteger(flags, width, precision, type, how, a) ==
    LET wide == Spelled(flags, <<Digit[width + 1]>>, precision, type, how)
        bare == Spelled(SelectSeq(flags, LAMBDA ch : ch # "0"), <<>>, precision, type, how)
        star == Spelled(SelectSeq(flags, LAMBDA ch : ch # "0"), <<"*">>, precision, type, how)
        reads(t) == IF how = "d" THEN SignedArg(a, t) ELSE UnsignedArg(a, t)
    IN  Shows(reads(parse_conversion(bare, 2, <<a>>).type), flags, width, precision, how,
              __vprintf(bare, <<a>>), __vprintf(IF width = 0 THEN bare ELSE wide, <<a>>),
              __vprintf(star, <<-width, a>>))

\* A buffer never gets more than its size, holds what was printed up to there and is
\* terminated; the length returned is that of the whole.
PrintsBounded(size, f, args) ==
    LET r == vsnprintf(size, f, args)
    IN  /\ r.ret = Len(__vprintf(f, args))
        /\ Len(r.buffer) <= size
        /\ size > 0 => /\ Last(r.buffer) = ""
                       /\ IsPrefix(Front(r.buffer), __vprintf(f, args))
                       /\ r.ret < size => Len(r.buffer) = r.ret + 1

\* Every byte is shown once, in the line and column of its offset.
Dumps(ofs, buf) ==
    LET lines == hex_dump(ofs, buf)
        shown == {<<k, i>> \in (DOMAIN lines) \X (0 .. PER_LINE - 1) : lines[k].column[i] # NULL}
    IN  /\ Cardinality(shown) = Len(buf)
        /\ \A n \in DOMAIN buf : \E k \in DOMAIN lines :
               LET at == ofs + n - 1
               IN  lines[k].label = at - (at % PER_LINE) /\ lines[k].column[at % PER_LINE] = buf[n]

=============================================================================
