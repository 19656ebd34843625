----------------------------- MODULE MCLibrary ------------------------------
(***************************************************************************)
(* The kernel's library and its memory on small instances.  The parts have *)
(* no state in common: a behaviour is of one part, its subject, and the    *)
(* others rest in their initial states.  What has no state at all is       *)
(* looked at on samples, each an initial state of its own.                 *)
(***************************************************************************)
EXTENDS Malloc, Lists, HashTable, StdLib, Strings, Format, AddressSpace, Exec, Console, Monitor

CONSTANTS t1, t2, p1, p2, L1, L2, e1, e2, e3, e4, e5

VARIABLES subject, sample

libVars == <<vars, listVars, hashVars, spaceVars, consoleVars, monitorVars, subject, sample>>

MCSymmetry == Permutations({t1, t2}) \cup Permutations({p1, p2}) \cup Permutations({L1, L2})

\* Sizes for both descriptors and for a big block of one and of two pages.
MCRequests == {1, 2, 3, 4}
MCProducts == {<<2, 1>>, <<2, 2>>}

\* Equal elements, and elements that are not equal in one bucket.
MCvalue == e1 :> 1 @@ e2 :> 1 @@ e3 :> 2 @@ e4 :> 0 @@ e5 :> 3
MChash == MCvalue

MCBits == [CHAR |-> 3, SHORT |-> 4, INT |-> 5, INTMAX |-> 8, LONG |-> 5, LONGLONG |-> 8,
           PTRDIFFT |-> 5, SIZET |-> 5]

-----------------------------------------------------------------------------
(* The samples.                                                            *)

Numbers == 0 .. 2 ^ (2 * W) - 1

Arrays == SeqOf(1 .. 3, 5)

\* Blanks, sign, digits and what follows them.
Numerals == SeqOf({32, 10}, 1) \X {<<>>, <<43>>, <<45>>} \X SeqOf({48, 49, 50, 56, 57}, 3)
                \X {<<>>, <<97>>, <<97, 49>>}

\* Lists of elements, each in one place at most.
Orders == {s \in SeqOf(Elem, 5) : IsInjective(s)}

\* A text of any zeros and letters, a zero, and a string of one letter.
Memories ==
    {[i \in 0 .. TextSize + 2 |-> IF i < TextSize THEN x[i] ELSE IF i = TextSize + 1 THEN 1 ELSE 0] :
        x \in [0 .. TextSize - 1 -> {0} \cup Chars]}

\* Flags, width, precision, type, conversion and argument.
Conversions ==
    {SetToSeq(f) : f \in SUBSET {"-", "+", "0", "#", " ", "'"}} \X {0, 5} \X {0 - 1, 0, 2}
        \X {<<>>, <<"h", "h">>, <<"h">>, <<"z">>, <<"l", "l">>} \X {"d", "o", "u", "x", "X"}
        \X {0, 7, 19, 254}

\* Sizes of the buffer and formats for it.
Buffers == (0 .. 5) \X {<<"a", "%">> \o f \o <<"s", "%", "%">> :
                            f \in {<<>>, <<"2">>, <<"-", "3">>, <<".", "1">>}}

\* An address, and how many bytes follow it.
DumpSizes == (0 .. 4) \X (0 .. 7)

Segment(o, v, f, n, w) ==
    [type |-> "LOAD", offset |-> o, vaddr |-> v, filesz |-> f, memsz |-> n, w |-> w]

\* Program headers that are and that are not valid, and others to come before or after.
AnySegment ==
    {Segment(o, v, f, n, TRUE) : o \in {0, 5, 20}, v \in {5, 16, 21, 36, 48, 253}, f \in {0, 3, 14},
                                 n \in {0, 3, 20, 30, 250}}
SomeHeader ==
    {Segment(o, v, 3, 9, FALSE) : o \in {0, 5}, v \in {16, 37, 64}}
        \cup {[type |-> t] : t \in {"NOTE", "DYNAMIC"}} \cup {NULL}

Executables ==
    [header : {TRUE}, bytes : {[i \in 1 .. 24 |-> i]},
     phdrs : {<<s>> : s \in AnySegment} \cup {<<s, h>> : s \in AnySegment, h \in SomeHeader}
                 \cup SeqOf(SomeHeader, 2)]

NoProgram == [header |-> TRUE, bytes |-> <<>>, phdrs |-> <<>>]

Commands == SeqOf({<<65>>, <<66, 67>>, <<68, 69, 70>>}, 3) \ {<<>>}

Loads ==
    (Executables \X {<<<<65>>>>}) \cup ({NULL, NoProgram, [NoProgram EXCEPT !.header = FALSE]} \X Commands)

Samples == {<<"divide", x>> : x \in Numbers} \cup {<<"array", x>> : x \in Arrays}
               \cup {<<"numeral", x>> : x \in Numerals} \cup {<<"order", x>> : x \in Orders}
               \cup {<<"memory", x>> : x \in Memories} \cup {<<"conversion", x>> : x \in Conversions}
               \cup {<<"buffer", x>> : x \in Buffers} \cup {<<"dump", x>> : x \in DumpSizes}
               \cup {<<"load", x>> : x \in Loads} \cup {<<"fibonacci", x>> : x \in 0 .. 20}

-----------------------------------------------------------------------------
LibInit ==
    /\ Init /\ ListsInit /\ HashInit /\ SpaceInit /\ ConsoleInit /\ MonitorInit
    /\ \/ subject \in {"malloc", "lists", "hash", "spaces", "console", "monitor"} /\ sample = <<"none">>
       \/ subject = "sample" /\ sample \in Samples

\* The subject takes a step, and the variables of the others, REST, do not change.
On(what, rest) == subject = what /\ UNCHANGED rest /\ UNCHANGED <<subject, sample>>

OnMalloc == On("malloc", <<listVars, hashVars, spaceVars, consoleVars, monitorVars>>) /\ Next
OnLists == On("lists", <<vars, hashVars, spaceVars, consoleVars, monitorVars>>) /\ ListsNext
OnTables == On("hash", <<vars, listVars, spaceVars, consoleVars, monitorVars>>) /\ HashNext
OnSpaces == On("spaces", <<vars, listVars, hashVars, consoleVars, monitorVars>>) /\ SpaceNext
OnConsole == On("console", <<vars, listVars, hashVars, spaceVars, monitorVars>>) /\ ConsoleNext
OnMonitor == On("monitor", <<vars, listVars, hashVars, spaceVars, consoleVars>>) /\ MonitorNext
OnSample == On("sample", <<vars, listVars, hashVars, spaceVars, consoleVars, monitorVars>>)

LibNext ==
    OnMalloc \/ OnLists \/ OnTables \/ OnSpaces \/ OnConsole \/ OnMonitor \/ OnSample

LibSpec == LibInit /\ [][LibNext]_libVars

-----------------------------------------------------------------------------
Sampled(kind, Right(_)) == subject = "sample" /\ sample[1] = kind => Right(sample[2])

\* The algorithms compute what they are for: qsort sorts and bsearch finds what is
\* there, atoi reads the number that is written, list_sort is a stable sort, and the
\* 64-bit division built from 32-bit steps is division, for either sign and up to the
\* ends of the range.
AlgorithmsExact ==
    /\ Sampled("divide", Divides)
    /\ Sampled("array", SortedAndFound)
    /\ Sampled("numeral", LAMBDA x : ReadsInt(x[1], x[2], x[3], x[4]))
    /\ Sampled("fibonacci", Fibonacci)
    /\ Sampled("order", LAMBDA x : SortsStably(L1, x))

\* The string functions do to memory what C says, wherever the strings lie in it:
\* memmove copies ranges that overlap, searching finds the first or last place,
\* strtok_r gives the words in order and no other bytes change, and strlcpy and strlcat
\* end within the size they are given.
StringsExact ==
    Sampled("memory", LAMBDA x :
        /\ Moves(x) /\ Tokenizes(x, 0, TextSize + 1)
        /\ \A i, j \in 0 .. TextSize + 1 : Searches(x, i, j)
        /\ \A i, j \in 0 .. TextSize : i < j => Bounded(x, i, j))

\* printf prints the number the caller passed, in the base, width and precision asked
\* for, under every set of flags and for every type; vsnprintf never writes past the
\* buffer and counts what it would have written; hex_dump shows each byte once.
FormatExact ==
    /\ Sampled("conversion", LAMBDA x : PrintsInteger(x[1], x[2], x[3], x[4], x[5], x[6]))
    /\ Sampled("buffer", LAMBDA x : PrintsBounded(x[1], x[2], <<<<"b", "c">>>>))
    /\ Sampled("dump", LAMBDA x : Dumps(x[1], [i \in 1 .. x[2] |-> i]))

\* Both: text is taken apart, put together and printed right.
TextExact == StringsExact /\ FormatExact


=============================================================================
