----------------------------- MODULE ByteFiles ------------------------------
(***************************************************************************)
(* What the file calls promise to one process: a file is an array of bytes *)
(* of fixed length, every descriptor has a position of its own, and the    *)
(* running executable cannot be written.                                   *)
(***************************************************************************)
EXTENDS Integers, Sequences, FiniteSetsExt

CONSTANTS File, Length, Exec, NULL,
          Fd,         \* descriptors
          Buffers,    \* what may be written
          Sizes,      \* how much may be asked for
          Positions,  \* where to
          Short       \* whether calls may do less than they could

VARIABLES content,  \* of each file: its bytes
          desc,     \* of each descriptor: its file and position, NULL if it is not open
          ret       \* what the last call returned: a number and bytes

vars == <<ret, desc, content>>

Result(n, bytes) == ret' = [eax |-> n, got |-> bytes]

\* How many of n bytes a call may transfer at descriptor f.
Transfers(f, n) ==
    LET most == Max({0, Min({n, Length[desc[f].file] - desc[f].pos})})
    IN  IF Short THEN 0 .. most ELSE {most}

Advance(f, n) == desc' = [desc EXCEPT ![f].pos = @ + n]

Open(f, i) ==
    /\ Result(f, <<>>)
    /\ desc[f] = NULL
    /\ desc' = [desc EXCEPT ![f] = [file |-> i, pos |-> 0]]
    /\ UNCHANGED content

Close(f) == UNCHANGED <<ret, content>> /\ desc' = [desc EXCEPT ![f] = NULL]

Read(f, size) ==
    \E n \in Transfers(f, size) :
        /\ Result(n, SubSeq(content[desc[f].file], desc[f].pos + 1, desc[f].pos + n))
        /\ Advance(f, n)
        /\ UNCHANGED content

Write(f, buffer) ==
    \E n \in IF desc[f].file = Exec THEN {0} ELSE Transfers(f, Len(buffer)) :
        /\ Result(n, <<>>)
        /\ Advance(f, n)
        /\ content' = [content EXCEPT ![desc[f].file] =
               [p \in DOMAIN @ |-> IF p \in desc[f].pos + 1 .. desc[f].pos + n
                                   THEN buffer[p - desc[f].pos] ELSE @[p]]]

Seek(f, p) == UNCHANGED <<ret, content>> /\ desc' = [desc EXCEPT ![f].pos = p]

\* filesize and tell
Ask(f) ==
    /\ Result(Length[desc[f].file], <<>>) \/ Result(desc[f].pos, <<>>)
    /\ UNCHANGED <<content, desc>>

Refuse == Result(-1, <<>>) /\ UNCHANGED <<content, desc>>

Exit == UNCHANGED <<ret, content>> /\ desc' = [f \in Fd |-> NULL]

Init ==
    /\ content = [i \in File |-> [p \in 1 .. Length[i] |-> 0]]
    /\ desc = [f \in Fd |-> NULL]
    /\ ret = [eax |-> -1, got |-> <<>>]

Next ==
    \/ Refuse \/ Exit
    \/ \E f \in Fd : \E i \in File : Open(f, i)
    \/ \E f \in {g \in Fd : desc[g] # NULL} :
           \/ Close(f) \/ Ask(f)
           \/ \E n \in Sizes : Read(f, n)
           \/ \E b \in Buffers : Write(f, b)
           \/ \E p \in Positions : p >= 0 /\ Seek(f, p)

Spec == Init /\ [][Next]_vars

=============================================================================
