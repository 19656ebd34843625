------------------------------- MODULE Console ------------------------------
(***************************************************************************)
(* The console lock of lib/kernel/console.c.  vprintf, puts, putbuf and    *)
(* putchar acquire the console, write characters and release it; they      *)
(* differ in what they write.  A thread that is printing may print again   *)
(* before it is done: the lock is made recursive by a depth.  Interrupt    *)
(* handlers, and everyone once the kernel panics, print without the lock.  *)
(***************************************************************************)
EXTENDS Integers, Sequences, SequencesExt, Pointers

CONSTANTS Printer,            \* the threads
          MaxChars,           \* characters of a call
          MaxNest,            \* calls of a thread inside one another
          MaxCalls,           \* calls of a thread one after another
          MaxOut              \* characters written when nobody starts printing any more

ASSUME ConsoleAssumption ==
    NULL \notin Printer /\ {MaxChars, MaxNest, MaxCalls, MaxOut} \subseteq Nat \ {0}

VARIABLES use_console_lock,
          holder,               \* of console_lock
          console_lock_depth,
          calls,                \* of each thread, outermost first: where it is, what is left
          out,                  \* characters written: who wrote it in which of its calls
          made                  \* calls of each thread that have ended, nested ones not

consoleVars == <<use_console_lock, holder, console_lock_depth, calls, out, made>>

Handler == <<"handler", 0>>

Inner(t) == Last(calls[t])

Is(t, where) == calls[t] # <<>> /\ Inner(t).at = where

\* The innermost call of T goes on as CALL says.
Goes(t, call) == calls' = [calls EXCEPT ![t][Len(calls[t])] = call]

ConsoleInit ==
    /\ use_console_lock = TRUE
    /\ holder = NULL /\ console_lock_depth = 0
    /\ calls = [t \in Printer |-> <<>>]
    /\ out = <<>> /\ made = [t \in Printer |-> 0]

\* A call, perhaps from within another that is writing.
Begin(t, n) ==
    /\ calls[t] = <<>> \/ Is(t, "write")
    /\ Len(calls[t]) < MaxNest /\ made[t] < MaxCalls /\ Len(out) < MaxOut
    /\ calls' = [calls EXCEPT ![t] = Append(@, [at |-> "acquire", left |-> n])]
    /\ UNCHANGED <<use_console_lock, holder, console_lock_depth, out, made>>

acquire_console(t) ==
    /\ Is(t, "acquire")
    /\ Goes(t, [Inner(t) EXCEPT !.at = "write"])
    /\ IF ~use_console_lock THEN UNCHANGED <<holder, console_lock_depth>>
       ELSE IF holder = t
       THEN console_lock_depth' = console_lock_depth + 1 /\ UNCHANGED holder
       ELSE holder = NULL /\ holder' = t /\ UNCHANGED console_lock_depth
    /\ UNCHANGED <<use_console_lock, out, made>>

console_locked_by_current_thread(t) == ~use_console_lock \/ holder = t

putchar_have_lock(t) ==
    /\ Is(t, "write") /\ Inner(t).left > 0
    /\ out' = Append(out, <<t, made[t]>>)
    /\ Goes(t, [Inner(t) EXCEPT !.left = @ - 1])
    /\ UNCHANGED <<use_console_lock, holder, console_lock_depth, made>>

\* Mutant: the depth is not looked at.
release_console_at_once(t) ==
    /\ Is(t, "write") /\ Inner(t).left = 0
    /\ calls' = [calls EXCEPT ![t] = Front(@)]
    /\ made' = [made EXCEPT ![t] = IF Len(calls[t]) = 1 THEN @ + 1 ELSE @]
    /\ holder' = IF use_console_lock THEN NULL ELSE holder
    /\ UNCHANGED <<use_console_lock, out, console_lock_depth>>

release_console(t) ==
    /\ Is(t, "write") /\ Inner(t).left = 0
    /\ calls' = [calls EXCEPT ![t] = Front(@)]
    /\ made' = [made EXCEPT ![t] = IF Len(calls[t]) = 1 THEN @ + 1 ELSE @]
    /\ IF ~use_console_lock THEN UNCHANGED <<holder, console_lock_depth>>
       ELSE IF console_lock_depth > 0
       THEN console_lock_depth' = console_lock_depth - 1 /\ UNCHANGED holder
       ELSE holder' = NULL /\ UNCHANGED console_lock_depth
    /\ UNCHANGED <<use_console_lock, out>>

\* An interrupt handler prints without a thread in between.
HandlerPrints ==
    /\ Len(out) < MaxOut
    /\ out' = Append(out, Handler)
    /\ UNCHANGED <<use_console_lock, holder, console_lock_depth, calls, made>>

console_panic ==
    /\ use_console_lock
    /\ use_console_lock' = FALSE
    /\ UNCHANGED <<holder, console_lock_depth, calls, out, made>>

\* Nobody need print.
Quiet ==
    /\ \A t \in Printer : calls[t] = <<>>
    /\ UNCHANGED consoleVars

ConsoleNext ==
    \/ HandlerPrints \/ console_panic \/ Quiet
    \/ \E t \in Printer :
          \/ \E n \in 0 .. MaxChars : Begin(t, n)
          \/ acquire_console(t) \/ putchar_have_lock(t) \/ release_console(t)

-----------------------------------------------------------------------------
\* What a call prints is not mixed with another thread's output, however deep calls are
\* nested and wherever threads are switched; only handlers print in between.  The lock
\* is held exactly while a call is under way, to its outermost end, and the assertions
\* of putchar_have_lock and lock_release hold.  All this is so until the kernel panics.
OutputUnmixed ==
    LET in == {t \in Printer : \E i \in DOMAIN calls[t] : calls[t][i].at = "write"}
        writing(t) == {i \in DOMAIN calls[t] : calls[t][i].at = "write"}
    IN  /\ \A t \in in : console_locked_by_current_thread(t)
        /\ use_console_lock =>
               /\ in = {holder} \ {NULL}
               /\ console_lock_depth = IF in = {} THEN 0 ELSE Cardinality(writing(holder)) - 1
               /\ \A i, j, k \in DOMAIN out :
                      i < j /\ j < k /\ out[i] = out[k] /\ out[i] # Handler =>
                          out[j] \in {out[i], Handler}

=============================================================================
