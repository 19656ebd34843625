------------------------------ MODULE FileNames ------------------------------
(***************************************************************************)
(* What filesys_create, filesys_open and filesys_remove promise their      *)
(* callers: a set of names that a call tests or changes at one moment      *)
(* between its start and its return, and that survives a power failure.    *)
(***************************************************************************)
CONSTANTS Thread, Name, NULL

VARIABLES names,   \* the files that exist
          call,    \* of each thread: the call it is in, or NULL
          ok       \* of each thread: what that call will return, or NULL

vars == <<names, call, ok>>

Call == [op : {"create", "open", "remove"}, name : Name]

Init ==
    /\ names = {}
    /\ call = [t \in Thread |-> NULL]
    /\ ok = [t \in Thread |-> NULL]

Start(t, c) ==
    /\ call[t] = NULL
    /\ call' = [call EXCEPT ![t] = c]
    /\ UNCHANGED <<names, ok>>

Decide(t, r) ==
    /\ call[t] # NULL /\ ok[t] = NULL
    /\ ok' = [ok EXCEPT ![t] = r]
    /\ UNCHANGED call

\* A file is created unless its name exists; there may be no space for it.
Create(t) ==
    /\ call[t] # NULL /\ call[t].op = "create"
    /\ \/ call[t].name \notin names /\ names' = names \cup {call[t].name} /\ Decide(t, TRUE)
       \/ UNCHANGED names /\ Decide(t, FALSE)

\* A file is opened if its name exists.
Open(t) ==
    /\ call[t] # NULL /\ call[t].op = "open"
    /\ UNCHANGED names /\ Decide(t, call[t].name \in names)

\* A file is removed if its name exists.
Remove(t) ==
    /\ call[t] # NULL /\ call[t].op = "remove"
    /\ names' = names \ {call[t].name} /\ Decide(t, call[t].name \in names)

Return(t) ==
    /\ ok[t] # NULL
    /\ call' = [call EXCEPT ![t] = NULL]
    /\ ok' = [ok EXCEPT ![t] = NULL]
    /\ UNCHANGED names

\* The calls in progress are lost, the names are not.
PowerOff ==
    /\ call' = [t \in Thread |-> NULL]
    /\ ok' = [t \in Thread |-> NULL]
    /\ UNCHANGED names

Next ==
    \/ \E t \in Thread : (\E c \in Call : Start(t, c)) \/ Create(t) \/ Open(t) \/ Remove(t) \/ Return(t)
    \/ PowerOff

Spec == Init /\ [][Next]_vars

=============================================================================
