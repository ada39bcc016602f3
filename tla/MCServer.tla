------------------------------ MODULE MCServer ------------------------------
(***************************************************************************)
(* Instances of Server for TLC.  Lines of the largest size that can be     *)
(* framed and of one above it, a value that does not fit into the socket's *)
(* buffer together with its header, and a line that is no command.         *)
(***************************************************************************)
EXTENDS Server, TLC

Line(words) == [i \in DOMAIN words |-> Word(words[i])]

Put     == Line(<<"PUT", "k", "v">>)
PutHuge == Line(<<"PUT", "GET", "k", "v">>)
Get     == Line(<<"GET", "k">>)
Delete  == Line(<<"DEL", "k">>)
Quit    == Line(<<"QUIT">>)

\* One client uses the database, the other may send a message above the limit,
\* whose rest the server takes for frames.
WithGarbage == [c1 |-> {Put, Get}, c2 |-> {PutHuge, Quit}]

\* Both use the same key.
Shared == [c1 |-> {Put, Get}, c2 |-> {Delete}]

TwoEach == [c1 |-> 2, c2 |-> 2]

TwoAndOne == [c1 |-> 2, c2 |-> 1]

NoFaults == {}

AllFaults == FaultKinds

=============================================================================
