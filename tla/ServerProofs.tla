---------------------------- MODULE ServerProofs ----------------------------
(***************************************************************************)
(* Proofs about Server for every set of clients, all lines they may send,  *)
(* any number of descriptors, buffer sizes, requests and failures: type    *)
(* correctness, that no callback and no handler outlives its connection,   *)
(* and that requests and replies keep their order and their boundaries.    *)
(* The inductive invariant is ServerInv.                                   *)
(***************************************************************************)
EXTENDS Server, FrameProofs

-----------------------------------------------------------------------------
(***************************************************************************)
(* The inductive invariant.                                                *)
(***************************************************************************)

\* The words of the clients' lines and of the replies.
LineWords(line) == {line[i] : i \in 1..Len(line)}

ReplyWords == {Word("OK"), Word("NOT_FOUND"), Word("BYE"), Word("ERROR")}

Words ==
    ReplyWords \cup UNION {UNION {LineWords(line) : line \in Lines[c]} : c \in Clients}

Unit == Units(Words)

\* What fits into a frame.
Message == {m \in Seq(Unit) : Len(m) <= MaxMessageSize}

\* The events that some callback may have been registered for.
Event == (Fds \X {"read", "write"}) \cup {<<ServerFd, "read">>}

\* The states of a Connection object.  It is WRITING exactly while output is
\* left, whether or not kevent accepted the registration.
Connection ==
    {k \in [fd : Fds \cup {NoFd}, state : {"READING", "WRITING", "CLOSED"},
            input : Seq(Unit), output : Seq(Unit), offset : Nat] :
        /\ k.state = "CLOSED" <=> k.fd = NoFd
        /\ k.state = "CLOSED" => k = NoConnection
        /\ k.offset <= Len(k.output)
        /\ k.state = "WRITING" <=> k.offset < Len(k.output)}

ConnOK == conn \in [Clients -> Connection]

LoopOK ==
    /\ server \in {"starting", "running", "stopped"}
    /\ connections \in [Fds -> Clients \cup {Nobody}]
    /\ readCb \in [Fds \cup {ServerFd} -> Clients \cup {Listener, Nobody}]
    /\ readCb[ServerFd] \in {Listener, Nobody}
    /\ writeCb \in [Fds -> Clients \cup {Nobody}]
    /\ batch \subseteq Event
    /\ handler \in Clients \cup {Listener, Nobody}
    /\ faults \in 0..MaxFaults
    /\ CallbacksAreLive
    /\ HandlerIsLive

StreamsOK ==
    /\ peer \in [Clients -> {"idle", "open", "closed"}]
    /\ backlog \in Seq(Clients)
    /\ toServer \in [Clients -> Seq(Unit)]
    /\ toClient \in [Clients -> {s \in Seq(Unit) : Len(s) <= SendBuffer}]
    /\ received \in [Clients -> Seq(Unit)]
    /\ pending \in [Clients -> Seq(Message)]
    /\ due \in [Clients -> Seq(Message)]

\* Every stored value came in a message, and fits into a reply.
DbOK == db \in [DOMAIN db -> Message]

\* A client waits for accept at most once.
BacklogOK == \A i, j \in 1..Len(backlog) : backlog[i] = backlog[j] => i = j

\* Nothing was sent to a client before accept, and one that never connected
\* has sent nothing.
FreshOK(c) ==
    /\ Waiting(c) =>
        /\ ~Served(c) /\ peer[c] # "idle"
        /\ toClient[c] = << >> /\ received[c] = << >> /\ due[c] = << >>
    /\ peer[c] = "idle" =>
        /\ ~Served(c)
        /\ toServer[c] = << >> /\ pending[c] = << >>
        /\ toClient[c] = << >> /\ received[c] = << >> /\ due[c] = << >>

\* RequestsArriveInOrder and RepliesComeInOrder for one client.
RequestsOK(c) ==
    Served(c) \/ Waiting(c) => conn[c].input \o toServer[c] = Frames(pending[c])

Unsent(c) == Drop(conn[c].output, conn[c].offset)

RepliesOK(c) ==
    peer[c] = "open" /\ Served(c) =>
        (received[c] \o toClient[c]) \o Unsent(c) = Frames(due[c])

ClientOK(c) ==
    /\ FreshOK(c)
    /\ c \in Honest => RequestsOK(c) /\ RepliesOK(c)

ServerInv ==
    /\ ConnOK
    /\ LoopOK
    /\ StreamsOK
    /\ DbOK
    /\ BacklogOK
    /\ \A c \in Clients : ClientOK(c)

-----------------------------------------------------------------------------
(***************************************************************************)
(* Parts of sequences.                                                     *)
(***************************************************************************)

\* Drop gives a sequence, and dropping nothing the same one.
LEMMA DropType ==
    ASSUME NEW U, NEW s \in Seq(U), NEW n \in Nat, n <= Len(s)
    PROVE  /\ Drop(s, n) \in Seq(U)
           /\ Len(Drop(s, n)) = Len(s) - n
           /\ \A i \in 1..(Len(s) - n) : Drop(s, n)[i] = s[i + n]
           /\ Drop(s, 0) = s
           /\ Drop(s, Len(s)) = << >>
<1>1. Drop(s, n) \in Seq(U) /\ Len(Drop(s, n)) = Len(s) - n
  BY DEF Drop
<1>2. \A i \in 1..(Len(s) - n) : Drop(s, n)[i] = s[i + n]
  BY DEF Drop
<1>3. Drop(s, 0) = s
  BY DEF Drop
<1>4. Drop(s, Len(s)) = << >>
  BY DEF Drop
<1> QED  BY <1>1, <1>2, <1>3, <1>4

\* Dropping the first element.
LEMMA DropOne ==
    ASSUME NEW U, NEW s \in Seq(U)
    PROVE  /\ Drop(s, 1) \in Seq(U)
           /\ s # << >> => Drop(s, 1) = Tail(s)
           /\ s = << >> => Drop(s, 1) = << >>
BY DEF Drop

\* What recv took and what it left.
LEMMA TakeDrop ==
    ASSUME NEW U, NEW s \in Seq(U), NEW n \in Nat, n <= Len(s)
    PROVE  /\ SubSeq(s, 1, n) \in Seq(U)
           /\ SubSeq(s, 1, n) \o Drop(s, n) = s
<1> DEFINE a == SubSeq(s, 1, n)
           b == Drop(s, n)
<1>1. a \in Seq(U) /\ Len(a) = n /\ \A i \in 1..n : a[i] = s[i]
  OBVIOUS
<1>2. b \in Seq(U) /\ Len(b) = Len(s) - n /\ \A i \in 1..(Len(s) - n) : b[i] = s[i + n]
  BY DropType
<1> HIDE DEF a, b
<1> DEFINE t == a \o b
<1>3. t \in Seq(U) /\ Len(t) = Len(s)
  BY <1>1, <1>2
<1>4. \A i \in 1..Len(s) : t[i] = s[i]
  <2> SUFFICES ASSUME NEW i \in 1..Len(s) PROVE t[i] = s[i]
    OBVIOUS
  <2>1. CASE i <= n
    BY <1>1, <1>2, <2>1
  <2>2. CASE i > n
    <3>1. t[i] = b[i - n]
      BY <1>1, <1>2, <2>2
    <3>2. i - n \in 1..(Len(s) - n) /\ (i - n) + n = i
      BY <2>2
    <3> QED  BY <1>2, <3>1, <3>2
  <2>3. i <= n \/ i > n
    OBVIOUS
  <2> HIDE DEF t
  <2> QED  BY <2>1, <2>2, <2>3, Zenon
<1> HIDE DEF t
<1>5. t = s
  BY <1>3, <1>4, SeqEqual
<1> QED  BY <1>1, <1>5 DEF a, b, t

\* What send took and what it left.
LEMMA DropInTwo ==
    ASSUME NEW U, NEW s \in Seq(U), NEW m \in Nat, NEW n \in Nat,
           m <= n, n <= Len(s)
    PROVE  /\ SubSeq(s, m + 1, n) \in Seq(U)
           /\ Len(SubSeq(s, m + 1, n)) = n - m
           /\ SubSeq(s, m + 1, n) \o Drop(s, n) = Drop(s, m)
<1> DEFINE a == SubSeq(s, m + 1, n)
           b == Drop(s, n)
           d == Drop(s, m)
<1>1. a \in Seq(U) /\ Len(a) = n - m /\ \A i \in 1..(n - m) : a[i] = s[i + m]
  OBVIOUS
<1>2. Len(s) \in Nat /\ m <= Len(s)
  OBVIOUS
<1>3. b \in Seq(U) /\ Len(b) = Len(s) - n /\ \A i \in 1..(Len(s) - n) : b[i] = s[i + n]
  BY DropType
<1>4. d \in Seq(U) /\ Len(d) = Len(s) - m /\ \A i \in 1..(Len(s) - m) : d[i] = s[i + m]
  BY <1>2, DropType
<1> HIDE DEF a, b, d
<1> DEFINE t == a \o b
<1>5. t \in Seq(U) /\ Len(t) = Len(d)
  <2>1. Len(a) + Len(b) = Len(d)
    BY <1>2, <1>1, <1>3, <1>4
  <2> QED  BY <1>1, <1>3, <2>1
<1>6. \A i \in 1..Len(d) : t[i] = d[i]
  <2> SUFFICES ASSUME NEW i \in 1..Len(d) PROVE t[i] = d[i]
    OBVIOUS
  <2>1. CASE i <= n - m
    <3>1. i \in 1..(n - m) /\ i \in 1..(Len(s) - m) /\ i \in 1..Len(a)
      BY <1>2, <1>1, <1>4, <2>1
    <3>2. t[i] = a[i]
      BY <1>1, <1>3, <3>1
    <3> QED  BY <1>1, <1>4, <3>1, <3>2
  <2>2. CASE i > n - m
    <3>1. t[i] = b[i - (n - m)]
      BY <1>1, <1>3, <1>4, <2>2
    <3>2. i - (n - m) \in 1..(Len(s) - n) /\ (i - (n - m)) + n = i + m
      BY <1>4, <2>2
    <3>3. i \in 1..(Len(s) - m)
      BY <1>4
    <3> QED  BY <1>3, <1>4, <3>1, <3>2, <3>3
  <2>3. i <= n - m \/ i > n - m
    BY <1>2, <1>4
  <2> HIDE DEF t
  <2> QED  BY <2>1, <2>2, <2>3, Zenon
<1> HIDE DEF t
<1>7. t = d
  BY <1>4, <1>5, <1>6, SeqEqual
<1> QED  BY <1>1, <1>7 DEF a, b, d, t

\* Output is queued behind what was not sent.
LEMMA DropOfConcat ==
    ASSUME NEW U, NEW s \in Seq(U), NEW f \in Seq(U), NEW n \in Nat, n <= Len(s)
    PROVE  Drop(s \o f, n) = Drop(s, n) \o f
<1> DEFINE u == s \o f
           a == Drop(s, n)
           b == Drop(u, n)
<1>1. u \in Seq(U) /\ Len(u) = Len(s) + Len(f)
  OBVIOUS
<1>2. \A i \in 1..Len(u) : u[i] = IF i <= Len(s) THEN s[i] ELSE f[i - Len(s)]
  BY <1>1
<1> HIDE DEF u
<1>3. a \in Seq(U) /\ Len(a) = Len(s) - n /\ \A i \in 1..(Len(s) - n) : a[i] = s[i + n]
  BY DropType
<1>4. b \in Seq(U) /\ Len(b) = Len(u) - n /\ \A i \in 1..(Len(u) - n) : b[i] = u[i + n]
  <2>1. n <= Len(u)
    BY <1>1
  <2> QED  BY <1>1, <2>1, DropType
<1> HIDE DEF a, b
<1> DEFINE t == a \o f
<1>5. t \in Seq(U) /\ Len(t) = Len(b)
  <2>1. Len(a) + Len(f) = Len(b)
    BY <1>1, <1>3, <1>4
  <2> QED  BY <1>3, <2>1
<1>6. \A i \in 1..Len(b) : t[i] = b[i]
  <2> SUFFICES ASSUME NEW i \in 1..Len(b) PROVE t[i] = b[i]
    OBVIOUS
  <2>1. b[i] = u[i + n] /\ i + n \in 1..Len(u)
    BY <1>1, <1>4
  <2>2. CASE i <= Len(s) - n
    <3>1. t[i] = a[i]
      BY <1>3, <2>2
    <3>2. a[i] = s[i + n]
      BY <1>3, <2>2
    <3>3. u[i + n] = s[i + n]
      BY <1>2, <2>1, <2>2
    <3> QED  BY <2>1, <3>1, <3>2, <3>3
  <2>3. CASE i > Len(s) - n
    <3>1. t[i] = f[i - (Len(s) - n)]
      BY <1>1, <1>3, <1>4, <1>5, <2>3
    <3>2. u[i + n] = f[(i + n) - Len(s)]
      BY <1>2, <2>1, <2>3
    <3>3. i - (Len(s) - n) = (i + n) - Len(s)
      OBVIOUS
    <3> QED  BY <2>1, <3>1, <3>2, <3>3
  <2>4. i <= Len(s) - n \/ i > Len(s) - n
    BY <1>1, <1>4
  <2> HIDE DEF t
  <2> QED  BY <2>2, <2>3, <2>4, Zenon
<1> HIDE DEF t
<1>7. t = b
  BY <1>4, <1>5, <1>6, SeqEqual
<1> QED  BY <1>7 DEF a, b, t, u

\* Concatenation is associative.
LEMMA Associative ==
    ASSUME NEW U, NEW a \in Seq(U), NEW b \in Seq(U), NEW c \in Seq(U)
    PROVE  (a \o b) \o c = a \o (b \o c)
OBVIOUS

\* Two ways to put four parts together.
Regroups(a, b, c, d) == (a \o (b \o c)) \o d = (a \o b) \o (c \o d)

\* They give the same.
LEMMA AssociativeFour ==
    ASSUME NEW U, NEW a \in Seq(U), NEW b \in Seq(U), NEW c \in Seq(U), NEW d \in Seq(U)
    PROVE  Regroups(a, b, c, d)
BY DEF Regroups

-----------------------------------------------------------------------------
(***************************************************************************)
(* Messages, commands and replies.                                         *)
(***************************************************************************)

\* No word can be taken for a byte of a header.
LEMMA WordsAreNoHeaders == \A w \in Words : "size" \notin DOMAIN w
<1> SUFFICES ASSUME NEW w \in Words PROVE "size" \notin DOMAIN w
  OBVIOUS
<1>1. \E v : w = Word(v)
  <2>1. CASE w \in ReplyWords
    BY <2>1 DEF ReplyWords
  <2>2. CASE w \notin ReplyWords
    <3>1. PICK c \in Clients : w \in UNION {LineWords(line) : line \in Lines[c]}
      BY <2>2, Zenon DEF Words
    <3>2. PICK line \in Lines[c] : w \in LineWords(line)
      BY <3>1, Zenon
    <3>3. PICK i \in 1..Len(line) : w = line[i]
      BY <3>2 DEF LineWords
    <3>4. line = [j \in 1..Len(line) |-> Word(line[j].word)]
      BY ServerAssumption DEF IsMessage
    <3>5. line[i] = Word(line[i].word)
      BY <3>4
    <3> QED  BY <3>3, <3>5
  <2> QED  BY <2>1, <2>2
<1> QED  BY <1>1 DEF Word

\* A client's line is a sequence of units.
LEMMA LineType ==
    ASSUME NEW c \in Clients, NEW line \in Lines[c]
    PROVE  line \in Seq(Unit)
<1>1. Len(line) \in Nat /\ line = [j \in 1..Len(line) |-> Word(line[j].word)]
  BY ServerAssumption DEF IsMessage
<1>2. \A i \in 1..Len(line) : line[i] \in Words
  <2> DEFINE S == UNION {LineWords(l) : l \in Lines[c]}
  <2>1. LineWords(line) \subseteq S
    BY Zenon
  <2>2. S \in {UNION {LineWords(l) : l \in Lines[d]} : d \in Clients}
    BY Zenon
  <2> HIDE DEF S
  <2>3. S \subseteq Words
    BY <2>2, Zenon DEF Words
  <2> QED  BY <2>1, <2>3 DEF LineWords
<1>3. \A i \in 1..Len(line) : line[i] \in Unit
  BY <1>2 DEF Unit, Units
<1>4. line = [j \in 1..Len(line) |-> line[j]]
  BY <1>1
<1> QED  BY <1>1, <1>3, <1>4, IsASeq

\* What fits into a frame can be framed.
LEMMA FrameOfMessage ==
    ASSUME NEW m \in Message
    PROVE  /\ CreateFrame(m) = RawFrame(m)
           /\ RawFrame(m) \in Seq(Unit)
           /\ Len(RawFrame(m)) > 0
           /\ RawFrame(m) # << >>
<1>1. m \in Seq(Unit) /\ Len(m) <= MaxMessageSize /\ Len(m) \in Nat
  BY DEF Message
<1>2. CreateFrame(m) = RawFrame(m)
  BY <1>1, ProtocolAssumption DEF CreateFrame
<1>3. RawFrame(m) \in Seq(Unit) /\ Len(RawFrame(m)) = HeaderSize + Len(m)
  BY <1>1, RawFrameType DEF Unit
<1>4. Len(RawFrame(m)) > 0
  BY <1>1, <1>3, ProtocolAssumption
<1> DEFINE f == RawFrame(m)
<1>5. f # << >>
  <2>1. f \in Seq(Unit) /\ Len(f) > 0
    BY <1>3, <1>4
  <2> HIDE DEF f
  <2> QED  BY <2>1
<1> QED  BY <1>2, <1>3, <1>4, <1>5

\* A sequence of messages, for the lemmas about frames.
LEMMA MessagesType ==
    ASSUME NEW ms \in Seq(Message)
    PROVE  /\ ms \in Seq(Seq(Units(Words)))
           /\ \A i \in 1..Len(ms) : Len(ms[i]) <= MaxMessageSize
<1>1. Message \subseteq Seq(Units(Words))
  BY DEF Message, Unit
<1>2. ms \in Seq(Seq(Units(Words)))
  BY <1>1, SeqMonotonic
<1>3. \A i \in 1..Len(ms) : ms[i] \in Message
  OBVIOUS
<1> QED  BY <1>2, <1>3 DEF Message

\* The value of a PUT is shorter than the message it came in.
LEMMA ParseType ==
    ASSUME NEW p \in Message
    PROVE  /\ ParseCommand(p).type \in {"PUT", "GET", "DELETE_KEY", "EXIT", "INVALID"}
           /\ ParseCommand(p).type = "PUT" => ParseCommand(p).value \in Message
<1>1. p \in Seq(Unit) /\ Len(p) <= MaxMessageSize /\ Len(p) \in Nat
  BY DEF Message
<1> DEFINE v == SubSeq(p, 3, Len(p))
<1>2. Len(p) > 2 => v \in Message
  <2>1. Len(p) > 2 => v \in Seq(Unit) /\ Len(v) = Len(p) - 2
    BY <1>1
  <2> HIDE DEF v
  <2> QED  BY <1>1, <2>1, ProtocolAssumption DEF Message
<1> HIDE DEF v
<1>3. CASE ParseCommand(p) = Command("PUT", p[2], v) /\ Len(p) > 2
  BY <1>2, <1>3 DEF Command
<1>4. CASE \/ ParseCommand(p) = Invalid
           \/ ParseCommand(p) = Command("EXIT", << >>, << >>)
           \/ ParseCommand(p) = Command("GET", p[2], << >>)
           \/ ParseCommand(p) = Command("DELETE_KEY", p[2], << >>)
  BY <1>4 DEF Command, Invalid
<1> QED  BY <1>3, <1>4 DEF ParseCommand, v

\* Execute: every reply can be framed, and the data keep their type.
LEMMA ExecuteType ==
    ASSUME NEW p \in Message, NEW d, d \in [DOMAIN d -> Message]
    PROVE  /\ Reply(ParseCommand(p), d) \in Message
           /\ Error \in Message
           /\ Effect(ParseCommand(p), d) \in [DOMAIN Effect(ParseCommand(p), d) -> Message]
<1> DEFINE x == ParseCommand(p)
<1>1. /\ x.type \in {"PUT", "GET", "DELETE_KEY", "EXIT", "INVALID"}
      /\ x.type = "PUT" => x.value \in Message
  BY ParseType
<1> HIDE DEF x
<1>2. ASSUME NEW w \in ReplyWords
      PROVE  <<w>> \in Message
  <2>1. w \in Unit
    BY Zenon DEF Unit, Units, Words
  <2>2. <<w>> \in Seq(Unit) /\ Len(<<w>>) = 1
    BY <2>1
  <2> QED  BY <2>2, ProtocolAssumption DEF Message
<1>3. OK \in Message /\ NotFound \in Message /\ Bye \in Message /\ Error \in Message
  BY <1>2 DEF ReplyWords, OK, NotFound, Bye, Error
<1>4. Reply(x, d) \in Message
  <2>1. x.type = "GET" /\ x.key \in DOMAIN d => d[x.key] \in Message
    OBVIOUS
  <2> QED  BY <1>1, <1>3, <2>1 DEF Reply
<1>5. Effect(x, d) \in [DOMAIN Effect(x, d) -> Message]
  <2>1. CASE x.type = "PUT"
    <3> DEFINE D == DOMAIN d \cup {x.key}
               e == [k \in D |-> IF k = x.key THEN x.value ELSE d[k]]
    <3>1. Effect(x, d) = e
      BY <2>1 DEF Effect
    <3>2. \A k \in D : (IF k = x.key THEN x.value ELSE d[k]) \in Message
      BY <1>1, <2>1
    <3>3. e \in [D -> Message] /\ DOMAIN e = D
      BY <3>2
    <3> QED  BY <3>1, <3>3
  <2>2. CASE x.type = "DELETE_KEY"
    <3>1. Effect(x, d) = [k \in DOMAIN d \ {x.key} |-> d[k]]
      BY <2>2 DEF Effect
    <3> QED  BY <3>1
  <2>3. CASE x.type \in {"GET", "EXIT", "INVALID"}
    <3>1. Effect(x, d) = d
      BY <2>3 DEF Effect
    <3> QED  BY <3>1
  <2> QED  BY <1>1, <2>1, <2>2, <2>3
<1> QED  BY <1>3, <1>4, <1>5 DEF x

-----------------------------------------------------------------------------
(***************************************************************************)
(* What does not change.                                                   *)
(***************************************************************************)

\* The parts about the event loop, the connections and the data depend on
\* their variables only.
LEMMA LoopSame ==
    ASSUME LoopOK, UNCHANGED <<loop, conn, faults>>
    PROVE  LoopOK'
BY DEF LoopOK, loop, CallbacksAreLive, HandlerIsLive, Served

\* A step that leaves the connections alone.  Likewise for the next three.
LEMMA ConnSame ==
    ASSUME ConnOK, UNCHANGED conn
    PROVE  ConnOK'
BY DEF ConnOK

\* The streams between server and clients.
LEMMA StreamsSame ==
    ASSUME StreamsOK, UNCHANGED <<network, client, history>>
    PROVE  StreamsOK'
BY DEF StreamsOK, network, client, history

\* The data.
LEMMA DbSame ==
    ASSUME DbOK, UNCHANGED db
    PROVE  DbOK'
BY DEF DbOK

\* The clients that wait for accept.
LEMMA BacklogSame ==
    ASSUME BacklogOK, UNCHANGED backlog
    PROVE  BacklogOK'
BY DEF BacklogOK

\* A step that leaves a client's connection and streams alone, and does not
\* make it wait.
Untouched(d) ==
    /\ conn'[d] = conn[d] /\ peer'[d] = peer[d]
    /\ toServer'[d] = toServer[d] /\ toClient'[d] = toClient[d]
    /\ received'[d] = received[d]
    /\ pending'[d] = pending[d] /\ due'[d] = due[d]
    /\ Waiting(d)' => Waiting(d)

\* What is true of a client stays true when nothing of it changes.
LEMMA ClientSame ==
    ASSUME NEW d \in Clients, ClientOK(d), Untouched(d)
    PROVE  ClientOK(d)'
<1>1. /\ conn'[d] = conn[d] /\ peer'[d] = peer[d]
      /\ toServer'[d] = toServer[d] /\ toClient'[d] = toClient[d]
      /\ received'[d] = received[d]
      /\ pending'[d] = pending[d] /\ due'[d] = due[d]
      /\ Waiting(d)' => Waiting(d)
  BY DEF Untouched
<1>2. Served(d)' <=> Served(d)
  BY <1>1 DEF Served
<1>3. FreshOK(d)'
  BY <1>1, <1>2 DEF FreshOK, ClientOK
<1>4. ASSUME d \in Honest PROVE RequestsOK(d)'
  BY <1>1, <1>2, <1>4 DEF RequestsOK, ClientOK
<1>5. ASSUME d \in Honest PROVE RepliesOK(d)'
  BY <1>1, <1>2, <1>5 DEF RepliesOK, ClientOK, Unsent
<1> QED  BY <1>3, <1>4, <1>5 DEF ClientOK

\* A step of the event loop alone.
LEMMA LoopStep ==
    ASSUME ServerInv, LoopOK', UNCHANGED <<conn, network, client, db, history>>
    PROVE  ServerInv'
<1>1. /\ UNCHANGED <<conn, backlog, toServer, toClient, peer, received, db>>
      /\ UNCHANGED <<pending, due>>
  BY DEF network, client, history
<1>2. \A d \in Clients : ClientOK(d)'
  <2> SUFFICES ASSUME NEW d \in Clients PROVE ClientOK(d)'
    OBVIOUS
  <2>1. Waiting(d)' <=> Waiting(d)
    BY <1>1 DEF Waiting
  <2>2. Untouched(d)
    BY <1>1, <2>1 DEF Untouched
  <2> QED  BY <2>2, ClientSame DEF ServerInv
<1> QED  BY <1>1, <1>2, ConnSame, StreamsSame, DbSame, BacklogSame DEF ServerInv

\* A step of a client alone.
LEMMA ClientStep ==
    ASSUME ServerInv, UNCHANGED <<loop, conn, db, faults>>, StreamsOK', BacklogOK',
           NEW c \in Clients, ClientOK(c)',
           \A d \in Clients \ {c} : Untouched(d)
    PROVE  ServerInv'
<1>1. \A d \in Clients : ClientOK(d)'
  BY ClientSame DEF ServerInv
<1> QED  BY <1>1, ConnSame, LoopSame, DbSame DEF ServerInv

-----------------------------------------------------------------------------
(***************************************************************************)
(* Init.                                                                   *)
(***************************************************************************)

\* A client without a connection.
LEMMA NoConnectionType == NoConnection \in Connection
<1>1. << >> \in Seq(Unit) /\ Len(<< >>) = 0
  OBVIOUS
<1> QED  BY <1>1 DEF NoConnection, Connection

\* The initial states.
LEMMA InitHolds ==
    ASSUME Init
    PROVE  ServerInv
<1>1. ConnOK
  BY NoConnectionType DEF Init, ConnOK
<1>2. \A c \in Clients : ~Served(c) /\ conn[c].fd = NoFd
  BY DEF Init, Served, NoConnection
<1>3. LoopOK
  <2>1. MaxFaults \in Nat /\ NoFd \notin Fds /\ Nobody \notin Clients
    BY ServerAssumption DEF NoFd, Fds
  <2>2. CallbacksAreLive
    BY <1>2, <2>1 DEF Init, CallbacksAreLive
  <2>3. HandlerIsLive
    BY <2>1 DEF Init, HandlerIsLive
  <2> QED  BY <2>1, <2>2, <2>3 DEF Init, LoopOK
<1>4. StreamsOK
  <2>1. << >> \in Seq(Unit) /\ << >> \in Seq(Message) /\ << >> \in Seq(Clients)
        /\ Len(<< >>) <= SendBuffer
    BY ServerAssumption
  <2> QED  BY <2>1 DEF Init, StreamsOK
<1>5. DbOK
  BY DEF Init, DbOK
<1>6. BacklogOK
  BY DEF Init, BacklogOK
<1>7. ASSUME NEW c \in Clients PROVE ClientOK(c)
  <2>1. ~Waiting(c)
    BY DEF Init, Waiting
  <2> QED  BY <1>2, <2>1 DEF Init, ClientOK, FreshOK, RequestsOK, RepliesOK
<1> QED  BY <1>1, <1>3, <1>4, <1>5, <1>6, <1>7 DEF ServerInv

-----------------------------------------------------------------------------
(***************************************************************************)
(* The clients.                                                            *)
(***************************************************************************)

\* The types of what belongs to one client.
LEMMA ClientTypes ==
    ASSUME ServerInv, NEW c \in Clients
    PROVE  /\ conn[c] \in Connection
           /\ conn[c].input \in Seq(Unit)
           /\ conn[c].output \in Seq(Unit)
           /\ conn[c].offset \in Nat /\ conn[c].offset <= Len(conn[c].output)
           /\ toServer[c] \in Seq(Unit)
           /\ toClient[c] \in Seq(Unit)
           /\ received[c] \in Seq(Unit)
           /\ pending[c] \in Seq(Message)
           /\ due[c] \in Seq(Message)
           /\ Unsent(c) \in Seq(Unit)
<1>1. conn[c] \in Connection
  BY DEF ServerInv, ConnOK
<1>2. /\ conn[c].input \in Seq(Unit) /\ conn[c].output \in Seq(Unit)
      /\ conn[c].offset \in Nat /\ conn[c].offset <= Len(conn[c].output)
  BY <1>1 DEF Connection
<1>3. Unsent(c) \in Seq(Unit)
  BY <1>2, DropType DEF Unsent
<1> QED  BY <1>1, <1>2, <1>3 DEF ServerInv, StreamsOK

\* connect_to_server: a client that waits for accept has an empty stream.
LEMMA ConnectHolds ==
    ASSUME ServerInv, NEW c \in Clients, Connect(c)
    PROVE  ServerInv'
<1>1. /\ peer[c] = "idle" /\ peer' = [peer EXCEPT ![c] = "open"]
      /\ backlog' = Append(backlog, c)
      /\ UNCHANGED <<loop, conn, toServer, toClient, received, db, faults>>
      /\ UNCHANGED <<pending, due>>
  BY DEF Connect, history
<1>2. /\ backlog \in Seq(Clients) /\ Len(backlog) \in Nat
      /\ peer \in [Clients -> {"idle", "open", "closed"}]
  BY DEF ServerInv, StreamsOK
<1>3. /\ backlog' \in Seq(Clients) /\ Len(backlog') = Len(backlog) + 1
      /\ \A i \in 1..Len(backlog) : backlog'[i] = backlog[i]
      /\ backlog'[Len(backlog) + 1] = c
      /\ DOMAIN backlog = 1..Len(backlog) /\ DOMAIN backlog' = 1..(Len(backlog) + 1)
  BY <1>1, <1>2
<1>4. StreamsOK'
  BY <1>1, <1>2, <1>3 DEF ServerInv, StreamsOK
<1>5. /\ ~Waiting(c) /\ ~Served(c)
      /\ toServer[c] = << >> /\ pending[c] = << >>
      /\ toClient[c] = << >> /\ received[c] = << >> /\ due[c] = << >>
  BY <1>1 DEF ServerInv, ClientOK, FreshOK
<1>6. \A i \in 1..Len(backlog) : backlog[i] # c
  BY <1>3, <1>5 DEF Waiting
<1>7. BacklogOK'
  <2> SUFFICES ASSUME NEW i \in 1..Len(backlog'), NEW j \in 1..Len(backlog'),
                      backlog'[i] = backlog'[j]
               PROVE  i = j
    BY DEF BacklogOK
  <2>1. CASE i \in 1..Len(backlog) /\ j \in 1..Len(backlog)
    BY <1>3, <2>1 DEF ServerInv, BacklogOK
  <2>2. CASE i = Len(backlog) + 1 \/ j = Len(backlog) + 1
    BY <1>2, <1>3, <1>6, <2>2
  <2> QED  BY <1>2, <1>3, <2>1, <2>2
<1>8. ClientOK(c)'
  <2>1. ~Served(c)' /\ peer'[c] = "open"
    BY <1>1, <1>2, <1>5 DEF Served
  <2>2. FreshOK(c)'
    BY <1>1, <1>5, <2>1 DEF FreshOK
  <2>3. conn'[c].input \o toServer'[c] = Frames(pending'[c])
    <3>1. conn[c] \in Connection
      BY ClientTypes
    <3>2. conn[c].input = << >>
      BY <1>5, <3>1 DEF Connection, Served, NoConnection
    <3>3. << >> \o << >> = << >>
      OBVIOUS
    <3> QED  BY <1>1, <1>5, <3>2, <3>3, FramesEmpty
  <2> QED  BY <2>1, <2>2, <2>3 DEF ClientOK, RequestsOK, RepliesOK
<1>9. ASSUME NEW d \in Clients \ {c} PROVE Untouched(d)
  <2>1. Waiting(d)' => Waiting(d)
    BY <1>2, <1>3 DEF Waiting
  <2> QED  BY <1>1, <1>2, <2>1 DEF Untouched
<1> QED  BY <1>1, <1>4, <1>7, <1>8, <1>9, ClientStep

\* send_all: the new frame goes behind those on their way.
LEMMA SendHolds ==
    ASSUME ServerInv, NEW c \in Clients, NEW line \in Lines[c], Send(c, line)
    PROVE  ServerInv'
<1>1. /\ peer[c] = "open"
      /\ UNCHANGED <<loop, conn, backlog, toClient, peer, received, db, due, faults>>
  BY DEF Send
<1>2. /\ toServer \in [Clients -> Seq(Unit)] /\ pending \in [Clients -> Seq(Message)]
  BY DEF ServerInv, StreamsOK
<1>3. line \in Seq(Unit)
  BY LineType
<1>4. \A d \in Clients : Waiting(d)' <=> Waiting(d)
  BY <1>1 DEF Waiting
<1>5. BacklogOK'
  BY <1>1, BacklogSame DEF ServerInv
<1>6. Served(c)' <=> Served(c)
  BY <1>1 DEF Served
<1>7. FreshOK(c)'
  BY <1>1, <1>4, <1>6 DEF ServerInv, ClientOK, FreshOK
<1>8. CASE c \in Raw
  <2>1. toServer' = [toServer EXCEPT ![c] = toServer[c] \o RawFrame(line)]
        /\ pending' = pending
    BY <1>8 DEF Send
  <2>2. RawFrame(line) \in Seq(Unit)
    BY <1>3, RawFrameType DEF Unit
  <2>3. toServer[c] \o RawFrame(line) \in Seq(Unit)
    BY <1>2, <2>2
  <2>4. StreamsOK'
    BY <1>1, <1>2, <2>1, <2>3 DEF ServerInv, StreamsOK
  <2>5. ClientOK(c)'
    BY <1>7, <1>8 DEF ClientOK, Honest
  <2>6. ASSUME NEW d \in Clients \ {c} PROVE Untouched(d)
    BY <1>1, <1>2, <1>4, <2>1 DEF Untouched
  <2> QED  BY <1>1, <1>5, <2>4, <2>5, <2>6, ClientStep
<1>9. CASE c \notin Raw
  <2>1. /\ CreateFrame(line) # << >>
        /\ toServer' = [toServer EXCEPT ![c] = toServer[c] \o CreateFrame(line)]
        /\ pending' = [pending EXCEPT ![c] = Append(pending[c], line)]
    BY <1>9 DEF Send
  <2>2. line \in Message
    BY <1>3, <2>1, ProtocolAssumption DEF CreateFrame, Message
  <2> DEFINE f == RawFrame(line)
  <2>3. f \in Seq(Unit) /\ CreateFrame(line) = f
    BY <2>2, FrameOfMessage
  <2>4. /\ toServer'[c] = toServer[c] \o f /\ toServer[c] \o f \in Seq(Unit)
        /\ pending'[c] = Append(pending[c], line)
        /\ Append(pending[c], line) \in Seq(Message)
    <3> HIDE DEF f
    <3> QED  BY <1>2, <2>1, <2>2, <2>3
  <2>5. StreamsOK'
    BY <1>1, <1>2, <2>1, <2>3, <2>4 DEF ServerInv, StreamsOK
  <2>6. RequestsOK(c)'
    <3> SUFFICES ASSUME Served(c) \/ Waiting(c)
                 PROVE  conn'[c].input \o toServer'[c] = Frames(pending'[c])
      BY <1>4, <1>6 DEF RequestsOK
    <3>1. conn[c].input \o toServer[c] = Frames(pending[c])
      BY <1>9 DEF ServerInv, ClientOK, Honest, RequestsOK
    <3>2. conn[c].input \o (toServer[c] \o f) = (conn[c].input \o toServer[c]) \o f
      <4> DEFINE a == conn[c].input
                 b == toServer[c]
      <4>1. a \in Seq(Unit) /\ b \in Seq(Unit)
        BY ClientTypes
      <4> HIDE DEF a, b, f
      <4>2. a \o (b \o f) = (a \o b) \o f
        BY <2>3, <4>1, Associative
      <4> QED  BY <4>2 DEF a, b
    <3>3. Frames(Append(pending[c], line)) = Frames(pending[c]) \o f
      <4>1. pending[c] \in Seq(Seq(Units(Words))) /\ line \in Seq(Units(Words))
        BY <1>2, <1>3, MessagesType DEF Unit
      <4> QED  BY <4>1, FramesAppend
    <3> QED  BY <1>1, <2>4, <3>1, <3>2, <3>3
  <2>7. RepliesOK(c)'
    BY <1>1, <1>6, <1>9 DEF ServerInv, ClientOK, Honest, RepliesOK, Unsent
  <2>8. ASSUME NEW d \in Clients \ {c} PROVE Untouched(d)
    BY <1>1, <1>2, <1>4, <2>1 DEF Untouched
  <2> QED  BY <1>1, <1>5, <1>7, <2>5, <2>6, <2>7, <2>8, ClientStep DEF ClientOK
<1> QED  BY <1>8, <1>9

\* receive_response: bytes move from the socket to the buffer.
LEMMA ReceiveBytesHolds ==
    ASSUME ServerInv, NEW c \in Clients, ReceiveBytes(c)
    PROVE  ServerInv'
<1>1. /\ peer[c] = "open" /\ toClient[c] # << >>
      /\ received' = [received EXCEPT ![c] = received[c] \o toClient[c]]
      /\ toClient' = [toClient EXCEPT ![c] = << >>]
      /\ UNCHANGED <<loop, conn, backlog, toServer, peer, db, faults>>
      /\ UNCHANGED <<pending, due>>
  BY DEF ReceiveBytes, history
<1> DEFINE r == received[c]
           t == toClient[c]
           u == Unsent(c)
<1>2. r \in Seq(Unit) /\ t \in Seq(Unit) /\ u \in Seq(Unit)
  BY ClientTypes
<1>3. r \o t \in Seq(Unit) /\ << >> \in Seq(Unit) /\ Len(<< >>) <= SendBuffer
      /\ (r \o t) \o << >> = r \o t
  <2> HIDE DEF r, t, u
  <2> QED  BY <1>2, ServerAssumption
<1>4. received \in [Clients -> Seq(Unit)]
      /\ toClient \in [Clients -> {s \in Seq(Unit) : Len(s) <= SendBuffer}]
  BY DEF ServerInv, StreamsOK
<1>5. received'[c] = r \o t /\ toClient'[c] = << >>
  BY <1>1, <1>4
<1>6. StreamsOK'
  <2>1. received' \in [Clients -> Seq(Unit)]
    BY <1>1, <1>3, <1>4
  <2>2. toClient' \in [Clients -> {s \in Seq(Unit) : Len(s) <= SendBuffer}]
    BY <1>1, <1>3, <1>4
  <2> QED  BY <1>1, <2>1, <2>2 DEF ServerInv, StreamsOK
<1>7. \A d \in Clients : Waiting(d)' <=> Waiting(d)
  BY <1>1 DEF Waiting
<1>8. Served(c)' <=> Served(c)
  BY <1>1 DEF Served
<1>9. ~Waiting(c)
  BY <1>1 DEF ServerInv, ClientOK, FreshOK
<1>10. ClientOK(c)'
  <2>1. FreshOK(c)'
    BY <1>1, <1>7, <1>9 DEF FreshOK
  <2>2. ASSUME c \in Honest PROVE RequestsOK(c)'
    BY <1>1, <1>7, <1>8, <2>2 DEF ServerInv, ClientOK, RequestsOK
  <2>3. ASSUME c \in Honest PROVE RepliesOK(c)'
    <3> SUFFICES ASSUME Served(c)
                 PROVE  (received'[c] \o toClient'[c]) \o Unsent(c)' = Frames(due[c])
      BY <1>1, <1>8 DEF RepliesOK
    <3>1. (r \o t) \o u = Frames(due[c])
      BY <1>1, <2>3 DEF ServerInv, ClientOK, RepliesOK
    <3>2. Unsent(c)' = u
      BY <1>1 DEF Unsent
    <3> QED  BY <1>3, <1>5, <3>1, <3>2
  <2> QED  BY <2>1, <2>2, <2>3 DEF ClientOK
<1>11. ASSUME NEW d \in Clients \ {c} PROVE Untouched(d)
  BY <1>1, <1>4, <1>7 DEF Untouched
<1>12. BacklogOK'
  BY <1>1, BacklogSame DEF ServerInv
<1> QED  BY <1>1, <1>6, <1>10, <1>11, <1>12, ClientStep

\* receive_response: what is cut off is the first reply that is due.
LEMMA TakeReplyHolds ==
    ASSUME ServerInv, NEW c \in Clients, TakeReply(c)
    PROVE  ServerInv'
<1>1. /\ peer[c] = "open"
      /\ due' = [due EXCEPT ![c] = Drop(due[c], 1)]
      /\ UNCHANGED <<loop, conn, backlog, toServer, toClient, peer, db, faults>>
      /\ UNCHANGED pending
  BY DEF TakeReply, network
<1>2. PICK r \in TryExtractFrame(received[c]) :
        r.found /\ received' = [received EXCEPT ![c] = r.rest]
  BY DEF TakeReply
<1> DEFINE b == received[c]
           t == toClient[c]
           u == Unsent(c)
           ms == due[c]
<1>3. /\ b \in Seq(Unit) /\ t \in Seq(Unit) /\ u \in Seq(Unit)
      /\ ms \in Seq(Message)
  BY ClientTypes
<1>4. r.rest \in Seq(Unit)
  BY <1>3, WordsAreNoHeaders, ExtractType DEF Unit
<1>5. Drop(ms, 1) \in Seq(Message)
  BY <1>3, DropOne
<1>6. received \in [Clients -> Seq(Unit)] /\ due \in [Clients -> Seq(Message)]
  BY DEF ServerInv, StreamsOK
<1>7. received'[c] = r.rest /\ due'[c] = Drop(ms, 1)
  BY <1>1, <1>2, <1>6
<1>8. StreamsOK'
  <2>1. received' \in [Clients -> Seq(Unit)]
    BY <1>2, <1>4, <1>6
  <2>2. due' \in [Clients -> Seq(Message)]
    BY <1>1, <1>5, <1>6
  <2> QED  BY <1>1, <2>1, <2>2 DEF ServerInv, StreamsOK
<1>9. \A d \in Clients : Waiting(d)' <=> Waiting(d)
  BY <1>1 DEF Waiting
<1>10. Served(c)' <=> Served(c)
  BY <1>1 DEF Served
<1>11. ~Waiting(c)
  <2> SUFFICES ASSUME b = << >> PROVE FALSE
    BY DEF ServerInv, ClientOK, FreshOK
  <2>1. Len(b) < HeaderSize
    BY ProtocolAssumption
  <2>2. r = NoFrame(b)
    BY <2>1 DEF TryExtractFrame
  <2> QED  BY <1>2, <2>2 DEF NoFrame
<1>12. ClientOK(c)'
  <2>1. FreshOK(c)'
    BY <1>1, <1>9, <1>11 DEF FreshOK
  <2>2. ASSUME c \in Honest PROVE RequestsOK(c)'
    BY <1>1, <1>9, <1>10, <2>2 DEF ServerInv, ClientOK, RequestsOK
  <2>3. ASSUME c \in Honest PROVE RepliesOK(c)'
    <3> SUFFICES ASSUME Served(c)
                 PROVE  (received'[c] \o toClient'[c]) \o Unsent(c)' = Frames(due'[c])
      BY <1>1, <1>10 DEF RepliesOK
    <3>1. (b \o t) \o u = Frames(ms)
      BY <1>1, <2>3 DEF ServerInv, ClientOK, RepliesOK
    <3>2. /\ ms \in Seq(Seq(Units(Words)))
          /\ \A i \in 1..Len(ms) : Len(ms[i]) <= MaxMessageSize
      BY <1>3, MessagesType
    <3>3. b \o (t \o u) = Frames(ms) /\ t \o u \in Seq(Units(Words))
      <4> HIDE DEF b, t, u, ms
      <4>1. (b \o t) \o u = b \o (t \o u)
        BY <1>3, Associative
      <4>2. t \o u \in Seq(Unit)
        BY <1>3
      <4> QED  BY <3>1, <4>1, <4>2 DEF Unit
    <3>4. /\ ms # << >>
          /\ r.rest \o (t \o u) = Frames(Tail(ms))
      <4> DEFINE v == t \o u
      <4>1. v \in Seq(Units(Words)) /\ b \in Seq(Units(Words)) /\ b \o v = Frames(ms)
        BY <1>3, <3>3 DEF Unit
      <4>2. r \in TryExtractFrame(b) /\ r.found
        BY <1>2
      <4> HIDE DEF v, b, ms
      <4>3. Extracts(r, b, v, ms)
        BY <3>2, <4>1, <4>2, ExtractFirst
      <4> QED  BY <4>2, <4>3 DEF Extracts, v
    <3>5. Drop(ms, 1) = Tail(ms)
      BY <1>3, <3>4, DropOne
    <3>6. (r.rest \o t) \o u = r.rest \o (t \o u)
      <4> DEFINE q == r.rest
      <4>1. q \in Seq(Unit)
        BY <1>4
      <4> HIDE DEF q, t, u
      <4>2. (q \o t) \o u = q \o (t \o u)
        BY <1>3, <4>1, Associative
      <4> QED  BY <4>2 DEF q
    <3>7. Unsent(c)' = u
      BY <1>1 DEF Unsent
    <3> QED  BY <1>1, <1>7, <3>4, <3>5, <3>6, <3>7
  <2> QED  BY <2>1, <2>2, <2>3 DEF ClientOK
<1>13. ASSUME NEW d \in Clients \ {c} PROVE Untouched(d)
  BY <1>1, <1>2, <1>6, <1>9 DEF Untouched
<1>14. BacklogOK'
  BY <1>1, BacklogSame DEF ServerInv
<1> QED  BY <1>1, <1>8, <1>12, <1>13, <1>14, ClientStep

\* A client that ends is owed nothing any more.
LEMMA ClientCloseHolds ==
    ASSUME ServerInv, NEW c \in Clients, ClientClose(c)
    PROVE  ServerInv'
<1>1. /\ peer[c] = "open" /\ peer' = [peer EXCEPT ![c] = "closed"]
      /\ toClient' = [toClient EXCEPT ![c] = << >>]
      /\ received' = [received EXCEPT ![c] = << >>]
      /\ UNCHANGED <<loop, conn, backlog, toServer, db, faults>>
      /\ UNCHANGED <<pending, due>>
  BY DEF ClientClose, history
<1>2. /\ peer \in [Clients -> {"idle", "open", "closed"}]
      /\ received \in [Clients -> Seq(Unit)]
      /\ toClient \in [Clients -> {s \in Seq(Unit) : Len(s) <= SendBuffer}]
  BY DEF ServerInv, StreamsOK
<1>3. << >> \in Seq(Unit) /\ Len(<< >>) <= SendBuffer
  BY ServerAssumption
<1>4. StreamsOK'
  <2>1. received' \in [Clients -> Seq(Unit)]
    BY <1>1, <1>2, <1>3
  <2>2. toClient' \in [Clients -> {s \in Seq(Unit) : Len(s) <= SendBuffer}]
    BY <1>1, <1>2, <1>3
  <2>3. peer' \in [Clients -> {"idle", "open", "closed"}]
    BY <1>1, <1>2
  <2> QED  BY <1>1, <2>1, <2>2, <2>3 DEF ServerInv, StreamsOK
<1>5. \A d \in Clients : Waiting(d)' <=> Waiting(d)
  BY <1>1 DEF Waiting
<1>6. Served(c)' <=> Served(c)
  BY <1>1 DEF Served
<1>7. peer'[c] = "closed" /\ toClient'[c] = << >> /\ received'[c] = << >>
  BY <1>1, <1>2
<1>8. ClientOK(c)'
  <2>1. FreshOK(c)'
    BY <1>1, <1>5, <1>6, <1>7 DEF ServerInv, ClientOK, FreshOK
  <2>2. ASSUME c \in Honest PROVE RequestsOK(c)'
    BY <1>1, <1>5, <1>6, <2>2 DEF ServerInv, ClientOK, RequestsOK
  <2>3. RepliesOK(c)'
    BY <1>7 DEF RepliesOK
  <2> QED  BY <2>1, <2>2, <2>3 DEF ClientOK
<1>9. ASSUME NEW d \in Clients \ {c} PROVE Untouched(d)
  BY <1>1, <1>2, <1>5 DEF Untouched
<1>10. BacklogOK'
  BY <1>1, BacklogSame DEF ServerInv
<1> QED  BY <1>1, <1>4, <1>8, <1>9, <1>10, ClientStep

-----------------------------------------------------------------------------
(***************************************************************************)
(* The event loop.                                                         *)
(***************************************************************************)

\* The bound on failures.
LEMMA FaultType ==
    ASSUME ServerInv, NEW f, Fault(f)
    PROVE  faults' \in 0..MaxFaults
<1>1. faults \in 0..MaxFaults /\ MaxFaults \in Nat /\ faults < MaxFaults
      /\ faults' = faults + 1
  BY ServerAssumption DEF ServerInv, LoopOK, Fault
<1> QED  BY <1>1

\* Descriptors, and the names that are no client.
LEMMA FdFacts ==
    /\ NoFd \notin Fds /\ ServerFd \notin Fds
    /\ Nobody \notin Clients /\ Listener \notin Clients /\ Nobody # Listener
BY ServerAssumption DEF NoFd, ServerFd, Fds

\* Server::initialize.
LEMMA InitializeHolds ==
    ASSUME ServerInv, Initialize
    PROVE  ServerInv'
<1>1. /\ server' = "running"
      /\ readCb' = [readCb EXCEPT ![ServerFd] = Listener]
      /\ UNCHANGED <<connections, writeCb, batch, handler, conn, faults>>
  BY DEF Initialize, AddRead
<1>2. LoopOK
  BY DEF ServerInv
<1>3. readCb' \in [Fds \cup {ServerFd} -> Clients \cup {Listener, Nobody}]
      /\ readCb'[ServerFd] = Listener /\ \A fd \in Fds : readCb'[fd] = readCb[fd]
  BY <1>1, <1>2, FdFacts DEF LoopOK
<1>4. CallbacksAreLive' /\ HandlerIsLive'
  BY <1>1, <1>2, <1>3 DEF LoopOK, CallbacksAreLive, HandlerIsLive, Served
<1>5. LoopOK'
  BY <1>1, <1>2, <1>3, <1>4 DEF LoopOK
<1> QED  BY <1>5, LoopStep DEF Initialize

\* Server::initialize fails.
LEMMA InitializeFailsHolds ==
    ASSUME ServerInv, InitializeFails
    PROVE  ServerInv'
<1>1. /\ server' = "stopped" /\ Fault("listen")
      /\ UNCHANGED <<connections, readCb, writeCb, batch, handler, conn>>
  BY DEF InitializeFails
<1>2. faults' \in 0..MaxFaults
  BY <1>1, FaultType
<1>3. LoopOK'
  BY <1>1, <1>2 DEF ServerInv, LoopOK, CallbacksAreLive, HandlerIsLive, Served
<1> QED  BY <1>3, LoopStep DEF InitializeFails

\* kevent returns only events somebody registered for.
LEMMA WaitEventsHolds ==
    ASSUME ServerInv, WaitEvents
    PROVE  ServerInv'
<1>1. /\ batch' \subseteq Ready
      /\ UNCHANGED <<server, connections, readCb, writeCb, handler, conn, faults>>
  BY DEF WaitEvents
<1>2. Ready \subseteq Event
  BY DEF Ready, Event
<1>3. LoopOK'
  BY <1>1, <1>2 DEF ServerInv, LoopOK, CallbacksAreLive, HandlerIsLive, Served
<1> QED  BY <1>3, LoopStep DEF WaitEvents

\* The event of a batch names a descriptor, or the listening socket.
LEMMA EventType ==
    ASSUME ServerInv, NEW e \in batch
    PROVE  \/ e[1] \in Fds /\ e[2] \in {"read", "write"}
           \/ e[1] = ServerFd /\ e[2] = "read"
<1>1. e \in Event
  BY DEF ServerInv, LoopOK
<1> QED  BY <1>1 DEF Event

\* EV_ERROR takes callbacks away, never a connection.
LEMMA EventErrorHolds ==
    ASSUME ServerInv, NEW e \in batch, EventError(e)
    PROVE  ServerInv'
<1>1. /\ Fault("event") /\ batch' = batch \ {e}
      /\ readCb' = [readCb EXCEPT ![e[1]] = Nobody]
      /\ writeCb' = [f \in Fds |-> IF f = e[1] THEN Nobody ELSE writeCb[f]]
      /\ UNCHANGED <<server, connections, handler, conn>>
  BY DEF EventError, Remove
<1>2. faults' \in 0..MaxFaults
  BY <1>1, FaultType
<1>3. LoopOK
  BY DEF ServerInv
<1>4. e[1] \in Fds \cup {ServerFd}
  BY EventType
<1>5. /\ readCb' \in [Fds \cup {ServerFd} -> Clients \cup {Listener, Nobody}]
      /\ readCb'[ServerFd] \in {Listener, Nobody}
      /\ writeCb' \in [Fds -> Clients \cup {Nobody}]
      /\ \A fd \in Fds : readCb'[fd] \in {Nobody, readCb[fd]}
      /\ \A fd \in Fds : writeCb'[fd] \in {Nobody, writeCb[fd]}
  BY <1>1, <1>3, <1>4 DEF LoopOK
<1>6. CallbacksAreLive' /\ HandlerIsLive'
  BY <1>1, <1>3, <1>5 DEF LoopOK, CallbacksAreLive, HandlerIsLive, Served
<1>7. LoopOK'
  BY <1>1, <1>2, <1>3, <1>5, <1>6 DEF LoopOK
<1> QED  BY <1>7, LoopStep DEF EventError

\* An event of nobody.
LEMMA IgnoreEventHolds ==
    ASSUME ServerInv, NEW e \in batch, IgnoreEvent(e)
    PROVE  ServerInv'
<1>1. /\ batch' = batch \ {e}
      /\ UNCHANGED <<server, connections, readCb, writeCb, handler, conn, faults>>
  BY DEF IgnoreEvent
<1>2. LoopOK'
  BY <1>1 DEF ServerInv, LoopOK, CallbacksAreLive, HandlerIsLive, Served
<1> QED  BY <1>2, LoopStep DEF IgnoreEvent

\* handle_accept starts.
LEMMA HandleAcceptHolds ==
    ASSUME ServerInv, NEW e \in batch, HandleAccept(e)
    PROVE  ServerInv'
<1>1. /\ batch' = batch \ {e} /\ handler' = Listener
      /\ UNCHANGED <<server, connections, readCb, writeCb, conn, faults>>
  BY DEF HandleAccept
<1>2. LoopOK'
  BY <1>1, FdFacts DEF ServerInv, LoopOK, CallbacksAreLive, HandlerIsLive, Served
<1> QED  BY <1>2, LoopStep DEF HandleAccept

\* handle_accept ends.
LEMMA AcceptDoneHolds ==
    ASSUME ServerInv, AcceptDone
    PROVE  ServerInv'
<1>1. /\ handler' = Nobody
      /\ UNCHANGED <<server, connections, readCb, writeCb, batch, conn, faults>>
  BY DEF AcceptDone
<1>2. LoopOK'
  BY <1>1, FdFacts DEF ServerInv, LoopOK, CallbacksAreLive, HandlerIsLive, Served
<1> QED  BY <1>2, LoopStep DEF AcceptDone

\* The end of the server: nobody is served or waits any more.
LEMMA StopHolds ==
    ASSUME ServerInv, Stop, faults' \in 0..MaxFaults,
           UNCHANGED <<toClient, client, db, history>>
    PROVE  ServerInv'
<1>1. /\ server' = "stopped"
      /\ connections' = [fd \in Fds |-> Nobody]
      /\ readCb' = [fd \in Fds \cup {ServerFd} |-> Nobody]
      /\ writeCb' = [fd \in Fds |-> Nobody]
      /\ batch' = {} /\ handler' = Nobody
      /\ conn' = [c \in Clients |-> NoConnection]
      /\ backlog' = << >>
      /\ toServer' = [c \in Clients |-> << >>]
  BY DEF Stop
<1>2. UNCHANGED <<toClient, peer, received, db, pending, due>>
  BY DEF client, history
<1>3. ConnOK'
  BY <1>1, NoConnectionType DEF ConnOK
<1>4. \A c \in Clients : ~Served(c)' /\ conn'[c].fd = NoFd
  BY <1>1 DEF Served, NoConnection
<1>5. LoopOK'
  <2>1. CallbacksAreLive'
    BY <1>1, <1>4, FdFacts DEF CallbacksAreLive
  <2>2. HandlerIsLive'
    BY <1>1, FdFacts DEF HandlerIsLive
  <2> QED  BY <1>1, <2>1, <2>2 DEF LoopOK
<1>6. StreamsOK'
  <2>1. << >> \in Seq(Unit) /\ << >> \in Seq(Clients)
    OBVIOUS
  <2> QED  BY <1>1, <1>2, <2>1 DEF ServerInv, StreamsOK
<1>7. DbOK'
  BY <1>2, DbSame DEF ServerInv
<1>8. BacklogOK'
  BY <1>1 DEF BacklogOK
<1>9. ASSUME NEW c \in Clients PROVE ClientOK(c)'
  <2>1. ~Waiting(c)'
    BY <1>1 DEF Waiting
  <2>2. FreshOK(c)'
    BY <1>1, <1>2, <1>4, <2>1 DEF ServerInv, ClientOK, FreshOK
  <2> QED  BY <1>4, <2>1, <2>2 DEF ClientOK, RequestsOK, RepliesOK
<1> QED  BY <1>3, <1>5, <1>6, <1>7, <1>8, <1>9 DEF ServerInv

\* kevent fails.
LEMMA LoopFailsHolds ==
    ASSUME ServerInv, LoopFails
    PROVE  ServerInv'
<1>1. faults' \in 0..MaxFaults
  BY FaultType DEF LoopFails
<1> QED  BY <1>1, StopHolds DEF LoopFails

\* SIGPIPE.
LEMMA BrokenPipeHolds ==
    ASSUME ServerInv, NEW e \in batch, NEW c \in Clients, BrokenPipe(e, c)
    PROVE  ServerInv'
<1>1. faults' \in 0..MaxFaults
  BY DEF BrokenPipe, ServerInv, LoopOK
<1> QED  BY <1>1, StopHolds DEF BrokenPipe

-----------------------------------------------------------------------------
(***************************************************************************)
(* Accepting and closing.                                                  *)
(***************************************************************************)

\* A step on one connection.
LEMMA ConnectionStep ==
    ASSUME ServerInv, NEW c \in Clients, ConnOK', LoopOK', StreamsOK', DbOK',
           BacklogOK', ClientOK(c)', \A d \in Clients \ {c} : Untouched(d)
    PROVE  ServerInv'
<1>1. \A d \in Clients : ClientOK(d)'
  BY ClientSame DEF ServerInv
<1> QED  BY <1>1 DEF ServerInv

\* A connection that is served has a descriptor, and is out of the backlog.
LEMMA ServedFacts ==
    ASSUME ServerInv, NEW c \in Clients, Served(c)
    PROVE  /\ conn[c].fd \in Fds /\ connections[conn[c].fd] = c
           /\ ~Waiting(c) /\ peer[c] # "idle"
<1>1. conn[c] \in Connection
  BY DEF ServerInv, ConnOK
<1>2. conn[c].fd \in Fds
  BY <1>1 DEF Connection, Served
<1>3. connections[conn[c].fd] = c
  BY <1>2 DEF ServerInv, LoopOK, CallbacksAreLive
<1> QED  BY <1>2, <1>3 DEF ServerInv, ClientOK, FreshOK

\* The callback of an event belongs to a connection that is served.
LEMMA CallbackFacts ==
    ASSUME ServerInv, NEW e \in batch, NEW c \in Clients, Callback(e) = c
    PROVE  conn[c].fd = e[1] /\ e[1] \in Fds /\ Served(c)
<1>1. /\ LoopOK /\ conn[c] \in Connection
  BY DEF ServerInv, ConnOK
<1>2. e[1] \in Fds
  BY <1>1, EventType, FdFacts DEF Callback, LoopOK
<1>3. connections[e[1]] = c
  <2>1. readCb[e[1]] = c \/ writeCb[e[1]] = c
    BY DEF Callback
  <2> QED  BY <1>1, <1>2, <2>1, FdFacts DEF LoopOK, CallbacksAreLive
<1>4. conn[c].fd = e[1]
  BY <1>1, <1>2, <1>3 DEF LoopOK, CallbacksAreLive
<1>5. Served(c)
  BY <1>1, <1>2, <1>4, FdFacts DEF Connection, Served
<1> QED  BY <1>2, <1>4, <1>5

\* accept returns a free descriptor.
LEMMA NewFdFacts ==
    ASSUME FreeFds # {}
    PROVE  NewFd \in Fds /\ \A c \in Clients : conn[c].fd # NewFd
<1>1. FreeFds \subseteq Nat
  BY DEF FreeFds, Fds
<1>2. \E fd \in FreeFds : \A f \in FreeFds : fd <= f
  BY <1>1, LeastNatural
<1>3. NewFd \in FreeFds
  BY <1>2 DEF NewFd
<1> QED  BY <1>3 DEF FreeFds

\* Taking the first client out of the backlog.
LEMMA BacklogTail ==
    ASSUME ServerInv, backlog # << >>, backlog' = Tail(backlog),
           NEW c \in Clients, c = Head(backlog)
    PROVE  /\ Waiting(c) /\ ~Waiting(c)'
           /\ \A d \in Clients : Waiting(d)' => Waiting(d)
           /\ backlog' \in Seq(Clients)
           /\ BacklogOK'
<1>1. backlog \in Seq(Clients) /\ Len(backlog) \in Nat /\ Len(backlog) >= 1
  BY DEF ServerInv, StreamsOK
<1>2. /\ c = backlog[1]
      /\ backlog' \in Seq(Clients) /\ Len(backlog') = Len(backlog) - 1
      /\ DOMAIN backlog = 1..Len(backlog) /\ DOMAIN backlog' = 1..(Len(backlog) - 1)
      /\ \A i \in 1..(Len(backlog) - 1) : backlog'[i] = backlog[i + 1]
  BY <1>1
<1>3. \A i \in 1..(Len(backlog) - 1) : i + 1 \in 1..Len(backlog) /\ i + 1 # 1
  BY <1>1
<1>4. 1 \in 1..Len(backlog)
  BY <1>1
<1>5. Waiting(c)
  BY <1>2, <1>4 DEF Waiting
<1>6. ~Waiting(c)'
  <2> SUFFICES ASSUME NEW i \in 1..(Len(backlog) - 1), backlog'[i] = c PROVE FALSE
    BY <1>2 DEF Waiting
  <2>1. backlog[i + 1] = backlog[1] /\ i + 1 \in 1..Len(backlog) /\ i + 1 # 1
    BY <1>2, <1>3
  <2> QED  BY <1>4, <2>1 DEF ServerInv, BacklogOK
<1>7. ASSUME NEW d \in Clients, Waiting(d)' PROVE Waiting(d)
  BY <1>2, <1>3, <1>7 DEF Waiting
<1>8. BacklogOK'
  <2> SUFFICES ASSUME NEW i \in 1..(Len(backlog) - 1), NEW j \in 1..(Len(backlog) - 1),
                      backlog'[i] = backlog'[j]
               PROVE  i = j
    BY <1>2 DEF BacklogOK
  <2>1. backlog[i + 1] = backlog[j + 1]
    BY <1>2
  <2>2. i + 1 = j + 1
    BY <1>3, <2>1 DEF ServerInv, BacklogOK
  <2> QED  BY <1>1, <2>2
<1> QED  BY <1>2, <1>5, <1>6, <1>7, <1>8

\* The Connection that accept creates.
LEMMA NewConnectionType ==
    ASSUME NEW fd \in Fds
    PROVE  /\ NewConnection(fd) \in Connection
           /\ NewConnection(fd).fd = fd /\ NewConnection(fd).state = "READING"
           /\ NewConnection(fd).input = << >>
           /\ NewConnection(fd).output = << >> /\ NewConnection(fd).offset = 0
<1>1. << >> \in Seq(Unit) /\ Len(<< >>) = 0
  OBVIOUS
<1> DEFINE T == [fd : Fds \cup {NoFd}, state : {"READING", "WRITING", "CLOSED"},
                 input : Seq(Unit), output : Seq(Unit), offset : Nat]
           k == NewConnection(fd)
<1>2. /\ NoConnection \in T /\ NoConnection.input = << >>
      /\ NoConnection.output = << >> /\ NoConnection.offset = 0
  BY <1>1 DEF NoConnection
<1>3. k = [NoConnection EXCEPT !.fd = fd, !.state = "READING"]
  BY DEF NewConnection
<1> HIDE DEF k
<1>4. /\ k \in T /\ k.fd = fd /\ k.state = "READING" /\ k.input = << >>
      /\ k.output = << >> /\ k.offset = 0
  BY <1>2, <1>3
<1>5. k \in Connection
  BY <1>1, <1>4, FdFacts DEF Connection
<1> QED  BY <1>4, <1>5 DEF k

\* accept: the new descriptor belongs to nobody else.
LEMMA AcceptClientHolds ==
    ASSUME ServerInv, AcceptClient
    PROVE  ServerInv'
<1>1. /\ FreeFds # {} /\ backlog # << >>
      /\ Head(backlog) \in Clients
  BY DEF ServerInv, StreamsOK, AcceptClient
<1> PICK c \in Clients : c = Head(backlog)
  BY <1>1
<1> PICK fd \in Fds : fd = NewFd
  BY <1>1, NewFdFacts
<1>2. /\ handler = Listener /\ backlog # << >> /\ FreeFds # {}
      /\ conn' = [conn EXCEPT ![c] = NewConnection(fd)]
      /\ connections' = [connections EXCEPT ![fd] = c]
      /\ \/ readCb' = [readCb EXCEPT ![fd] = c] /\ UNCHANGED faults
         \/ readCb' = [readCb EXCEPT ![fd] = Nobody] /\ Fault("register")
      /\ backlog' = Tail(backlog)
      /\ UNCHANGED <<server, writeCb, batch, handler, toServer, toClient, db>>
  BY DEF AcceptClient, AddRead
<1>3. UNCHANGED <<peer, received, pending, due>>
  BY DEF AcceptClient, client, history
<1>4. /\ Waiting(c) /\ ~Waiting(c)'
      /\ \A d \in Clients : Waiting(d)' => Waiting(d)
      /\ backlog' \in Seq(Clients) /\ BacklogOK'
  BY <1>2, BacklogTail
<1>5. fd \in Fds /\ \A d \in Clients : conn[d].fd # fd
  BY <1>2, NewFdFacts
<1> DEFINE k == NewConnection(fd)
<1>6. /\ k \in Connection /\ k.fd = fd /\ k.state = "READING"
      /\ k.input = << >> /\ k.output = << >> /\ k.offset = 0
  BY <1>5, NewConnectionType
<1> HIDE DEF k
<1>7. /\ conn \in [Clients -> Connection] /\ LoopOK
  BY DEF ServerInv, ConnOK
<1>8. /\ conn' \in [Clients -> Connection] /\ conn'[c] = k
      /\ \A d \in Clients \ {c} : conn'[d] = conn[d]
  BY <1>2, <1>4, <1>6, <1>7 DEF k
<1>9. /\ ~Served(c) /\ peer[c] # "idle"
      /\ toClient[c] = << >> /\ received[c] = << >> /\ due[c] = << >>
  BY <1>4 DEF ServerInv, ClientOK, FreshOK
<1>10. conn[c] = NoConnection
  BY <1>4, <1>7, <1>9 DEF Connection, Served
<1>11. LoopOK'
  <2>1. faults' \in 0..MaxFaults
    BY <1>2, <1>7, FaultType DEF LoopOK
  <2>2. /\ connections' \in [Fds -> Clients \cup {Nobody}]
        /\ connections'[fd] = c
        /\ \A f \in Fds \ {fd} : connections'[f] = connections[f]
    BY <1>2, <1>4, <1>5, <1>7 DEF LoopOK
  <2>3. /\ readCb' \in [Fds \cup {ServerFd} -> Clients \cup {Listener, Nobody}]
        /\ readCb'[fd] \in {c, Nobody}
        /\ readCb'[ServerFd] = readCb[ServerFd]
        /\ \A f \in Fds \ {fd} : readCb'[f] = readCb[f]
    BY <1>2, <1>4, <1>5, <1>7, FdFacts DEF LoopOK
  <2>4. writeCb'[fd] = Nobody
    <3>1. connections[fd] \notin Clients
      BY <1>5, <1>7 DEF LoopOK, CallbacksAreLive
    <3>2. writeCb[fd] \in Clients \cup {Nobody} /\ connections[fd] \in Clients \cup {Nobody}
      BY <1>5, <1>7 DEF LoopOK
    <3>3. writeCb[fd] # Nobody => writeCb[fd] = connections[fd]
      BY <1>5, <1>7 DEF LoopOK, CallbacksAreLive
    <3> QED  BY <1>2, <3>1, <3>2, <3>3
  <2>5. CallbacksAreLive'
    <3> SUFFICES ASSUME NEW f \in Fds
                 PROVE  /\ readCb'[f] # Nobody => readCb'[f] = connections'[f]
                        /\ writeCb'[f] # Nobody => writeCb'[f] = connections'[f]
                        /\ \A d \in Clients : connections'[f] = d <=> conn'[d].fd = f
      BY DEF CallbacksAreLive
    <3>1. CASE f = fd
      BY <1>4, <1>5, <1>6, <1>8, <2>2, <2>3, <2>4, <3>1
    <3>2. CASE f # fd
      <4>1. /\ connections'[f] = connections[f] /\ readCb'[f] = readCb[f]
            /\ writeCb'[f] = writeCb[f]
        BY <1>2, <2>2, <2>3, <3>2
      <4>2. /\ readCb[f] # Nobody => readCb[f] = connections[f]
            /\ writeCb[f] # Nobody => writeCb[f] = connections[f]
            /\ \A d \in Clients : connections[f] = d <=> conn[d].fd = f
        BY <1>7 DEF LoopOK, CallbacksAreLive
      <4>3. conn[c].fd # f /\ conn'[c].fd # f
        BY <1>6, <1>8, <1>10, <3>2, FdFacts DEF NoConnection
      <4>4. \A d \in Clients : conn'[d].fd = f <=> conn[d].fd = f
        BY <1>8, <4>3
      <4> QED  BY <4>1, <4>2, <4>4
    <3> QED  BY <3>1, <3>2
  <2>6. HandlerIsLive'
    BY <1>2, FdFacts DEF HandlerIsLive
  <2> QED  BY <1>2, <1>7, <2>1, <2>2, <2>3, <2>5, <2>6 DEF LoopOK
<1>12. ConnOK'
  BY <1>8 DEF ConnOK
<1>13. StreamsOK'
  BY <1>2, <1>3, <1>4 DEF ServerInv, StreamsOK
<1>14. DbOK'
  BY <1>2, DbSame DEF ServerInv
<1>15. ClientOK(c)'
  <2>1. FreshOK(c)'
    BY <1>3, <1>4, <1>9 DEF FreshOK
  <2>2. ASSUME c \in Honest PROVE RequestsOK(c)'
    <3>1. conn[c].input \o toServer[c] = Frames(pending[c])
      BY <1>4, <2>2 DEF ServerInv, ClientOK, RequestsOK
    <3>2. conn'[c].input = conn[c].input
      BY <1>6, <1>8, <1>10 DEF NoConnection
    <3> QED  BY <1>2, <1>3, <3>1, <3>2 DEF RequestsOK
  <2>3. RepliesOK(c)'
    <3>1. Unsent(c)' = << >>
      <4>1. Drop(<< >>, 0) = << >>
        BY DEF Drop
      <4> QED  BY <1>6, <1>8, <4>1 DEF Unsent
    <3>2. (<< >> \o << >>) \o << >> = << >>
      OBVIOUS
    <3> QED  BY <1>2, <1>3, <1>9, <3>1, <3>2, FramesEmpty DEF RepliesOK
  <2> QED  BY <2>1, <2>2, <2>3 DEF ClientOK
<1>16. ASSUME NEW d \in Clients \ {c} PROVE Untouched(d)
  BY <1>2, <1>3, <1>4, <1>8 DEF Untouched
<1> QED  BY <1>4, <1>11, <1>12, <1>13, <1>14, <1>15, <1>16, ConnectionStep

\* A client whose socket is closed at once waits no longer.
LEMMA AcceptRefusesHolds ==
    ASSUME ServerInv, AcceptRefuses
    PROVE  ServerInv'
<1>1. /\ backlog # << >>
      /\ Head(backlog) \in Clients
  BY DEF ServerInv, StreamsOK, AcceptRefuses
<1> PICK c \in Clients : c = Head(backlog)
  BY <1>1
<1>2. /\ backlog # << >> /\ backlog' = Tail(backlog) /\ Fault("nonblock")
      /\ toServer' = [toServer EXCEPT ![c] = << >>]
      /\ UNCHANGED <<loop, conn, toClient, db>>
  BY DEF AcceptRefuses
<1>3. UNCHANGED <<peer, received, pending, due>>
  BY DEF AcceptRefuses, client, history
<1>4. /\ Waiting(c) /\ ~Waiting(c)'
      /\ \A d \in Clients : Waiting(d)' => Waiting(d)
      /\ backlog' \in Seq(Clients) /\ BacklogOK'
  BY <1>2, BacklogTail
<1>5. /\ ~Served(c) /\ peer[c] # "idle"
  BY <1>4 DEF ServerInv, ClientOK, FreshOK
<1>6. ~Served(c)'
  BY <1>2, <1>5 DEF Served
<1>7. LoopOK'
  <2>1. faults' \in 0..MaxFaults
    BY <1>2, FaultType
  <2>2. UNCHANGED <<server, connections, readCb, writeCb, batch, handler, conn>>
    BY <1>2 DEF loop
  <2> QED  BY <2>1, <2>2 DEF ServerInv, LoopOK, CallbacksAreLive, HandlerIsLive, Served
<1>8. StreamsOK'
  <2>1. toServer \in [Clients -> Seq(Unit)] /\ << >> \in Seq(Unit)
    BY DEF ServerInv, StreamsOK
  <2>2. toServer' \in [Clients -> Seq(Unit)]
    BY <1>2, <2>1
  <2> QED  BY <1>2, <1>3, <1>4, <2>2 DEF ServerInv, StreamsOK
<1>9. ConnOK' /\ DbOK'
  BY <1>2, ConnSame, DbSame DEF ServerInv
<1>10. ClientOK(c)'
  BY <1>3, <1>4, <1>5, <1>6 DEF ClientOK, FreshOK, RequestsOK, RepliesOK
<1>11. ASSUME NEW d \in Clients \ {c} PROVE Untouched(d)
  <2>1. toServer'[d] = toServer[d]
    BY <1>2 DEF ServerInv, StreamsOK
  <2> QED  BY <1>2, <1>3, <1>4, <2>1 DEF Untouched
<1> QED  BY <1>4, <1>7, <1>8, <1>9, <1>10, <1>11, ConnectionStep

\* Closing a connection takes it out of every table and drops its input,
\* whatever was sent to its client before.
LEMMA CloseHolds ==
    ASSUME ServerInv, NEW c \in Clients, Served(c), handler = Nobody, Close(c),
           batch' \subseteq batch, faults' \in 0..MaxFaults,
           toClient' \in [Clients -> Seq(Unit)], Len(toClient'[c]) <= SendBuffer,
           \A d \in Clients \ {c} : toClient'[d] = toClient[d],
           UNCHANGED <<server, handler, backlog, client, db, history>>
    PROVE  ServerInv'
<1>1. PICK fd \in Fds : fd = conn[c].fd /\ connections[fd] = c
  BY ServedFacts
<1>2. /\ readCb' = [readCb EXCEPT ![fd] = Nobody]
      /\ writeCb' = [f \in Fds |-> IF f = fd THEN Nobody ELSE writeCb[f]]
      /\ connections' = [connections EXCEPT ![fd] = Nobody]
      /\ conn' = [conn EXCEPT ![c] = NoConnection]
      /\ toServer' = [toServer EXCEPT ![c] = << >>]
  BY <1>1 DEF Close, Remove, RemoveConnection
<1>3. UNCHANGED <<peer, received, pending, due>>
  BY DEF client, history
<1>4. LoopOK /\ conn \in [Clients -> Connection] /\ toServer \in [Clients -> Seq(Unit)]
  BY DEF ServerInv, ConnOK, StreamsOK
<1>5. /\ conn' \in [Clients -> Connection] /\ conn'[c] = NoConnection
      /\ \A d \in Clients \ {c} : conn'[d] = conn[d]
  BY <1>2, <1>4, NoConnectionType
<1>6. ~Waiting(c) /\ peer[c] # "idle" /\ ~Served(c)'
  BY <1>5, ServedFacts DEF Served, NoConnection
<1>7. LoopOK'
  <2>1. /\ connections' \in [Fds -> Clients \cup {Nobody}]
        /\ connections'[fd] = Nobody
        /\ \A f \in Fds \ {fd} : connections'[f] = connections[f]
    BY <1>2, <1>4 DEF LoopOK
  <2>2. /\ readCb' \in [Fds \cup {ServerFd} -> Clients \cup {Listener, Nobody}]
        /\ readCb'[fd] = Nobody
        /\ readCb'[ServerFd] = readCb[ServerFd]
        /\ \A f \in Fds \ {fd} : readCb'[f] = readCb[f]
    BY <1>2, <1>4, FdFacts DEF LoopOK
  <2>3. /\ writeCb' \in [Fds -> Clients \cup {Nobody}]
        /\ writeCb'[fd] = Nobody
        /\ \A f \in Fds \ {fd} : writeCb'[f] = writeCb[f]
    BY <1>2, <1>4 DEF LoopOK
  <2>4. CallbacksAreLive'
    <3> SUFFICES ASSUME NEW f \in Fds
                 PROVE  /\ readCb'[f] # Nobody => readCb'[f] = connections'[f]
                        /\ writeCb'[f] # Nobody => writeCb'[f] = connections'[f]
                        /\ \A d \in Clients : connections'[f] = d <=> conn'[d].fd = f
      BY DEF CallbacksAreLive
    <3>1. /\ readCb[f] # Nobody => readCb[f] = connections[f]
          /\ writeCb[f] # Nobody => writeCb[f] = connections[f]
          /\ \A d \in Clients : connections[f] = d <=> conn[d].fd = f
      BY <1>4 DEF LoopOK, CallbacksAreLive
    <3>2. conn'[c].fd # f
      BY <1>5, FdFacts DEF NoConnection
    <3>3. CASE f = fd
      <4>1. \A d \in Clients : conn'[d].fd # f
        BY <1>1, <1>5, <3>1, <3>2, <3>3
      <4> QED  BY <2>1, <2>2, <2>3, <3>3, <4>1, FdFacts
    <3>4. CASE f # fd
      <4>1. conn[c].fd # f
        BY <1>1, <3>4
      <4>2. \A d \in Clients : conn'[d].fd = f <=> conn[d].fd = f
        BY <1>5, <3>2, <4>1
      <4>3. /\ connections'[f] = connections[f] /\ readCb'[f] = readCb[f]
            /\ writeCb'[f] = writeCb[f]
        BY <2>1, <2>2, <2>3, <3>4
      <4> QED  BY <3>1, <4>2, <4>3
    <3> QED  BY <3>3, <3>4
  <2>5. HandlerIsLive'
    BY FdFacts DEF HandlerIsLive
  <2> QED  BY <1>4, <2>1, <2>2, <2>3, <2>4, <2>5 DEF LoopOK
<1>8. StreamsOK'
  <2>1. toServer' \in [Clients -> Seq(Unit)]
    <3>1. << >> \in Seq(Unit)
      OBVIOUS
    <3> QED  BY <1>2, <1>4, <3>1
  <2> QED  BY <1>3, <2>1 DEF ServerInv, StreamsOK
<1>9. ConnOK' /\ DbOK' /\ BacklogOK'
  BY <1>5, DbSame, BacklogSame DEF ConnOK, ServerInv
<1>10. \A d \in Clients : Waiting(d)' <=> Waiting(d)
  BY DEF Waiting
<1>11. ClientOK(c)'
  BY <1>3, <1>6, <1>10 DEF ClientOK, FreshOK, RequestsOK, RepliesOK
<1>12. ASSUME NEW d \in Clients \ {c} PROVE Untouched(d)
  BY <1>2, <1>3, <1>4, <1>5, <1>10 DEF Untouched
<1> QED  BY <1>7, <1>8, <1>9, <1>11, <1>12, ConnectionStep

\* A step that sends nothing and meets no failure.
LEMMA NothingSent ==
    ASSUME ServerInv, NEW c \in Clients, UNCHANGED <<toClient, faults>>
    PROVE  /\ faults' \in 0..MaxFaults
           /\ toClient' \in [Clients -> Seq(Unit)] /\ Len(toClient'[c]) <= SendBuffer
           /\ \A d \in Clients \ {c} : toClient'[d] = toClient[d]
BY DEF ServerInv, LoopOK, StreamsOK

\* handle_readable at the end of the stream.
LEMMA HandleEndOfStreamHolds ==
    ASSUME ServerInv, NEW e \in batch, NEW c \in Clients, HandleEndOfStream(e, c)
    PROVE  ServerInv'
<1>1. /\ handler = Nobody /\ Callback(e) = c /\ batch' = batch \ {e} /\ Close(c)
      /\ UNCHANGED <<server, handler, backlog, toClient, client, db, history, faults>>
  BY DEF HandleEndOfStream, InLoop
<1>2. Served(c)
  BY <1>1, CallbackFacts
<1>3. batch' \subseteq batch
  BY <1>1
<1> QED  BY <1>1, <1>2, <1>3, NothingSent, CloseHolds

-----------------------------------------------------------------------------
(***************************************************************************)
(* Reading and writing.                                                    *)
(***************************************************************************)

\* The record behind a Connection.
ConnectionRecord ==
    [fd : Fds \cup {NoFd}, state : {"READING", "WRITING", "CLOSED"},
     input : Seq(Unit), output : Seq(Unit), offset : Nat]

\* A step that keeps a served connection's descriptor keeps the event loop
\* in order, if it registers the callback for writing for nobody else.
LEMMA LoopKeeps ==
    ASSUME ServerInv, NEW c \in Clients, Served(c), ConnOK',
           conn'[c].fd = conn[c].fd,
           \A d \in Clients \ {c} : conn'[d] = conn[d],
           \/ writeCb' = writeCb
           \/ \E w \in {c, Nobody} : writeCb' = [writeCb EXCEPT ![conn[c].fd] = w],
           batch' \subseteq batch, handler' \in {c, Nobody},
           UNCHANGED <<server, connections, readCb>>, faults' \in 0..MaxFaults
    PROVE  LoopOK'
<1>1. PICK fd \in Fds : fd = conn[c].fd /\ connections[fd] = c
  BY ServedFacts
<1>2. LoopOK
  BY DEF ServerInv
<1>3. /\ writeCb' \in [Fds -> Clients \cup {Nobody}]
      /\ writeCb'[fd] \in {c, Nobody, writeCb[fd]}
      /\ \A f \in Fds \ {fd} : writeCb'[f] = writeCb[f]
  BY <1>1, <1>2 DEF LoopOK
<1>4. \A d \in Clients : conn'[d].fd = conn[d].fd
  OBVIOUS
<1>5. CallbacksAreLive'
  <2> SUFFICES ASSUME NEW f \in Fds
               PROVE  /\ readCb'[f] # Nobody => readCb'[f] = connections'[f]
                      /\ writeCb'[f] # Nobody => writeCb'[f] = connections'[f]
                      /\ \A d \in Clients : connections'[f] = d <=> conn'[d].fd = f
    BY DEF CallbacksAreLive
  <2>1. /\ readCb[f] # Nobody => readCb[f] = connections[f]
        /\ writeCb[f] # Nobody => writeCb[f] = connections[f]
        /\ \A d \in Clients : connections[f] = d <=> conn[d].fd = f
    BY <1>2 DEF LoopOK, CallbacksAreLive
  <2>2. writeCb'[f] # Nobody => writeCb'[f] = connections[f]
    BY <1>1, <1>3, <2>1
  <2> QED  BY <1>4, <2>1, <2>2
<1>6. Served(c)'
  <2>1. conn'[c] \in Connection /\ conn'[c].fd # NoFd
    BY <1>1, FdFacts DEF ConnOK
  <2> QED  BY <2>1 DEF Connection, Served
<1>7. HandlerIsLive'
  BY <1>6, FdFacts DEF HandlerIsLive
<1> QED  BY <1>2, <1>3, <1>5, <1>7 DEF LoopOK

\* Putting another record in the place of a connection.
LEMMA ConnUpdate ==
    ASSUME ServerInv, NEW c \in Clients, NEW k \in Connection,
           conn' = [conn EXCEPT ![c] = k]
    PROVE  ConnOK' /\ conn'[c] = k /\ \A d \in Clients \ {c} : conn'[d] = conn[d]
BY DEF ServerInv, ConnOK

\* handle_readable: bytes move from the socket to the input buffer.
LEMMA HandleReadableHolds ==
    ASSUME ServerInv, NEW e \in batch, NEW c \in Clients, HandleReadable(e, c)
    PROVE  ServerInv'
<1>1. /\ Callback(e) = c /\ batch' = batch \ {e} /\ handler' = c
      /\ UNCHANGED <<server, connections, readCb, writeCb, backlog, toClient, db, faults>>
  BY DEF HandleReadable
<1>2. UNCHANGED <<peer, received, pending, due>>
  BY DEF HandleReadable, client, history
<1> DEFINE s == toServer[c]
<1>3. PICK n \in IF s = << >> THEN {0} ELSE 1..Len(s) :
        /\ conn' = [conn EXCEPT ![c].input = @ \o SubSeq(s, 1, n)]
        /\ toServer' = [toServer EXCEPT ![c] = Drop(s, n)]
  BY DEF HandleReadable
<1>4. s \in Seq(Unit) /\ conn[c] \in Connection /\ toServer \in [Clients -> Seq(Unit)]
  BY ClientTypes DEF ServerInv, StreamsOK
<1>5. n \in Nat /\ n <= Len(s)
  BY <1>4
<1> DEFINE a == SubSeq(s, 1, n)
           b == Drop(s, n)
<1>6. a \in Seq(Unit) /\ b \in Seq(Unit) /\ a \o b = s
  BY <1>4, <1>5, TakeDrop, DropType
<1> DEFINE old == conn[c].input
           in == old \o a
           k == [conn[c] EXCEPT !.input = in]
<1>7. old \in Seq(Unit)
  BY ClientTypes
<1>8. in \in Seq(Unit)
  <2> HIDE DEF old, a
  <2> QED  BY <1>6, <1>7
<1>9. conn' = [conn EXCEPT ![c] = k]
  BY <1>3, <1>4 DEF ServerInv, ConnOK
<1>10. conn[c] \in ConnectionRecord
  BY <1>4 DEF Connection, ConnectionRecord
<1>11. /\ k \in ConnectionRecord /\ k.input = in /\ k.fd = conn[c].fd
       /\ k.state = conn[c].state /\ k.output = conn[c].output
       /\ k.offset = conn[c].offset
  <2> HIDE DEF in
  <2> QED  BY <1>8, <1>10 DEF ConnectionRecord
<1>12. Served(c)
  BY <1>1, CallbackFacts
<1> HIDE DEF k
<1>13. k \in Connection
  <2>1. k.state # "CLOSED"
    BY <1>11, <1>12 DEF Served
  <2> QED  BY <1>4, <1>11, <2>1 DEF Connection, ConnectionRecord
<1>14. ConnOK' /\ conn'[c] = k /\ \A d \in Clients \ {c} : conn'[d] = conn[d]
  BY <1>9, <1>13, ConnUpdate
<1>15. LoopOK'
  <2>1. faults' \in 0..MaxFaults
    BY <1>1 DEF ServerInv, LoopOK
  <2> QED  BY <1>1, <1>11, <1>12, <1>14, <2>1, LoopKeeps
<1>16. StreamsOK' /\ toServer'[c] = b
  <2>1. toServer' \in [Clients -> Seq(Unit)] /\ toServer'[c] = b
    <3> HIDE DEF b
    <3> QED  BY <1>3, <1>4, <1>6 DEF b
  <2> QED  BY <1>1, <1>2, <2>1 DEF ServerInv, StreamsOK
<1>17. DbOK' /\ BacklogOK'
  BY <1>1, DbSame, BacklogSame DEF ServerInv
<1>18. \A d \in Clients : Waiting(d)' <=> Waiting(d)
  BY <1>1 DEF Waiting
<1>19. Served(c)' <=> Served(c)
  BY <1>11, <1>14 DEF Served
<1>20. ClientOK(c)'
  <2>1. FreshOK(c)'
    BY <1>2, <1>12, <1>18, ServedFacts DEF FreshOK
  <2>2. ASSUME c \in Honest PROVE RequestsOK(c)'
    <3>1. old \o s = Frames(pending[c])
      BY <1>12, <2>2 DEF ServerInv, ClientOK, RequestsOK
    <3>2. (old \o a) \o b = old \o (a \o b)
      <4>1. old \in Seq(Unit) /\ a \in Seq(Unit) /\ b \in Seq(Unit)
        BY <1>6, <1>7
      <4> HIDE DEF s, old, a, b
      <4> QED  BY <4>1, Associative
    <3>3. in \o b = Frames(pending[c])
      BY <1>6, <3>1, <3>2
    <3> QED  BY <1>2, <1>11, <1>14, <1>16, <3>3 DEF RequestsOK
  <2>3. ASSUME c \in Honest PROVE RepliesOK(c)'
    <3>1. Unsent(c)' = Unsent(c)
      BY <1>11, <1>14 DEF Unsent
    <3> QED  BY <1>1, <1>2, <1>19, <2>3, <3>1 DEF ServerInv, ClientOK, RepliesOK
  <2> QED  BY <2>1, <2>2, <2>3 DEF ClientOK
<1>21. ASSUME NEW d \in Clients \ {c} PROVE Untouched(d)
  BY <1>1, <1>2, <1>3, <1>4, <1>14, <1>18 DEF Untouched
<1> QED  BY <1>14, <1>15, <1>16, <1>17, <1>20, <1>21, ConnectionStep

\* A turn of process_messages: the first request leaves the input, its reply
\* enters the output.
LEMMA RespondHolds ==
    ASSUME ServerInv, NEW c \in Clients, handler = c, Served(c),
           NEW r \in TryExtractFrame(conn[c].input), r.found,
           NEW response \in Message, NEW registered \in BOOLEAN,
           Respond(c, r.rest, response, registered),
           DbOK', faults' \in 0..MaxFaults
    PROVE  ServerInv'
<1> DEFINE f == RawFrame(response)
<1>1. f \in Seq(Unit) /\ Len(f) > 0 /\ CreateFrame(response) = f /\ f # << >>
  BY FrameOfMessage
<1>2. QueueResponse(c, r.rest, response, registered)
  BY <1>1 DEF Respond
<1>3. /\ IF c \in Raw
         THEN UNCHANGED <<pending, due>>
         ELSE /\ pending' = [pending EXCEPT ![c] = Drop(pending[c], 1)]
              /\ due' = [due EXCEPT ![c] = Append(due[c], response)]
      /\ UNCHANGED <<server, batch, handler, backlog, toClient>>
      /\ UNCHANGED <<peer, received>>
  BY DEF Respond, history, client
<1> DEFINE out == conn[c].output
           off == conn[c].offset
           in  == conn[c].input
           k == [conn[c] EXCEPT !.input = r.rest, !.output = out \o f,
                                !.state = "WRITING"]
<1>4. /\ \E w \in {c, Nobody} : writeCb' = [writeCb EXCEPT ![conn[c].fd] = w]
      /\ UNCHANGED <<readCb, connections, toServer>>
      /\ conn' = [conn EXCEPT ![c].input = r.rest, ![c].output = @ \o f,
                              ![c].state = "WRITING"]
  BY <1>1, <1>2 DEF QueueResponse, AddWrite
<1>5. /\ conn[c] \in Connection /\ out \in Seq(Unit) /\ off \in Nat /\ off <= Len(out)
      /\ in \in Seq(Unit) /\ pending[c] \in Seq(Message) /\ due[c] \in Seq(Message)
      /\ toServer[c] \in Seq(Unit)
  BY ClientTypes
<1>6. r.rest \in Seq(Unit)
  BY <1>5, WordsAreNoHeaders, ExtractType DEF Unit
<1>7. conn' = [conn EXCEPT ![c] = k]
  <2>1. conn \in [Clients -> Connection]
    BY DEF ServerInv, ConnOK
  <2> HIDE DEF f
  <2> QED  BY <1>4, <2>1
<1>8. conn[c] \in ConnectionRecord
  BY <1>5 DEF Connection, ConnectionRecord
<1>9. out \o f \in Seq(Unit) /\ Len(out \o f) = Len(out) + Len(f)
  <2> HIDE DEF out, f
  <2> QED  BY <1>1, <1>5
<1>10. /\ k \in ConnectionRecord /\ k.input = r.rest /\ k.fd = conn[c].fd
       /\ k.state = "WRITING" /\ k.output = out \o f /\ k.offset = off
  <2> DEFINE new == out \o f
  <2>1. new \in Seq(Unit)
    BY <1>9
  <2> HIDE DEF new
  <2>2. k = [conn[c] EXCEPT !.input = r.rest, !.output = new, !.state = "WRITING"]
    BY DEF new
  <2> HIDE DEF k, out
  <2>3. /\ k \in ConnectionRecord /\ k.input = r.rest /\ k.fd = conn[c].fd
        /\ k.state = "WRITING" /\ k.output = new /\ k.offset = conn[c].offset
    BY <1>6, <1>8, <2>1, <2>2 DEF ConnectionRecord
  <2> QED  BY <2>3 DEF new
<1> HIDE DEF k
<1>11. k \in Connection
  <2>1. k.fd \in Fds
    BY <1>10, ServedFacts
  <2>2. k.offset < Len(k.output)
    <3> HIDE DEF out, off, f
    <3> QED  BY <1>1, <1>5, <1>9, <1>10
  <2>3. k.offset \in Nat /\ Len(k.output) \in Nat
    BY <1>10 DEF ConnectionRecord
  <2> QED  BY <1>10, <2>1, <2>2, <2>3, FdFacts DEF Connection, ConnectionRecord
<1>12. ConnOK' /\ conn'[c] = k /\ \A d \in Clients \ {c} : conn'[d] = conn[d]
  BY <1>7, <1>11, ConnUpdate
<1>13. LoopOK'
  <2>1. batch' \subseteq batch /\ handler' \in {c, Nobody}
    BY <1>3
  <2> QED  BY <1>3, <1>4, <1>10, <1>12, <2>1, LoopKeeps
<1>14. /\ pending \in [Clients -> Seq(Message)] /\ due \in [Clients -> Seq(Message)]
  BY DEF ServerInv, StreamsOK
<1>15. Drop(pending[c], 1) \in Seq(Message) /\ Append(due[c], response) \in Seq(Message)
  BY <1>5, DropOne
<1>16. StreamsOK'
  <2>1. pending' \in [Clients -> Seq(Message)] /\ due' \in [Clients -> Seq(Message)]
    BY <1>3, <1>14, <1>15
  <2> QED  BY <1>3, <1>4, <2>1 DEF ServerInv, StreamsOK
<1>17. BacklogOK'
  BY <1>3, BacklogSame DEF ServerInv
<1>18. \A d \in Clients : Waiting(d)' <=> Waiting(d)
  BY <1>3 DEF Waiting
<1>19. ClientOK(c)'
  <2>1. FreshOK(c)'
    BY <1>3, <1>18, ServedFacts DEF FreshOK
  <2>2. ASSUME c \in Honest
        PROVE  pending'[c] = Drop(pending[c], 1) /\ due'[c] = Append(due[c], response)
    BY <1>3, <1>14, <2>2 DEF Honest
  <2>3. ASSUME c \in Honest PROVE RequestsOK(c)'
    <3> DEFINE ms == pending[c]
               t == toServer[c]
    <3>1. in \o t = Frames(ms)
      BY <2>3 DEF ServerInv, ClientOK, RequestsOK
    <3>2. /\ ms \in Seq(Seq(Units(Words)))
          /\ \A i \in 1..Len(ms) : Len(ms[i]) <= MaxMessageSize
      BY <1>5, MessagesType
    <3>3. in \in Seq(Units(Words)) /\ t \in Seq(Units(Words))
      BY <1>5 DEF Unit
    <3>4. Extracts(r, in, t, ms)
      <4>1. r \in TryExtractFrame(in)
        OBVIOUS
      <4> HIDE DEF in, ms, t
      <4> QED  BY <3>1, <3>2, <3>3, <4>1, ExtractFirst
    <3>5. ms # << >> /\ r.rest \o t = Frames(Tail(ms))
      BY <3>4 DEF Extracts
    <3>6. Drop(ms, 1) = Tail(ms)
      BY <1>5, <3>5, DropOne
    <3> QED  BY <1>4, <1>10, <1>12, <2>2, <2>3, <3>5, <3>6 DEF RequestsOK
  <2>4. ASSUME c \in Honest PROVE RepliesOK(c)'
    <3> SUFFICES ASSUME peer[c] = "open"
                 PROVE  (received[c] \o toClient[c]) \o Unsent(c)' = Frames(due'[c])
      BY <1>3 DEF RepliesOK
    <3> DEFINE a == received[c] \o toClient[c]
               u == Unsent(c)
    <3>1. a \o u = Frames(due[c])
      BY <2>4 DEF ServerInv, ClientOK, RepliesOK
    <3>2. a \in Seq(Unit) /\ u \in Seq(Unit)
      <4>1. received[c] \in Seq(Unit) /\ toClient[c] \in Seq(Unit) /\ u \in Seq(Unit)
        BY ClientTypes
      <4> QED  BY <4>1
    <3>3. Unsent(c)' = u \o f
      <4>1. Unsent(c)' = Drop(out \o f, off)
        BY <1>10, <1>12 DEF Unsent
      <4>2. Drop(out \o f, off) = Drop(out, off) \o f
        <5> HIDE DEF out, off, f
        <5> QED  BY <1>1, <1>5, DropOfConcat
      <4> QED  BY <4>1, <4>2 DEF Unsent
    <3>4. a \o (u \o f) = (a \o u) \o f
      <4> HIDE DEF a, u, f
      <4> QED  BY <1>1, <3>2, Associative
    <3>5. Frames(Append(due[c], response)) = Frames(due[c]) \o f
      <4>1. due[c] \in Seq(Seq(Units(Words))) /\ response \in Seq(Units(Words))
        BY <1>5, MessagesType DEF Unit, Message
      <4> QED  BY <4>1, FramesAppend
    <3> QED  BY <2>2, <2>4, <3>1, <3>3, <3>4, <3>5
  <2> QED  BY <2>1, <2>3, <2>4 DEF ClientOK
<1>20. ASSUME NEW d \in Clients \ {c} PROVE Untouched(d)
  <2>1. pending'[d] = pending[d] /\ due'[d] = due[d]
    BY <1>3, <1>14
  <2> QED  BY <1>3, <1>4, <1>12, <1>18, <2>1 DEF Untouched
<1> QED  BY <1>12, <1>13, <1>16, <1>17, <1>19, <1>20, ConnectionStep

\* process_messages: every reply can be framed, so that the connection stays.
LEMMA ProcessMessageHolds ==
    ASSUME ServerInv, NEW c \in Clients, ProcessMessage(c)
    PROVE  ServerInv'
<1>1. handler = c /\ Served(c)
  BY DEF ProcessMessage, Served
<1>2. PICK r \in TryExtractFrame(conn[c].input) :
        /\ r.found
        /\ \/ /\ db' = Effect(ParseCommand(r.payload), db)
              /\ Respond(c, r.rest, Reply(ParseCommand(r.payload), db), TRUE)
              /\ UNCHANGED faults
           \/ /\ Fault("register")
              /\ db' = Effect(ParseCommand(r.payload), db)
              /\ Respond(c, r.rest, Reply(ParseCommand(r.payload), db), FALSE)
           \/ /\ Fault("database")
              /\ db' \in {db, Effect(ParseCommand(r.payload), db)}
              /\ Respond(c, r.rest, Error, TRUE)
  BY DEF ProcessMessage
<1>3. r.payload \in Message
  <2>1. conn[c].input \in Seq(Units(Words))
    BY ClientTypes DEF Unit
  <2> QED  BY <2>1, WordsAreNoHeaders, ExtractType DEF Message, Unit
<1>4. DbOK
  BY DEF ServerInv
<1> DEFINE answer == Reply(ParseCommand(r.payload), db)
           after == Effect(ParseCommand(r.payload), db)
<1>5. answer \in Message /\ Error \in Message /\ after \in [DOMAIN after -> Message]
  BY <1>3, <1>4, ExecuteType DEF DbOK
<1>6. TRUE \in BOOLEAN /\ FALSE \in BOOLEAN
  OBVIOUS
<1>7. PICK response \in Message, registered \in BOOLEAN :
        /\ Respond(c, r.rest, response, registered)
        /\ db' \in {db, after}
        /\ faults' = faults \/ (\E x : Fault(x))
  <2> HIDE DEF answer, after
  <2>1. CASE db' = after /\ Respond(c, r.rest, answer, TRUE) /\ UNCHANGED faults
    BY <1>5, <1>6, <2>1
  <2>2. CASE db' = after /\ Respond(c, r.rest, answer, FALSE) /\ Fault("register")
    BY <1>5, <1>6, <2>2
  <2>3. CASE db' \in {db, after} /\ Respond(c, r.rest, Error, TRUE) /\ Fault("database")
    BY <1>5, <1>6, <2>3
  <2> QED  BY <1>2, <2>1, <2>2, <2>3 DEF answer, after
<1>8. DbOK'
  BY <1>4, <1>5, <1>7 DEF DbOK
<1>9. faults' \in 0..MaxFaults
  BY <1>7, FaultType DEF ServerInv, LoopOK
<1> QED  BY <1>1, <1>2, <1>7, <1>8, <1>9, RespondHolds

\* process_messages ends: a buffer without a complete frame is left alone.
LEMMA ProcessDoneHolds ==
    ASSUME ServerInv, NEW c \in Clients, ProcessDone(c)
    PROVE  ServerInv'
<1>1. /\ Served(c) /\ handler' = Nobody
      /\ UNCHANGED <<server, connections, readCb, writeCb, batch, network, db, faults>>
  BY DEF ProcessDone, Served
<1>2. UNCHANGED <<backlog, toServer, toClient, peer, received, pending, due>>
  BY DEF ProcessDone, network, client, history
<1> DEFINE in == conn[c].input
<1>3. PICK r \in TryExtractFrame(in) :
        ~r.found /\ conn' = [conn EXCEPT ![c].input = r.rest]
  BY DEF ProcessDone
<1>4. conn[c] \in Connection /\ in \in Seq(Unit) /\ conn[c] \in ConnectionRecord
  BY ClientTypes DEF Connection, ConnectionRecord
<1>5. r.rest \in Seq(Unit)
  BY <1>4, WordsAreNoHeaders, ExtractType DEF Unit
<1> DEFINE k == [conn[c] EXCEPT !.input = r.rest]
<1>6. conn' = [conn EXCEPT ![c] = k]
  BY <1>3, <1>4 DEF ServerInv, ConnOK
<1>7. /\ k \in ConnectionRecord /\ k.input = r.rest /\ k.fd = conn[c].fd
      /\ k.state = conn[c].state /\ k.output = conn[c].output
      /\ k.offset = conn[c].offset
  BY <1>4, <1>5 DEF ConnectionRecord
<1> HIDE DEF k
<1>8. k \in Connection
  <2>1. k.state # "CLOSED"
    BY <1>1, <1>7 DEF Served
  <2> QED  BY <1>4, <1>7, <2>1 DEF Connection, ConnectionRecord
<1>9. ConnOK' /\ conn'[c] = k /\ \A d \in Clients \ {c} : conn'[d] = conn[d]
  BY <1>6, <1>8, ConnUpdate
<1>10. LoopOK'
  <2>1. faults' \in 0..MaxFaults /\ batch' \subseteq batch /\ handler' \in {c, Nobody}
    BY <1>1 DEF ServerInv, LoopOK
  <2> QED  BY <1>1, <1>7, <1>9, <2>1, LoopKeeps
<1>11. StreamsOK'
  BY <1>2 DEF ServerInv, StreamsOK
<1>12. DbOK' /\ BacklogOK'
  BY <1>1, <1>2, DbSame, BacklogSame DEF ServerInv
<1>13. \A d \in Clients : Waiting(d)' <=> Waiting(d)
  BY <1>2 DEF Waiting
<1>14. Served(c)' <=> Served(c)
  BY <1>7, <1>9 DEF Served
<1>15. ClientOK(c)'
  <2>1. FreshOK(c)'
    BY <1>1, <1>2, <1>13, ServedFacts DEF FreshOK
  <2>2. ASSUME c \in Honest PROVE RequestsOK(c)'
    <3> DEFINE ms == pending[c]
               t == toServer[c]
    <3>1. in \o t = Frames(ms)
      BY <1>1, <2>2 DEF ServerInv, ClientOK, RequestsOK
    <3>2. /\ ms \in Seq(Seq(Units(Words)))
          /\ \A i \in 1..Len(ms) : Len(ms[i]) <= MaxMessageSize
      BY ClientTypes, MessagesType
    <3>3. in \in Seq(Units(Words)) /\ t \in Seq(Units(Words))
      BY ClientTypes DEF Unit
    <3>4. Extracts(r, in, t, ms)
      <4> HIDE DEF in, ms, t
      <4> QED  BY <3>1, <3>2, <3>3, ExtractFirst
    <3>5. r.rest = in
      BY <1>3, <3>4 DEF Extracts
    <3> QED  BY <1>2, <1>7, <1>9, <3>1, <3>5 DEF RequestsOK
  <2>3. ASSUME c \in Honest PROVE RepliesOK(c)'
    <3>1. Unsent(c)' = Unsent(c)
      BY <1>7, <1>9 DEF Unsent
    <3> QED  BY <1>2, <1>14, <2>3, <3>1 DEF ServerInv, ClientOK, RepliesOK
  <2> QED  BY <2>1, <2>2, <2>3 DEF ClientOK
<1>16. ASSUME NEW d \in Clients \ {c} PROVE Untouched(d)
  BY <1>2, <1>9, <1>13 DEF Untouched
<1> QED  BY <1>9, <1>10, <1>11, <1>12, <1>15, <1>16, ConnectionStep

\* What handle_writable has in common however much it sends: part, the next
\* units of the output, moves to the socket of an open peer, or into the void.
LEMMA OutputMoves ==
    ASSUME ServerInv, NEW c \in Clients, Served(c), NEW k \in Connection,
           conn' = [conn EXCEPT ![c] = k],
           k.fd = conn[c].fd, k.input = conn[c].input,
           NEW part \in Seq(Unit),
           part \o Drop(k.output, k.offset) = Unsent(c),
           Drop(k.output, k.offset) \in Seq(Unit),
           \/ /\ toClient' = [toClient EXCEPT ![c] = toClient[c] \o part]
              /\ Len(toClient[c] \o part) <= SendBuffer
           \/ peer[c] = "closed" /\ toClient' = toClient,
           \/ writeCb' = writeCb
           \/ \E w \in {c, Nobody} : writeCb' = [writeCb EXCEPT ![conn[c].fd] = w],
           batch' \subseteq batch, handler' \in {c, Nobody},
           UNCHANGED <<server, connections, readCb, backlog, toServer, client, db,
                       history, faults>>
    PROVE  ServerInv'
<1>1. UNCHANGED <<peer, received, pending, due>>
  BY DEF client, history
<1>2. ConnOK' /\ conn'[c] = k /\ \A d \in Clients \ {c} : conn'[d] = conn[d]
  BY ConnUpdate
<1>3. LoopOK'
  <2>1. faults' \in 0..MaxFaults
    BY DEF ServerInv, LoopOK
  <2>2. conn'[c].fd = conn[c].fd
    BY <1>2
  <2> QED  BY <1>2, <2>1, <2>2, LoopKeeps
<1>4. toClient \in [Clients -> {s \in Seq(Unit) : Len(s) <= SendBuffer}]
  BY DEF ServerInv, StreamsOK
<1>5. toClient[c] \o part \in Seq(Unit)
  <2>1. toClient[c] \in Seq(Unit)
    BY ClientTypes
  <2> QED  BY <2>1
<1>6. toClient' \in [Clients -> {s \in Seq(Unit) : Len(s) <= SendBuffer}]
  <2> DEFINE new == toClient[c] \o part
  <2>1. CASE toClient' = [toClient EXCEPT ![c] = new] /\ Len(new) <= SendBuffer
    <3>1. new \in {s \in Seq(Unit) : Len(s) <= SendBuffer}
      BY <1>5, <2>1
    <3> HIDE DEF new
    <3> QED  BY <1>4, <2>1, <3>1
  <2>2. CASE toClient' = toClient
    BY <1>4, <2>2
  <2> QED  BY <2>1, <2>2
<1>7. StreamsOK'
  BY <1>1, <1>6 DEF ServerInv, StreamsOK
<1>8. DbOK' /\ BacklogOK'
  BY DbSame, BacklogSame DEF ServerInv
<1>9. \A d \in Clients : Waiting(d)' <=> Waiting(d)
  BY DEF Waiting
<1>10. ClientOK(c)'
  <2>1. FreshOK(c)'
    BY <1>1, <1>9, ServedFacts DEF FreshOK
  <2>2. ASSUME c \in Honest PROVE RequestsOK(c)'
    <3>1. conn[c].input \o toServer[c] = Frames(pending[c])
      BY <2>2 DEF ServerInv, ClientOK, RequestsOK
    <3> QED  BY <1>1, <1>2, <3>1 DEF RequestsOK
  <2>3. ASSUME c \in Honest PROVE RepliesOK(c)'
    <3> SUFFICES ASSUME peer[c] = "open"
                 PROVE  (received[c] \o toClient'[c]) \o Unsent(c)' = Frames(due[c])
      BY <1>1 DEF RepliesOK
    <3> DEFINE a == received[c]
               s == toClient[c]
               u == Drop(k.output, k.offset)
    <3>1. (a \o s) \o Unsent(c) = Frames(due[c])
      BY <2>3 DEF ServerInv, ClientOK, RepliesOK
    <3>2. toClient'[c] = s \o part
      BY <1>4
    <3>3. Unsent(c)' = u
      BY <1>2 DEF Unsent
    <3>4. a \in Seq(Unit) /\ s \in Seq(Unit) /\ u \in Seq(Unit) /\ part \in Seq(Unit)
      BY ClientTypes
    <3>5. Regroups(a, s, part, u)
      <4> HIDE DEF a, s, u
      <4> QED  BY <3>4, AssociativeFour
    <3> QED  BY <3>1, <3>2, <3>3, <3>5 DEF Regroups
  <2> QED  BY <2>1, <2>2, <2>3 DEF ClientOK
<1>11. ASSUME NEW d \in Clients \ {c} PROVE Untouched(d)
  <2>1. toClient'[d] = toClient[d]
    BY <1>4
  <2> QED  BY <1>1, <1>2, <1>9, <2>1 DEF Untouched
<1> QED  BY <1>2, <1>3, <1>7, <1>8, <1>10, <1>11, ConnectionStep

\* The connection after the last of its output is sent.
LEMMA WrittenType ==
    ASSUME ServerInv, NEW c \in Clients, Served(c), Written(c)
    PROVE  \E k \in Connection :
            /\ conn' = [conn EXCEPT ![c] = k]
            /\ k.fd = conn[c].fd /\ k.input = conn[c].input
            /\ k.state = "READING" /\ k.output = << >> /\ k.offset = 0
            /\ Unsent(c) \o Drop(k.output, k.offset) = Unsent(c)
            /\ Drop(k.output, k.offset) \in Seq(Unit)
<1> DEFINE k == [conn[c] EXCEPT !.output = << >>, !.state = "READING", !.offset = 0]
<1>1. conn[c] \in Connection /\ conn[c] \in ConnectionRecord
  BY ClientTypes DEF Connection, ConnectionRecord
<1>2. conn' = [conn EXCEPT ![c] = k]
  BY <1>1 DEF Written, ServerInv, ConnOK
<1>3. /\ k \in ConnectionRecord /\ k.fd = conn[c].fd /\ k.input = conn[c].input
      /\ k.state = "READING" /\ k.output = << >> /\ k.offset = 0
  <2>1. << >> \in Seq(Unit)
    OBVIOUS
  <2> QED  BY <1>1, <2>1 DEF ConnectionRecord
<1> HIDE DEF k
<1>4. k \in Connection
  <2>1. k.fd \in Fds /\ Len(<< >>) = 0
    BY <1>3, ServedFacts
  <2> QED  BY <1>3, <2>1, FdFacts DEF Connection, ConnectionRecord
<1>5. Drop(k.output, k.offset) = << >>
  BY <1>3 DEF Drop
<1>6. Unsent(c) \o << >> = Unsent(c)
  <2> DEFINE u == Unsent(c)
  <2>1. u \in Seq(Unit)
    BY ClientTypes
  <2> HIDE DEF u
  <2>2. u \o << >> = u
    BY <2>1
  <2> QED  BY <2>2 DEF u
<1>7. Drop(k.output, k.offset) \in Seq(Unit)
  BY <1>5
<1> QED  BY <1>2, <1>3, <1>4, <1>5, <1>6, <1>7, Zenon

\* handle_writable when the socket takes only a part.
LEMMA SendSomeHolds ==
    ASSUME ServerInv, NEW e \in batch, NEW c \in Clients, HandleWritable(e, c),
           SendSome(c)
    PROVE  ServerInv'
<1>1. /\ Callback(e) = c /\ peer[c] = "open" /\ handler = Nobody
      /\ batch' = batch \ {e}
      /\ UNCHANGED <<server, connections, readCb, backlog, toServer, client, db,
                     history, faults>>
  BY DEF HandleWritable, InLoop
<1>2. Served(c)
  BY <1>1, CallbackFacts
<1> DEFINE out == conn[c].output
           off == conn[c].offset
           sent == off + SendBuffer - Len(toClient[c])
           k == [conn[c] EXCEPT !.offset = sent]
           part == SubSeq(out, off + 1, sent)
<1>3. /\ sent < Len(out) /\ conn' = [conn EXCEPT ![c].offset = sent]
      /\ toClient' = [toClient EXCEPT ![c] = toClient[c] \o part]
      /\ UNCHANGED <<writeCb, handler>>
  BY DEF SendSome
<1>4. /\ conn[c] \in Connection /\ conn[c] \in ConnectionRecord
      /\ out \in Seq(Unit) /\ off \in Nat /\ toClient[c] \in Seq(Unit)
  BY ClientTypes DEF Connection, ConnectionRecord
<1>5. /\ Len(toClient[c]) <= SendBuffer /\ Len(toClient[c]) \in Nat
      /\ SendBuffer \in Nat /\ Len(out) \in Nat
  BY <1>4, ServerAssumption DEF ServerInv, StreamsOK
<1>6. sent \in Nat /\ off <= sent /\ sent <= Len(out)
      /\ sent - off = SendBuffer - Len(toClient[c])
  BY <1>3, <1>4, <1>5
<1>7. conn' = [conn EXCEPT ![c] = k]
  <2> HIDE DEF sent
  <2> QED  BY <1>3, <1>4 DEF ServerInv, ConnOK
<1>8. /\ k \in ConnectionRecord /\ k.fd = conn[c].fd /\ k.input = conn[c].input
      /\ k.state = conn[c].state /\ k.output = out /\ k.offset = sent
  <2> HIDE DEF sent
  <2> QED  BY <1>4, <1>6 DEF ConnectionRecord
<1>9. conn[c].state = "WRITING"
  <2>1. off < Len(out)
    <3> HIDE DEF out, off, sent
    <3> QED  BY <1>3, <1>4, <1>5, <1>6
  <2> QED  BY <1>4, <2>1 DEF Connection
<1> HIDE DEF k
<1>10. k \in Connection
  <2>1. k.fd \in Fds
    BY <1>2, <1>8, ServedFacts
  <2>2. k.offset < Len(k.output) /\ k.offset <= Len(k.output)
    BY <1>3, <1>6, <1>8
  <2> QED  BY <1>8, <1>9, <2>1, <2>2, FdFacts DEF Connection, ConnectionRecord
<1>11. part \in Seq(Unit) /\ Len(part) = sent - off /\ part \o Drop(out, sent) = Drop(out, off)
  <2> HIDE DEF sent, out, off
  <2> QED  BY <1>4, <1>6, DropInTwo
<1>12. Drop(out, sent) \in Seq(Unit)
  <2> HIDE DEF sent, out, off
  <2> QED  BY <1>4, <1>6, DropType
<1>13. Len(toClient[c] \o part) <= SendBuffer
  <2> DEFINE s == toClient[c]
  <2>1. s \in Seq(Unit) /\ part \in Seq(Unit) /\ Len(part) = SendBuffer - Len(s)
    BY <1>4, <1>6, <1>11
  <2> HIDE DEF s, part
  <2>2. Len(s \o part) = Len(s) + Len(part)
    BY <2>1
  <2>3. Len(s) \in Nat /\ SendBuffer \in Nat
    BY <1>5 DEF s
  <2>4. Len(s) + Len(part) = SendBuffer
    BY <2>1, <2>3
  <2> QED  BY <2>2, <2>3, <2>4 DEF s
<1>14. part \o Drop(k.output, k.offset) = Unsent(c) /\ Drop(k.output, k.offset) \in Seq(Unit)
  BY <1>8, <1>11, <1>12 DEF Unsent
<1>15. batch' \subseteq batch /\ handler' \in {c, Nobody}
  BY <1>1, <1>3
<1> HIDE DEF part
<1> QED  BY <1>1, <1>2, <1>3, <1>7, <1>8, <1>10, <1>11, <1>13, <1>14, <1>15, OutputMoves

\* handle_writable when the socket takes everything.
LEMMA SendAllHolds ==
    ASSUME ServerInv, NEW e \in batch, NEW c \in Clients, HandleWritable(e, c),
           SendAll(c)
    PROVE  ServerInv'
<1>1. /\ Callback(e) = c /\ peer[c] = "open"
      /\ batch' = batch \ {e}
      /\ UNCHANGED <<server, connections, readCb, backlog, toServer, client, db,
                     history, faults>>
  BY DEF HandleWritable
<1>2. Served(c)
  BY <1>1, CallbackFacts
<1> DEFINE part == Unsent(c)
<1>3. /\ Len(conn[c].output) - conn[c].offset <= SendBuffer - Len(toClient[c])
      /\ toClient' = [toClient EXCEPT ![c] = toClient[c] \o part]
      /\ Written(c)
  BY DEF SendAll, Unsent
<1>4. PICK k \in Connection :
            /\ conn' = [conn EXCEPT ![c] = k]
            /\ k.fd = conn[c].fd /\ k.input = conn[c].input
            /\ k.state = "READING" /\ k.output = << >> /\ k.offset = 0
            /\ part \o Drop(k.output, k.offset) = Unsent(c)
            /\ Drop(k.output, k.offset) \in Seq(Unit)
  BY <1>2, <1>3, WrittenType
<1>5. Len(toClient[c] \o part) <= SendBuffer /\ part \in Seq(Unit)
  <2> DEFINE s == toClient[c]
             n == Len(conn[c].output) - conn[c].offset
  <2>1. s \in Seq(Unit) /\ part \in Seq(Unit) /\ SendBuffer \in Nat
    BY ClientTypes, ServerAssumption
  <2>2. Len(part) = n
    BY ClientTypes, DropType DEF Unsent
  <2>3. n <= SendBuffer - Len(s)
    BY <1>3
  <2> HIDE DEF s, n, part
  <2>4. Len(s \o part) = Len(s) + Len(part) /\ Len(s) \in Nat /\ Len(part) \in Nat
    BY <2>1
  <2>5. Len(s) + Len(part) <= SendBuffer
    BY <2>1, <2>2, <2>3, <2>4
  <2> QED  BY <2>1, <2>4, <2>5 DEF s
<1>6. batch' \subseteq batch /\ handler' \in {c, Nobody}
  BY <1>1, <1>3 DEF Written
<1>7. writeCb' = [writeCb EXCEPT ![conn[c].fd] = Nobody]
  BY <1>3 DEF Written, RemoveWrite
<1> HIDE DEF part
<1> QED  BY <1>1, <1>2, <1>3, <1>4, <1>5, <1>6, <1>7, OutputMoves

\* handle_writable, as long as the peer is there.
LEMMA HandleWritableHolds ==
    ASSUME ServerInv, NEW e \in batch, NEW c \in Clients, HandleWritable(e, c)
    PROVE  ServerInv'
<1>1. SendSome(c) \/ SendAll(c)
  BY DEF HandleWritable
<1> QED  BY <1>1, SendSomeHolds, SendAllHolds

\* handle_writable after the peer is gone.
LEMMA HandleWritableClosedHolds ==
    ASSUME ServerInv, NEW e \in batch, NEW c \in Clients, HandleWritableClosed(e, c)
    PROVE  ServerInv'
<1>1. /\ Callback(e) = c /\ peer[c] = "closed" /\ handler = Nobody
      /\ batch' = batch \ {e}
      /\ UNCHANGED <<server, backlog, toClient, client, db, history, faults>>
  BY DEF HandleWritableClosed, InLoop
<1>2. Served(c) /\ batch' \subseteq batch
  BY <1>1, CallbackFacts
<1>3. CASE Close(c) /\ UNCHANGED handler
  BY <1>1, <1>2, <1>3, NothingSent, CloseHolds
<1>4. CASE Written(c) /\ UNCHANGED <<connections, readCb, toServer>>
  <2> DEFINE part == Unsent(c)
  <2>1. PICK k \in Connection :
            /\ conn' = [conn EXCEPT ![c] = k]
            /\ k.fd = conn[c].fd /\ k.input = conn[c].input
            /\ k.state = "READING" /\ k.output = << >> /\ k.offset = 0
            /\ part \o Drop(k.output, k.offset) = Unsent(c)
            /\ Drop(k.output, k.offset) \in Seq(Unit)
    BY <1>2, <1>4, WrittenType
  <2>2. part \in Seq(Unit)
    BY ClientTypes
  <2>3. /\ handler' \in {c, Nobody}
        /\ writeCb' = [writeCb EXCEPT ![conn[c].fd] = Nobody]
    BY <1>4 DEF Written, RemoveWrite
  <2> HIDE DEF part
  <2> QED  BY <1>1, <1>2, <1>4, <2>1, <2>2, <2>3, OutputMoves
<1>5. \/ Close(c) /\ UNCHANGED handler
      \/ Written(c) /\ UNCHANGED <<connections, readCb, toServer>>
  BY DEF HandleWritableClosed
<1> QED  BY <1>3, <1>4, <1>5

\* recv or send fails.
LEMMA SocketErrorHolds ==
    ASSUME ServerInv, NEW e \in batch, NEW c \in Clients, SocketError(e, c)
    PROVE  ServerInv'
<1> DEFINE unsent == Drop(conn[c].output, conn[c].offset)
<1>1. /\ handler = Nobody /\ Callback(e) = c /\ batch' = batch \ {e} /\ Close(c)
      /\ Fault("socket")
      /\ \/ UNCHANGED toClient
         \/ \E n \in 0 .. SendBuffer - Len(toClient[c]) :
                /\ n < Len(unsent)
                /\ toClient' = [toClient EXCEPT ![c] = @ \o SubSeq(unsent, 1, n)]
      /\ UNCHANGED <<server, handler, backlog, client, db, history>>
  BY DEF SocketError, InLoop
<1>2. Served(c) /\ batch' \subseteq batch /\ faults' \in 0..MaxFaults
  BY <1>1, CallbackFacts, FaultType
<1>3. /\ toClient \in [Clients -> Seq(Unit)] /\ Len(toClient[c]) <= SendBuffer
      /\ SendBuffer \in Nat /\ unsent \in Seq(Unit)
  BY ClientTypes, ServerAssumption DEF ServerInv, StreamsOK, Unsent
<1>4. /\ toClient' \in [Clients -> Seq(Unit)] /\ Len(toClient'[c]) <= SendBuffer
      /\ \A d \in Clients \ {c} : toClient'[d] = toClient[d]
  <2> HIDE DEF unsent
  <2>1. CASE UNCHANGED toClient
    BY <1>3, <2>1
  <2>2. ASSUME NEW n \in 0 .. SendBuffer - Len(toClient[c]), n < Len(unsent),
               toClient' = [toClient EXCEPT ![c] = @ \o SubSeq(unsent, 1, n)]
        PROVE  /\ toClient' \in [Clients -> Seq(Unit)]
               /\ Len(toClient'[c]) <= SendBuffer
               /\ \A d \in Clients \ {c} : toClient'[d] = toClient[d]
    <3>1. SubSeq(unsent, 1, n) \in Seq(Unit) /\ Len(SubSeq(unsent, 1, n)) = n
      BY <1>3, <2>2
    <3> DEFINE more == toClient[c] \o SubSeq(unsent, 1, n)
    <3>2. more \in Seq(Unit) /\ Len(more) = Len(toClient[c]) + n
      BY <1>3, <3>1, ConcatProperties
    <3>3. toClient' = [toClient EXCEPT ![c] = more]
      BY <2>2
    <3>4. Len(more) <= SendBuffer
      BY <1>3, <2>2, <3>2
    <3> HIDE DEF more
    <3> QED  BY <1>3, <3>2, <3>3, <3>4
  <2> QED  BY <1>1, <2>1, <2>2
<1> QED  BY <1>1, <1>2, <1>4, CloseHolds

-----------------------------------------------------------------------------
(***************************************************************************)
(* The theorems.                                                           *)
(***************************************************************************)

\* A step of a client keeps the invariant.
LEMMA ClientHolds ==
    ASSUME ServerInv, NEW c \in Clients, Client(c)
    PROVE  ServerInv'
<1>1. CASE Connect(c)
  BY <1>1, ConnectHolds
<1>2. CASE \E line \in Lines[c] : Send(c, line)
  BY <1>2, SendHolds
<1>3. CASE ReceiveBytes(c)
  BY <1>3, ReceiveBytesHolds
<1>4. CASE TakeReply(c)
  BY <1>4, TakeReplyHolds
<1>5. CASE ClientClose(c)
  BY <1>5, ClientCloseHolds
<1> QED  BY <1>1, <1>2, <1>3, <1>4, <1>5 DEF Client

\* Dispatching one event keeps the invariant.
LEMMA DispatchHolds ==
    ASSUME ServerInv, Dispatch
    PROVE  ServerInv'
<1> PICK e \in batch :
        \/ EventError(e)
        \/ IgnoreEvent(e)
        \/ HandleAccept(e)
        \/ \E c \in Clients :
            \/ HandleReadable(e, c)
            \/ HandleEndOfStream(e, c)
            \/ HandleWritable(e, c)
            \/ HandleWritableClosed(e, c)
            \/ BrokenPipe(e, c)
            \/ SocketError(e, c)
  BY DEF Dispatch
<1>1. CASE EventError(e)
  BY <1>1, EventErrorHolds
<1>2. CASE IgnoreEvent(e)
  BY <1>2, IgnoreEventHolds
<1>3. CASE HandleAccept(e)
  BY <1>3, HandleAcceptHolds
<1>4. CASE \E c \in Clients : HandleReadable(e, c)
  BY <1>4, HandleReadableHolds
<1>5. CASE \E c \in Clients : HandleEndOfStream(e, c)
  BY <1>5, HandleEndOfStreamHolds
<1>6. CASE \E c \in Clients : HandleWritable(e, c)
  BY <1>6, HandleWritableHolds
<1>7. CASE \E c \in Clients : HandleWritableClosed(e, c)
  BY <1>7, HandleWritableClosedHolds
<1>8. CASE \E c \in Clients : BrokenPipe(e, c)
  BY <1>8, BrokenPipeHolds
<1>9. CASE \E c \in Clients : SocketError(e, c)
  BY <1>9, SocketErrorHolds
<1> QED  BY <1>1, <1>2, <1>3, <1>4, <1>5, <1>6, <1>7, <1>8, <1>9

\* Every step keeps the invariant.
LEMMA NextHolds ==
    ASSUME ServerInv, [Next]_vars
    PROVE  ServerInv'
<1>1. CASE Initialize
  BY <1>1, InitializeHolds
<1>2. CASE InitializeFails
  BY <1>2, InitializeFailsHolds
<1>3. CASE WaitEvents
  BY <1>3, WaitEventsHolds
<1>4. CASE LoopFails
  BY <1>4, LoopFailsHolds
<1>5. CASE Dispatch
  BY <1>5, DispatchHolds
<1>6. CASE Accept
  BY <1>6, AcceptClientHolds, AcceptRefusesHolds, AcceptDoneHolds DEF Accept
<1>7. CASE Process
  BY <1>7, ProcessMessageHolds, ProcessDoneHolds DEF Process
<1>8. CASE \E c \in Clients : Client(c)
  BY <1>8, ClientHolds
<1>9. CASE UNCHANGED vars
  <2>1. /\ UNCHANGED <<server, connections, readCb, writeCb, batch, handler, conn>>
        /\ UNCHANGED <<backlog, toServer, toClient, peer, received, db, pending,
                       due, faults>>
    BY <1>9 DEF vars, loop, network, client, history
  <2>2. ConnOK' /\ LoopOK'
    BY <2>1 DEF ServerInv, ConnOK, LoopOK, CallbacksAreLive, HandlerIsLive, Served
  <2>3. StreamsOK' /\ DbOK' /\ BacklogOK'
    BY <2>1, DbSame, BacklogSame DEF ServerInv, StreamsOK
  <2>4. \A d \in Clients : Untouched(d)
    BY <2>1 DEF Untouched, Waiting
  <2>5. \A d \in Clients : ClientOK(d)'
    BY <2>4, ClientSame DEF ServerInv
  <2> QED  BY <2>2, <2>3, <2>5 DEF ServerInv
<1> QED
  BY <1>1, <1>2, <1>3, <1>4, <1>5, <1>6, <1>7, <1>8, <1>9 DEF Next, ServerStep

\* ServerInv holds in every reachable state: the states of the connections,
\* the callbacks of the event loop, the data and the streams of every client
\* fit together (server.cpp, connection.cpp, event_loop.cpp).
THEOREM ServerInvariant == Spec => []ServerInv
<1>1. Init => ServerInv
  BY InitHolds
<1>2. ServerInv /\ [Next]_vars => ServerInv'
  BY NextHolds
<1> QED  BY <1>1, <1>2, PTL DEF Spec

\* Every variable keeps its type: a connection is CLOSED exactly when it has
\* no descriptor, and never sends from beyond the end of its output buffer
\* (connection.cpp:16-75, 212-270).
THEOREM ServerTypeCorrect == Spec => []TypeOK
<1>1. ASSUME ServerInv PROVE TypeOK
  <2>1. ASSUME NEW c \in Clients
        PROVE  /\ conn[c].fd \in Fds \cup {NoFd}
               /\ conn[c].state \in {"READING", "WRITING", "CLOSED"}
               /\ conn[c].state = "CLOSED" <=> conn[c].fd = NoFd
               /\ conn[c].offset \in 0..Len(conn[c].output)
               /\ Len(toClient[c]) <= SendBuffer
    <3>1. conn[c] \in Connection
      BY <1>1, ClientTypes
    <3>2. conn[c].offset \in 0..Len(conn[c].output)
      BY <1>1, ClientTypes
    <3>3. Len(toClient[c]) <= SendBuffer
      BY <1>1 DEF ServerInv, StreamsOK
    <3> QED  BY <3>1, <3>2, <3>3 DEF Connection
  <2>2. batch \subseteq (Fds \cup {ServerFd}) \X {"read", "write"}
    BY <1>1 DEF ServerInv, LoopOK, Event
  <2> QED  BY <1>1, <2>1, <2>2 DEF TypeOK, ServerInv, LoopOK, StreamsOK
<1> QED  BY <1>1, ServerInvariant, PTL

\* A callback in the event loop always belongs to the connection that owns
\* its descriptor now, however descriptors are closed and given out again
\* while events for them wait (connection.cpp:56-75, event_loop.cpp:187-226,
\* server.cpp:264-322).
THEOREM CallbacksTheorem == Spec => []CallbacksAreLive
<1>1. ServerInv => CallbacksAreLive
  BY DEF ServerInv, LoopOK
<1> QED  BY <1>1, ServerInvariant, PTL

\* process_messages never goes on in a Connection that was destroyed: every
\* reply fits into a frame, whatever a client sends (connection.cpp:131,
\* 178-186).
THEOREM HandlerTheorem == Spec => []HandlerIsLive
<1>1. ServerInv => HandlerIsLive
  BY DEF ServerInv, LoopOK
<1> QED  BY <1>1, ServerInvariant, PTL

\* However the stream is cut into pieces, the input buffer and what is on its
\* way to it are the frames of the requests not executed yet
\* (connection.cpp:77-166, protocol.cpp:32-77).
THEOREM RequestsTheorem == Spec => []RequestsArriveInOrder
<1>1. ServerInv => RequestsArriveInOrder
  BY DEF ServerInv, ClientOK, RequestsOK, RequestsArriveInOrder, Honest
<1> QED  BY <1>1, ServerInvariant, PTL

\* Whatever part of its output each send takes, a client gets the replies to
\* its requests, whole and in order (connection.cpp:168-195, 212-284).
THEOREM RepliesTheorem == Spec => []RepliesComeInOrder
<1>1. ServerInv => RepliesComeInOrder
  BY DEF ServerInv, ClientOK, RepliesOK, Unsent, RepliesComeInOrder, Honest
<1> QED  BY <1>1, ServerInvariant, PTL

-----------------------------------------------------------------------------
(***************************************************************************)
(* WritesAreArmed, where kevent refuses no registration and reports no     *)
(* error.  It is inductive relative to ServerInv.                          *)
(***************************************************************************)

Armed(c) ==
    Served(c) => (conn[c].state = "WRITING" <=> writeCb[conn[c].fd] = c)

ArmedInv == \A c \in Clients : Armed(c)

\* Two connections have two descriptors.
LEMMA FdsDiffer ==
    ASSUME ServerInv, NEW c \in Clients, NEW d \in Clients, c # d, Served(c), Served(d)
    PROVE  conn[c].fd \in Fds /\ conn[d].fd \in Fds /\ conn[c].fd # conn[d].fd
BY ServedFacts

\* A step on one connection leaves the others armed as they were.
LEMMA OthersArmed ==
    ASSUME ServerInv, ArmedInv, NEW c \in Clients, Served(c),
           \A d \in Clients \ {c} : conn'[d] = conn[d],
           \A f \in Fds \ {conn[c].fd} : writeCb'[f] = writeCb[f], Armed(c)'
    PROVE  ArmedInv'
<1> SUFFICES ASSUME NEW d \in Clients \ {c}, Served(d)
             PROVE  conn'[d].state = "WRITING" <=> writeCb'[conn'[d].fd] = d
  BY DEF ArmedInv, Armed, Served
<1>1. conn[d].fd \in Fds /\ conn[c].fd # conn[d].fd
  BY FdsDiffer
<1>2. writeCb'[conn[d].fd] = writeCb[conn[d].fd] /\ conn'[d] = conn[d]
  BY <1>1
<1> QED  BY <1>2 DEF ArmedInv, Armed

\* close().
LEMMA CloseArmed ==
    ASSUME ServerInv, ArmedInv, NEW c \in Clients, Served(c), Close(c)
    PROVE  ArmedInv'
<1>1. /\ conn' = [conn EXCEPT ![c] = NoConnection]
      /\ writeCb' = [f \in Fds |-> IF f = conn[c].fd THEN Nobody ELSE writeCb[f]]
  BY DEF Close, Remove, RemoveConnection
<1>2. conn \in [Clients -> Connection]
  BY DEF ServerInv, ConnOK
<1>3. Armed(c)'
  BY <1>1, <1>2 DEF Armed, Served, NoConnection
<1> QED  BY <1>1, <1>2, <1>3, OthersArmed

\* The end of handle_writable.
LEMMA WrittenArmed ==
    ASSUME ServerInv, ArmedInv, NEW c \in Clients, Served(c), Written(c)
    PROVE  ArmedInv'
<1>1. PICK k \in Connection :
        conn' = [conn EXCEPT ![c] = k] /\ k.fd = conn[c].fd /\ k.state = "READING"
  BY WrittenType
<1>2. /\ conn \in [Clients -> Connection] /\ writeCb \in [Fds -> Clients \cup {Nobody}]
      /\ writeCb' = [writeCb EXCEPT ![conn[c].fd] = Nobody]
  BY DEF ServerInv, ConnOK, LoopOK, Written, RemoveWrite
<1>3. conn'[c].fd = conn[c].fd /\ conn'[c].state = "READING" /\ conn[c].fd \in Fds
  BY <1>1, <1>2, ServedFacts
<1>4. writeCb'[conn[c].fd] # c
  BY <1>2, <1>3, FdFacts
<1>5. Armed(c)'
  BY <1>3, <1>4 DEF Armed
<1>6. \A d \in Clients \ {c} : conn'[d] = conn[d]
  BY <1>1, <1>2
<1> QED  BY <1>2, <1>3, <1>5, <1>6, OthersArmed

\* A turn of process_messages.
LEMMA RespondArmed ==
    ASSUME ServerInv, ArmedInv, NEW c \in Clients, Served(c), NEW rest,
           NEW response, Respond(c, rest, response, TRUE)
    PROVE  ArmedInv'
<1>1. CASE Close(c)
  BY <1>1, CloseArmed
<1>2. CASE QueueResponse(c, rest, response, TRUE)
  <2>1. conn \in [Clients -> Connection] /\ writeCb \in [Fds -> Clients \cup {Nobody}]
    BY DEF ServerInv, ConnOK, LoopOK
  <2>2. conn[c] \in ConnectionRecord /\ conn[c].fd \in Fds
    BY <2>1, ServedFacts DEF Connection, ConnectionRecord
  <2> DEFINE out == conn[c].output \o CreateFrame(response)
  <2>3. /\ conn' = [conn EXCEPT ![c].input = rest, ![c].output = out,
                                ![c].state = "WRITING"]
        /\ writeCb' = [writeCb EXCEPT ![conn[c].fd] = c]
    BY <1>2, <2>1 DEF QueueResponse, AddWrite
  <2> HIDE DEF out
  <2>4. conn'[c].fd = conn[c].fd /\ conn'[c].state = "WRITING"
    BY <2>1, <2>2, <2>3 DEF ConnectionRecord
  <2>5. writeCb'[conn[c].fd] = c
    BY <2>1, <2>2, <2>3
  <2>6. Armed(c)'
    BY <2>4, <2>5 DEF Armed
  <2>7. \A d \in Clients \ {c} : conn'[d] = conn[d]
    BY <2>1, <2>3
  <2> QED  BY <2>1, <2>2, <2>3, <2>6, <2>7, OthersArmed
<1> QED  BY <1>1, <1>2 DEF Respond

\* A step that changes no descriptor, no state and no callback for writing.
LEMMA ArmedSame ==
    ASSUME ArmedInv, writeCb' = writeCb,
           \A c \in Clients : conn'[c].fd = conn[c].fd /\ conn'[c].state = conn[c].state
    PROVE  ArmedInv'
BY DEF ArmedInv, Armed, Served

\* handle_accept gives a descriptor to a client that no callback knows yet.
LEMMA AcceptArmed ==
    ASSUME ServerInv, ArmedInv, AcceptClient
    PROVE  ArmedInv'
<1>1. FreeFds # {} /\ Head(backlog) \in Clients
  BY DEF ServerInv, StreamsOK, AcceptClient
<1> PICK c \in Clients : c = Head(backlog)
  BY <1>1
<1> PICK fd \in Fds : fd = NewFd /\ \A d \in Clients : conn[d].fd # fd
  BY <1>1, NewFdFacts
<1>2. /\ conn' = [conn EXCEPT ![c] = NewConnection(fd)] /\ writeCb' = writeCb
      /\ conn \in [Clients -> Connection]
  BY DEF AcceptClient, ServerInv, ConnOK
<1>3. conn'[c].fd = fd /\ conn'[c].state = "READING"
  BY <1>2, NewConnectionType
<1>4. writeCb[fd] # c
  BY FdFacts DEF ServerInv, LoopOK, CallbacksAreLive
<1>5. Armed(c)'
  BY <1>2, <1>3, <1>4 DEF Armed
<1>6. \A d \in Clients \ {c} : conn'[d] = conn[d]
  BY <1>2
<1> QED  BY <1>2, <1>5, <1>6 DEF ArmedInv, Armed, Served

\* Every step keeps the connections armed.
LEMMA NextArmed ==
    ASSUME "register" \notin Faults, "event" \notin Faults,
           ServerInv, ArmedInv, [Next]_vars
    PROVE  ArmedInv'
<1>1. conn \in [Clients -> Connection] /\ handler \in Clients => Served(handler)
  BY DEF ServerInv, ConnOK, LoopOK, HandlerIsLive
<1>2. CASE UNCHANGED <<conn, writeCb>>
  BY <1>2, ArmedSame
<1>3. CASE Stop
  <2>1. \A c \in Clients : conn'[c].state = "CLOSED"
    BY <1>3 DEF Stop, NoConnection
  <2> QED  BY <2>1 DEF ArmedInv, Armed, Served
<1>4. CASE AcceptClient
  BY <1>4, AcceptArmed
<1>5. CASE \E c \in Clients : ProcessMessage(c)
  <2> PICK c \in Clients : ProcessMessage(c)
    BY <1>5
  <2>1. Served(c)
    BY DEF ProcessMessage, Served
  <2>2. \E rest, response : Respond(c, rest, response, TRUE)
    BY DEF ProcessMessage, Fault
  <2> QED  BY <2>1, <2>2, RespondArmed
<1>6. CASE \E c \in Clients : ProcessDone(c)
  <2> PICK c \in Clients : ProcessDone(c)
    BY <1>6
  <2>1. writeCb' = writeCb /\ \E rest : conn' = [conn EXCEPT ![c].input = rest]
    BY DEF ProcessDone
  <2>2. \A d \in Clients : conn'[d].fd = conn[d].fd /\ conn'[d].state = conn[d].state
    BY <1>1, <2>1 DEF Connection
  <2> QED  BY <2>1, <2>2, ArmedSame
<1>7. CASE \E e \in batch, c \in Clients : HandleReadable(e, c)
  <2> PICK e \in batch, c \in Clients : HandleReadable(e, c)
    BY <1>7
  <2>1. writeCb' = writeCb /\ \E new : conn' = [conn EXCEPT ![c].input = new]
    BY <1>1 DEF HandleReadable
  <2>2. \A d \in Clients : conn'[d].fd = conn[d].fd /\ conn'[d].state = conn[d].state
    BY <1>1, <2>1 DEF Connection
  <2> QED  BY <2>1, <2>2, ArmedSame
<1>8. CASE \E e \in batch, c \in Clients : HandleEndOfStream(e, c)
  <2> PICK e \in batch, c \in Clients : HandleEndOfStream(e, c)
    BY <1>8
  <2>1. Served(c) /\ Close(c)
    BY CallbackFacts DEF HandleEndOfStream
  <2> QED  BY <2>1, CloseArmed
<1>9. CASE \E e \in batch, c \in Clients : HandleWritable(e, c)
  <2> PICK e \in batch, c \in Clients : HandleWritable(e, c)
    BY <1>9
  <2>1. Served(c) /\ (SendSome(c) \/ SendAll(c))
    BY CallbackFacts DEF HandleWritable
  <2>2. CASE SendSome(c)
    <3>1. writeCb' = writeCb /\ \E sent : conn' = [conn EXCEPT ![c].offset = sent]
      BY <2>2 DEF SendSome
    <3>2. \A d \in Clients : conn'[d].fd = conn[d].fd /\ conn'[d].state = conn[d].state
      BY <1>1, <3>1 DEF Connection
    <3> QED  BY <3>1, <3>2, ArmedSame
  <2>3. CASE SendAll(c)
    BY <2>1, <2>3, WrittenArmed DEF SendAll
  <2> QED  BY <2>1, <2>2, <2>3
<1>10. CASE \E e \in batch, c \in Clients : HandleWritableClosed(e, c)
  <2> PICK e \in batch, c \in Clients : HandleWritableClosed(e, c)
    BY <1>10
  <2>1. Served(c) /\ (Written(c) \/ Close(c))
    BY CallbackFacts DEF HandleWritableClosed
  <2> QED  BY <2>1, WrittenArmed, CloseArmed
<1>11. CASE \E e \in batch, c \in Clients : SocketError(e, c)
  <2> PICK e \in batch, c \in Clients : SocketError(e, c)
    BY <1>11
  <2>1. Served(c) /\ Close(c)
    BY CallbackFacts DEF SocketError
  <2> QED  BY <2>1, CloseArmed
<1>12. CASE Dispatch
  <2> PICK e \in batch :
        \/ EventError(e)
        \/ IgnoreEvent(e)
        \/ HandleAccept(e)
        \/ \E c \in Clients :
            \/ HandleReadable(e, c)
            \/ HandleEndOfStream(e, c)
            \/ HandleWritable(e, c)
            \/ HandleWritableClosed(e, c)
            \/ BrokenPipe(e, c)
            \/ SocketError(e, c)
    BY <1>12 DEF Dispatch
  <2>1. ~EventError(e)
    BY DEF EventError, Fault
  <2>2. IgnoreEvent(e) \/ HandleAccept(e) => UNCHANGED <<conn, writeCb>>
    BY DEF IgnoreEvent, HandleAccept
  <2>3. \A c \in Clients : BrokenPipe(e, c) => Stop
    BY DEF BrokenPipe
  <2> QED  BY <1>2, <1>3, <1>7, <1>8, <1>9, <1>10, <1>11, <2>1, <2>2, <2>3, Zenon
<1>13. CASE \E c \in Clients : Client(c)
  <2>1. UNCHANGED <<conn, writeCb>>
    BY <1>13 DEF Client, Connect, Send, ReceiveBytes, TakeReply, ClientClose, loop
  <2> QED  BY <1>2, <2>1
<1>14. CASE Initialize \/ InitializeFails \/ WaitEvents \/ AcceptRefuses \/ AcceptDone
  <2>1. UNCHANGED <<conn, writeCb>>
    BY <1>14 DEF Initialize, InitializeFails, WaitEvents, AcceptRefuses, AcceptDone, loop
  <2> QED  BY <1>2, <2>1
<1>15. CASE LoopFails
  BY <1>3, <1>15 DEF LoopFails
<1>16. CASE UNCHANGED vars
  BY <1>2, <1>16 DEF vars, loop
<1> QED
  BY <1>4, <1>5, <1>6, <1>12, <1>13, <1>14, <1>15, <1>16, Zenon
  DEF Next, ServerStep, Accept, Process

\* Where kevent refuses no registration and reports no error, a connection
\* has output left exactly when it is WRITING and registered for writing: no
\* reply waits for an event that never comes, and the loop does not spin
\* (connection.cpp:188-194, 269-274).
THEOREM ArmedTheorem ==
    ASSUME "register" \notin Faults, "event" \notin Faults
    PROVE  Spec => []WritesAreArmed
<1>1. Init => ArmedInv
  BY DEF Init, ArmedInv, Armed, Served, NoConnection
<1>2. ServerInv /\ ArmedInv /\ [Next]_vars => ArmedInv'
  BY NextArmed
<1>3. ASSUME ServerInv, ArmedInv PROVE WritesAreArmed
  <2> SUFFICES ASSUME NEW c \in Clients, Served(c)
               PROVE  LET unsent == conn[c].offset < Len(conn[c].output)
                      IN /\ unsent <=> conn[c].state = "WRITING"
                         /\ unsent <=> writeCb[conn[c].fd] = c
    BY DEF WritesAreArmed
  <2>1. conn[c].state = "WRITING" <=> conn[c].offset < Len(conn[c].output)
    BY <1>3, ClientTypes DEF Connection
  <2>2. conn[c].state = "WRITING" <=> writeCb[conn[c].fd] = c
    BY <1>3 DEF ArmedInv, Armed
  <2> QED  BY <2>1, <2>2
<1> QED  BY <1>1, <1>2, <1>3, ServerInvariant, PTL DEF Spec
=============================================================================
