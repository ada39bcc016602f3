------------------------------ MODULE Protocol ------------------------------
(***************************************************************************)
(* What travels over a connection: frames, and the commands and replies in *)
(* them.                                                                   *)
(*                                                                         *)
(* A stream is a sequence of units.  A message is a sequence of words and  *)
(* its size the number of them; create_frame puts a header of HeaderSize   *)
(* units, which together hold that size, in front of it.  TCP may deliver  *)
(* a frame in pieces that end at any unit, also inside its header.         *)
(***************************************************************************)
EXTENDS Integers, Sequences

CONSTANTS
    HeaderSize,      \* sizeof(uint32_t)
    MaxMessageSize   \* MAX_MESSAGE_SIZE

ASSUME ProtocolAssumption ==
    /\ HeaderSize \in Nat \ {0}
    /\ MaxMessageSize \in Nat \ {0}

Word(w) == [word |-> w]

\* A message without its frame.
IsMessage(m) == Len(m) \in Nat /\ m = [i \in 1..Len(m) |-> Word(m[i].word)]

\* append_uint32: the size, byte by byte.
Header(n) == [i \in 1..HeaderSize |-> [size |-> n, byte |-> i]]

\* A frame whatever its size; only a client that does not use create_frame
\* sends one above the limit.
RawFrame(payload) == Header(Len(payload)) \o payload

\* The frames of a sequence of messages, one behind the other.
Frames(messages) ==
    LET upTo[i \in 0..Len(messages)] ==
            IF i = 0 THEN << >> ELSE upTo[i - 1] \o RawFrame(messages[i])
    IN upTo[Len(messages)]

\* create_frame: nothing for a payload above the limit.
CreateFrame(payload) ==
    IF Len(payload) > MaxMessageSize THEN << >> ELSE RawFrame(payload)

\* read_uint32 at the front of a buffer.  Units that are not a whole header
\* are the inside of some message, whose bytes may stand for any number.
MessageSizes(buffer) ==
    IF /\ "size" \in DOMAIN buffer[1]
       /\ SubSeq(buffer, 1, HeaderSize) = Header(buffer[1].size)
    THEN {buffer[1].size}
    ELSE 0..(MaxMessageSize + 1)

NoFrame(rest) == [found |-> FALSE, payload |-> << >>, rest |-> rest]

\* Mutant: the payload is erased and as much of the header as it is long.
ExtractFrameOfSizePayloadOnly(buffer, size) ==
    IF size > MaxMessageSize THEN NoFrame(<< >>)
    ELSE IF Len(buffer) < HeaderSize + size THEN NoFrame(buffer)
    ELSE [found   |-> TRUE,
          payload |-> SubSeq(buffer, HeaderSize + 1, HeaderSize + size),
          rest    |-> SubSeq(buffer, size + 1, Len(buffer))]

\* Mutant: a frame that ends where the buffer ends counts as incomplete.
ExtractFrameOfSizeStrict(buffer, size) ==
    IF size > MaxMessageSize THEN NoFrame(<< >>)
    ELSE IF Len(buffer) <= HeaderSize + size THEN NoFrame(buffer)
    ELSE [found   |-> TRUE,
          payload |-> SubSeq(buffer, HeaderSize + 1, HeaderSize + size),
          rest    |-> SubSeq(buffer, HeaderSize + size + 1, Len(buffer))]

\* try_extract_frame once the size is read: too large clears the buffer,
\* an incomplete frame stays in it, a complete one is cut off.
ExtractFrameOfSize(buffer, size) ==
    IF size > MaxMessageSize THEN NoFrame(<< >>)
    ELSE IF Len(buffer) < HeaderSize + size THEN NoFrame(buffer)
    ELSE [found   |-> TRUE,
          payload |-> SubSeq(buffer, HeaderSize + 1, HeaderSize + size),
          rest    |-> SubSeq(buffer, HeaderSize + size + 1, Len(buffer))]

\* try_extract_frame: the results it can have.
TryExtractFrame(buffer) ==
    IF Len(buffer) < HeaderSize THEN {NoFrame(buffer)}
    ELSE {ExtractFrameOfSize(buffer, n) : n \in MessageSizes(buffer)}

-----------------------------------------------------------------------------
(***************************************************************************)
(* parse_command and Database::execute.  The words of a line are those     *)
(* that operator>> reads; the value of a PUT is the rest of the line.      *)
(***************************************************************************)

\* to_upper, for the spellings that name an operation.
Operations ==
    [PUT    |-> {Word("PUT"), Word("put")},
     GET    |-> {Word("GET"), Word("get")},
     DELETE |-> {Word("DELETE"), Word("DEL"), Word("delete"), Word("del")},
     EXIT   |-> {Word("EXIT"), Word("QUIT"), Word("exit"), Word("quit")}]

Invalid == [type |-> "INVALID", key |-> << >>, value |-> << >>]

Command(t, k, v) == [type |-> t, key |-> k, value |-> v]

ParseCommand(line) ==
    IF line = << >> THEN Invalid
    ELSE IF line[1] \in Operations.EXIT THEN Command("EXIT", << >>, << >>)
    ELSE IF line[1] \in Operations.PUT /\ Len(line) > 2
         THEN Command("PUT", line[2], SubSeq(line, 3, Len(line)))
    ELSE IF line[1] \in Operations.GET /\ Len(line) = 2
         THEN Command("GET", line[2], << >>)
    ELSE IF line[1] \in Operations.DELETE /\ Len(line) = 2
         THEN Command("DELETE_KEY", line[2], << >>)
    ELSE Invalid

OK       == <<Word("OK")>>
NotFound == <<Word("NOT_FOUND")>>
Bye      == <<Word("BYE")>>
Error    == <<Word("ERROR")>>

\* Mutant: a value is sent with its key in front of it.
ReplyNamesKey(command, db) ==
    CASE command.type \in {"PUT", "DELETE_KEY"} -> OK
      [] command.type = "GET" ->
            IF command.key \in DOMAIN db
            THEN <<Word("VALUE"), command.key, Word("=")>> \o db[command.key]
            ELSE NotFound
      [] command.type = "EXIT" -> Bye
      [] command.type = "INVALID" -> Error

\* What Database::execute returns when nothing fails; db maps the keys that
\* have a value to it.  KVStore and ForgeDB say what is behind it.
Reply(command, db) ==
    CASE command.type \in {"PUT", "DELETE_KEY"} -> OK
      [] command.type = "GET" ->
            IF command.key \in DOMAIN db THEN db[command.key] ELSE NotFound
      [] command.type = "EXIT" -> Bye
      [] command.type = "INVALID" -> Error

\* The data after Database::execute.
Effect(command, db) ==
    CASE command.type = "PUT" ->
            [k \in DOMAIN db \cup {command.key} |->
                IF k = command.key THEN command.value ELSE db[k]]
      [] command.type = "DELETE_KEY" ->
            [k \in DOMAIN db \ {command.key} |-> db[k]]
      [] command.type \in {"GET", "EXIT", "INVALID"} -> db
=============================================================================
