------------------------------ MODULE Framing ------------------------------
(***************************************************************************)
(* How rx() (src/nats_coro.cpp) cuts the server's bytes into messages:     *)
(* async_read_until() a line end, parse_msg() (src/message.cpp), and       *)
(* async_read_until() with the match condition `received'                  *)
(* (include/received.h) for the payload.  A read may bring any number of   *)
(* bytes: part of a line, or several messages at once.                     *)
(*                                                                         *)
(* A word of a control line, the blanks between two words, or a piece of a *)
(* payload is one symbol here and counts as one byte.                      *)
(***************************************************************************)
EXTENDS Naturals, SequencesExt

CONSTANTS
  PayloadBytes, \* what payloads are made of
  Payloads,     \* the payloads that are sent
  MaxFrames     \* bound: how many frames the server sends

ASSUME BoundsAssumption ==
  MaxFrames \in Nat /\ \A p \in Payloads : p \in Seq(PayloadBytes) /\ Len(p) < 10

CR == "\r"
LF == "\n"
CRLF == <<CR, LF>>
Space == " "

\* What the server sends: a message for subscription "sid" of subject "subject",
\* with or without a reply_to; a PING, a +OK, or an error.
Frames ==
  [op : {"MSG"}, reply : {<<>>, <<"reply">>}, payload : Payloads]
    \cup [op : {"PING", "+OK", "-ERR"}, reply : {<<>>}, payload : {<<>>}]

\* Payload sizes have one digit.
Digits == <<"0", "1", "2", "3", "4", "5", "6", "7", "8", "9">>

Bytes ==
  {"MSG", "PING", "+OK", "-ERR", "subject", "sid", "reply", Space, CR, LF}
    \cup {Digits[i] : i \in DOMAIN Digits} \cup PayloadBytes

Encode(f) ==
  IF f.op = "MSG"
  THEN <<"MSG", Space, "subject", Space, "sid", Space>>
         \o (IF f.reply = <<>> THEN <<>> ELSE <<f.reply[1], Space>>)
         \o <<Digits[Len(f.payload) + 1], CR, LF>> \o f.payload \o CRLF
  ELSE <<f.op, CR, LF>>

\* The bytes of the last n frames of fs.
EncodeLast(fs) ==
  LET last[n \in 0 .. Len(fs)] ==
        IF n = 0 THEN <<>> ELSE Encode(fs[Len(fs) + 1 - n]) \o last[n - 1]
  IN  last

EncodeAll(fs) == EncodeLast(fs)[Len(fs)]

VARIABLES
  frames,       \* what the server sends in this run
  wire,         \* its bytes that were not read yet
  buffer,       \* the streambuf
  rx,           \* "line" or "body": it looks into the streambuf for one;
                \* "readLine" or "readBody": it reads on; or "ended"
  lineSize,     \* the size of the control line
  total,        \* totalMsgSize
  from,         \* where the match condition is called next
  count,        \* its _received
  messages,     \* the messages rx() made
  pongs         \* how often it called pong()

match == <<total, from, count>>
vars == <<frames, wire, buffer, rx, lineSize, match, messages, pongs>>

Init ==
  /\ frames \in UNION {[1 .. n -> Frames] : n \in 0 .. MaxFrames}
  /\ wire = EncodeAll(frames)
  /\ buffer = <<>>
  /\ rx = "line"
  /\ lineSize = 0 /\ total = 0 /\ from = 0 /\ count = 0
  /\ messages = <<>> /\ pongs = 0

\* The socket's read_some() of a pending async_read_until().
ReadSome ==
  /\ rx \in {"readLine", "readBody"}
  /\ \E n \in 1 .. Len(wire) :
       /\ buffer' = buffer \o SubSeq(wire, 1, n)
       /\ wire' = SubSeq(wire, n + 1, Len(wire))
  /\ rx' = IF rx = "readLine" THEN "line" ELSE "body"
  /\ UNCHANGED <<frames, lineSize, match, messages, pongs>>

\* How many bytes the first line of data has with its end, 0 if it has none.
FirstLine(data) ==
  LET ends == {i \in 2 .. Len(data) : data[i - 1] = CR /\ data[i] = LF}
  IN  IF ends = {} THEN 0 ELSE Min(ends)

LineSize == FirstLine(buffer)

\* split_control_line(): a word, the blanks after it, a word, and so on up to the CR,
\* each of them one symbol.
Fields(line) ==
  [k \in 1 .. SelectInSeq(line, LAMBDA b : b = CR) \div 2 |-> line[2 * k - 1]]

MaxTokens == 5      \* op_name, subject, subscribe_id, reply_to, payload_size

\* parse_size()
ParseSize(word) == SelectInSeq(Digits, LAMBDA d : d = word) - 1

\* Mutation: the size is always looked for where it is without a reply_to.
SizeFieldFourth(fields) == fields[MaxTokens - 1]

\* parse_msg(): without a reply_to the size is the field before the last.
SizeField(fields) ==
  IF Len(fields) < MaxTokens THEN fields[MaxTokens - 1] ELSE fields[MaxTokens]

PayloadSize(fields) == ParseSize(SizeField(fields))

ReplyTo(fields) ==
  IF Len(fields) < MaxTokens THEN <<>> ELSE <<fields[MaxTokens - 1]>>

\* Mutation: nothing is consumed.
ConsumeNothing(n) == UNCHANGED buffer

Consume(n) == buffer' = SubSeq(buffer, n + 1, Len(buffer))

NoLine ==
  /\ rx = "line" /\ LineSize = 0
  /\ rx' = "readLine"
  /\ UNCHANGED <<frames, wire, buffer, lineSize, match, messages, pongs>>

ControlLine == SubSeq(buffer, 1, LineSize)

\* A message: the match condition counts what is in the buffer from its start.
MsgLine ==
  /\ rx = "line" /\ LineSize > 0 /\ buffer[1] = "MSG"
  /\ lineSize' = LineSize
  /\ total' = LineSize + PayloadSize(Fields(ControlLine)) + Len(CRLF)
  /\ from' = 0 /\ count' = 0
  /\ rx' = "body"
  /\ UNCHANGED <<frames, wire, buffer, messages, pongs>>

\* Anything else is consumed; a PING is answered, an error ends rx().
OtherLine ==
  /\ rx = "line" /\ LineSize > 0 /\ buffer[1] # "MSG"
  /\ pongs' = IF buffer[1] = "PING" THEN pongs + 1 ELSE pongs
  /\ IF buffer[1] = "-ERR"
     THEN rx' = "ended" /\ UNCHANGED buffer
     ELSE rx' = "line" /\ Consume(LineSize)
  /\ UNCHANGED <<frames, wire, lineSize, total, from, count, messages>>

\* Mutation: the match condition is called with the whole buffer each time.
DistanceWhole == Len(buffer)

\* received::operator() is called with the part of the buffer it has not seen.
Distance == Len(buffer) - from

\* Mutation: it compares what is new with the total.
CountedNew == Distance

Counted == count + Distance

NotReceived ==
  /\ rx = "body" /\ Counted < total
  /\ count' = Counted
  /\ from' = Len(buffer)
  /\ rx' = "readBody"
  /\ UNCHANGED <<frames, wire, buffer, lineSize, total, messages, pongs>>

\* begin + distance - tailSize
Matched == from + Distance - (Counted - total)

Message ==
  LET fields == Fields(SubSeq(buffer, 1, lineSize)) IN
  [reply |-> ReplyTo(fields),
   payload |-> SubSeq(buffer, lineSize + 1, lineSize + PayloadSize(fields))]

\* make_message(): the payload it finds in the bytes of a whole message.
PayloadIn(data) ==
  LET size == PayloadSize(Fields(data))
      offset == FirstLine(data)
  IN  IF size = 0 THEN <<>>
      ELSE SubSeq(data, offset + 1, offset + Min({size, Len(data) - offset}))

Received ==
  /\ rx = "body" /\ Counted >= total
  /\ from' = 0 /\ count' = 0
  /\ messages' = Append(messages, Message)
  /\ Consume(Matched)
  /\ rx' = "line"
  /\ UNCHANGED <<frames, wire, lineSize, total, pongs>>

Next == ReadSome \/ NoLine \/ MsgLine \/ OtherLine \/ NotReceived \/ Received

\* The connection delivers, and rx() works on what it has read.
Spec == Init /\ [][Next]_vars /\ WF_vars(Next)

(***************************************************************************)
(* Correctness                                                             *)
(***************************************************************************)
TypeOK ==
  /\ rx \in {"line", "body", "readLine", "readBody", "ended"}
  /\ frames \in Seq(Frames)
  /\ wire \in Seq(Bytes) /\ buffer \in Seq(Bytes)
  /\ messages \in Seq([reply : {<<>>, <<"reply">>}, payload : Payloads])
  /\ lineSize \in Nat /\ total \in Nat /\ count \in Nat
  /\ from \in 0 .. Len(buffer)
  /\ pongs \in 0 .. Len(frames) /\ Len(messages) <= Len(frames)

\* The assertions of rx() and make_message(): the match ends where the message
\* ends, with CRLF, wherever the reads cut it and whatever line ends its payload
\* contains; and both find the same payload.
AssertsHold ==
  rx = "body" /\ Counted >= total =>
    /\ Matched = total /\ total <= Len(buffer)
    /\ SubSeq(buffer, total - 1, total) = CRLF
    /\ PayloadIn(SubSeq(buffer, 1, total)) = Message.payload

\* The frames of those before the first error.
Sent ==
  LET errors == {i \in DOMAIN frames : frames[i].op = "-ERR"}
  IN  IF errors = {} THEN frames ELSE SubSeq(frames, 1, Min(errors) - 1)

SentMessages ==
  LET fs == SelectSeq(Sent, LAMBDA f : f.op = "MSG")
  IN  [i \in DOMAIN fs |-> [reply |-> fs[i].reply, payload |-> fs[i].payload]]

\* The messages are the MSG frames of the first n, each once and in order.
MadeOf(n) ==
  \E at \in [DOMAIN messages -> 1 .. n] :
    /\ \A i, j \in DOMAIN messages : i < j => at[i] < at[j]
    /\ \A k \in 1 .. n : frames[k].op = "MSG" <=> \E i \in DOMAIN messages : at[i] = k
    /\ \A i \in DOMAIN messages :
         messages[i] = [reply |-> frames[at[i]].reply, payload |-> frames[at[i]].payload]

\* The subscribers get what was sent, in order, complete and unchanged; what
\* rx() still has to look at starts with a whole frame.
MessagesAreThoseSent ==
  \E n \in 0 .. Len(frames) :
    /\ \A k \in 1 .. n : frames[k].op # "-ERR"
    /\ buffer \o wire = EncodeLast(frames)[Len(frames) - n]
    /\ MadeOf(n)

\* Everything that was sent before an error is handled, and every PING.
AllHandled ==
  <>[](/\ messages = SentMessages
       /\ pongs = Len(SelectSeq(Sent, LAMBDA f : f.op = "PING")))
=============================================================================
