------------------------------ MODULE Connection ------------------------------
(***************************************************************************)
(* A connection of the web server (src/web/Connection.cpp, and what        *)
(* src/web/Server.cpp does with it).  The DAW thread reads what the socket *)
(* has, as many bytes as happen to be there, and parses them where they    *)
(* are in the buffer: HTTP requests line by line, and after an upgrade     *)
(* WebSocket frames.  It answers at once or, when a process has to go      *)
(* through the engine first, in a later turn.                              *)
(*                                                                         *)
(* A client sends items: requests and frames.  A byte is the pair of its   *)
(* item and its place in the item; what it says is a field of the item.  A *)
(* request has the lines of its head (the request line, its headers and an *)
(* empty line), of which only the lengths matter, the line feed included,  *)
(* then its content.  Sending is reliable and its size does not matter.    *)
(* "Text" stands for the binary opcode, too.                               *)
(***************************************************************************)
EXTENDS Naturals, Sequences, SequencesExt

CONSTANTS Requests,        \* records of verb, later, lines and content (a length)
          Frames,          \* records of opcode, final, masked and length
          MaxItems,        \* bound: items the client sends
          BufferSize,      \* buffer_size (1024)
          CompactionPoint, \* compaction_point (512)
          ShortLength,     \* the longest length the second byte holds (125)
          None

ASSUME ConnectionAssumption ==
         /\ MaxItems \in Nat /\ ShortLength \in Nat
         /\ BufferSize \in Nat /\ CompactionPoint \in 1 .. BufferSize
         /\ None \notin Nat

VARIABLES sent,        \* the items the client has sent
          net,         \* bytes on their way to the server
          eof,         \* the client has closed its end
          pc,          \* "tick", "process", "compact" or "dead"
          exists,      \* the Connection has not been deleted
          state, buffer,
          read,        \* bytes of the buffer already consumed
          request,     \* cur_request: an item, or None
          frame,       \* the item whose data is being read
          remaining,   \* frame_length_remaining
          maskPhase,
          data,        \* frame_data
          control,     \* control_frame_data
          pending,     \* items whose answer waits for a process
          handled,     \* requests and messages passed on, with their content
          replies      \* what the client got, with its data

clientVars == <<sent, net, eof>>
frameVars == <<frame, remaining, maskPhase, data, control>>
logVars == <<pending, handled, replies>>
vars == <<clientVars, pc, exists, state, buffer, read, request, frameVars,
          logVars>>

\* Where the lines of a request end.
LineStops == [r \in Requests |-> {FoldLeft(+, 0, SubSeq(r.lines, 1, n)) :
                                    n \in DOMAIN r.lines}]
HeadSize == [r \in Requests |-> Max(LineStops[r])]
IsRequest(i) == sent[i] \in Requests
IsData(i) == ~IsRequest(i) /\ sent[i].opcode \in {"Text", "Continuation"}
IsLong(f) == f.length > ShortLength
\* The two bytes, the extended length (2 bytes, for 2 or 8) and the masking key.
LengthEnd(f) == 2 + IF IsLong(f) THEN 2 ELSE 0
FrameHeader(f) == LengthEnd(f) + IF f.masked THEN 4 ELSE 0
Overhead(item) == IF item \in Requests THEN HeadSize[item] ELSE FrameHeader(item)
Body(item) == IF item \in Requests THEN item.content ELSE item.length

\* The bytes of item i, and those of its content or data.
Wire(i, item) == [k \in 1 .. Overhead(item) + Body(item) |-> <<i, k>>]
Payload(i) == [k \in 1 .. Body(sent[i]) |-> <<i, Overhead(sent[i]) + k>>]

Room == BufferSize - Len(buffer)
Readable == Len(buffer) - read
Unread(n) == SubSeq(buffer, read + 1, read + n)

Init == /\ sent = << >> /\ net = << >> /\ eof = FALSE
        /\ pc = "tick" /\ exists = TRUE
        /\ state = "StartingRequest"
        /\ buffer = << >> /\ read = 0 /\ request = None
        /\ frame = None /\ remaining = 0 /\ maskPhase = 0
        /\ data = << >> /\ control = << >>
        /\ pending = << >> /\ handled = << >> /\ replies = << >>

Got(i) == \E j \in DOMAIN replies : replies[j].of = i
Upgraded == \E i \in DOMAIN sent : IsRequest(i) /\ sent[i].verb = "Upgrade"
                                   /\ Got(i)
\* What a client sends last before the frames: an upgrade, as it should be or not.
Upgrading == \E i \in DOMAIN sent :
               IsRequest(i) /\ sent[i].verb \in {"Upgrade", "BadUpgrade"}
\* The fragments of a message that the client has yet to finish.
InMessage == \E i \in DOMAIN sent : /\ IsData(i) /\ ~sent[i].final
                                    /\ \A j \in i + 1 .. Len(sent) : ~IsData(j)
HasClosed == \E i \in DOMAIN sent : ~IsRequest(i) /\ sent[i].opcode = "Close"

Put(item) == /\ ~eof /\ Len(sent) < MaxItems
             /\ sent' = Append(sent, item)
             /\ net' = net \o Wire(Len(sent) + 1, item)
             /\ UNCHANGED <<eof, pc, exists, state, buffer, read, request,
                            frameVars, logVars>>
\* A browser sends a request when the one before is answered.
SendRequest(r) == /\ \A i \in DOMAIN sent : Got(i)
                  /\ ~Upgrading
                  /\ Put(r)
SendFrame(f) == /\ Upgraded /\ ~HasClosed
                /\ (f.opcode = "Text" => ~InMessage)
                /\ (f.opcode = "Continuation" => InMessage)
                /\ Put(f)
CloseSocket == /\ ~eof
               /\ eof' = TRUE
               /\ UNCHANGED <<sent, net, pc, exists, state, buffer, read,
                              request, frameVars, logVars>>

------------------------------------------------------------------------------
\* read() returns zero at the end of the stream, and when nothing fits.
ReadsNothing == IF net = << >> THEN eof ELSE Room = 0

\* Broken variant: a read of nothing is not taken for the end.
ReadSocketOn ==
  /\ pc = "tick" /\ exists /\ state # "Closed"
  /\ \/ \E n \in 1 .. Min({Len(net), Room}) :
          /\ buffer' = buffer \o SubSeq(net, 1, n)
          /\ net' = SubSeq(net, n + 1, Len(net))
          /\ pc' = "process"
     \/ /\ ReadsNothing
        /\ pc' = "compact"
        /\ UNCHANGED <<net, buffer>>
  /\ UNCHANGED <<sent, eof, exists, state, read, request, frameVars, logVars>>
\* tick() reads what is there and fits.
ReadSocket ==
  /\ pc = "tick" /\ exists /\ state # "Closed"
  /\ \/ \E n \in 1 .. Min({Len(net), Room}) :
          /\ buffer' = buffer \o SubSeq(net, 1, n)
          /\ net' = SubSeq(net, n + 1, Len(net))
          /\ pc' = "process"
          /\ UNCHANGED state
     \/ /\ ReadsNothing
        /\ state' = "Closed"
        /\ pc' = "compact"
        /\ UNCHANGED <<net, buffer>>
  /\ UNCHANGED <<sent, eof, exists, read, request, frameVars, logVars>>

\* Server::tick() deletes a connection that it finds closed.
Delete == /\ pc = "tick" /\ exists /\ state = "Closed"
          /\ exists' = FALSE
          /\ UNCHANGED <<clientVars, pc, state, buffer, read, request,
                         frameVars, logVars>>

\* Broken variant: what is left in the buffer is never moved down.
CompactNever ==
  /\ pc = "compact"
  /\ pc' = "tick"
  /\ IF read >= Len(buffer) THEN buffer' = << >> /\ read' = 0
     ELSE UNCHANGED <<buffer, read>>
  /\ UNCHANGED <<clientVars, exists, state, request, frameVars, logVars>>
\* compact_buffer()
Compact ==
  /\ pc = "compact"
  /\ pc' = "tick"
  /\ IF BufferSize - read <= CompactionPoint \/ read >= Len(buffer)
     THEN buffer' = Unread(Readable) /\ read' = 0
     ELSE UNCHANGED <<buffer, read>>
  /\ UNCHANGED <<clientVars, exists, state, request, frameVars, logVars>>

\* next_line(): the line ends at the first line feed that is there.
IsLineEnd(byte) == IsRequest(byte[1]) /\ byte[2] \in LineStops[sent[byte[1]]]
LineEnds == {p \in read + 1 .. Len(buffer) : IsLineEnd(buffer[p])}
LineEnd == Min(LineEnds)
ItemRead == buffer[LineEnd][1]
IsLastLine == buffer[LineEnd][2] = HeadSize[sent[ItemRead]]

NoLine == /\ pc = "process" /\ state \in {"StartingRequest", "ReadingHeaders"}
          /\ LineEnds = {}
          /\ pc' = "compact"
          /\ UNCHANGED <<clientVars, exists, state, buffer, read, request,
                         frameVars, logVars>>

\* start_request() goes on with the headers.
StartRequest == /\ pc = "process" /\ state = "StartingRequest"
                /\ LineEnds # {}
                /\ request' = ItemRead
                /\ read' = LineEnd
                /\ state' = "ReadingHeaders"
                /\ UNCHANGED <<clientVars, pc, exists, buffer, frameVars,
                               logVars>>

\* read_headers(): a header without a colon is an error, which closes.
ReadHeader ==
  /\ pc = "process" /\ state = "ReadingHeaders"
  /\ LineEnds # {} /\ ~IsLastLine
  /\ read' = LineEnd
  /\ IF sent[ItemRead].verb = "BadHeader"
     THEN /\ state' = "Closed" /\ pc' = "compact"
          /\ replies' = Append(replies, [of |-> request, data |-> << >>])
     ELSE UNCHANGED <<state, pc, replies>>
  /\ UNCHANGED <<clientVars, exists, buffer, request, frameVars, pending,
                 handled>>

\* handle_request() at the empty line.  Whatever it does, the request is
\* deleted and the rest of the buffer waits for the next turn.
HandleRequest(verbs) == /\ pc = "process" /\ state = "ReadingHeaders"
                        /\ LineEnds # {} /\ IsLastLine
                        /\ sent[request].verb \in verbs
                        /\ request' = None
                        /\ pc' = "compact"
                        /\ UNCHANGED <<clientVars, exists, buffer>>

\* Broken variant: a handler answers and leaves a process to answer, too.
DispatchTwice(content) ==
  /\ handled' = Append(handled, [of |-> request, data |-> content])
  /\ replies' = Append(replies, [of |-> request, data |-> << >>])
  /\ pending' = IF sent[request].later THEN Append(pending, request)
                ELSE pending
\* What a handler does with the request: it answers, if only with an error,
\* or starts a process that will.
Dispatch(content) ==
  /\ handled' = Append(handled, [of |-> request, data |-> content])
  /\ IF sent[request].later
     THEN pending' = Append(pending, request) /\ UNCHANGED replies
     ELSE /\ replies' = Append(replies, [of |-> request, data |-> << >>])
          /\ UNCHANGED pending

\* get_file() and the handlers of GET, POST and DELETE.  An error closes the
\* connection, but only get_file() leaves it so: after the API's handlers, and
\* after start_replying(), the state is set to StartingRequest.
HandleSimple == /\ HandleRequest({"Api", "File", "Missing"})
                /\ read' = LineEnd
                /\ Dispatch(<< >>)
                /\ state' = IF sent[request].verb = "Missing" THEN "Closed"
                            ELSE "StartingRequest"
                /\ UNCHANGED frameVars

\* handle_api_put(): a length of zero is answered with an error (411).
HandlePutNothing ==
  /\ HandleRequest({"Put"}) /\ sent[request].content = 0
  /\ read' = LineEnd
  /\ replies' = Append(replies, [of |-> request, data |-> << >>])
  /\ state' = "StartingRequest"
  /\ UNCHANGED <<frameVars, pending, handled>>

\* handle_api_put() handles the request if the whole content has come with
\* its headers.
HandlePut ==
  /\ HandleRequest({"Put"}) /\ sent[request].content > 0
  /\ LET length == sent[request].content
         here == Min({length, Len(buffer) - LineEnd})
     IN  /\ read' = LineEnd + here
         /\ IF here = length
            THEN /\ Dispatch(SubSeq(buffer, LineEnd + 1, LineEnd + here))
                 /\ state' = "StartingRequest"
            ELSE /\ state' = "ReadingRequestContent"
                 /\ UNCHANGED logVars
  /\ UNCHANGED frameVars

\* read_request_content() in a later turn: it appends to a request that
\* handle_request() has deleted.
ReadContent == /\ pc = "process" /\ state = "ReadingRequestContent"
               /\ request = None
               /\ pc' = "dead"
               /\ UNCHANGED <<clientVars, exists, state, buffer, read, request,
                              frameVars, logVars>>

\* start_websocket(): error_out() answers a malformed upgrade and closes, but
\* the function goes on, answers once more and sets the state.
StartWebSocket ==
  LET answer == [of |-> request, data |-> << >>]
  IN  /\ HandleRequest({"Upgrade", "BadUpgrade"})
      /\ read' = LineEnd
      /\ IF sent[request].verb = "Upgrade" THEN Dispatch(<< >>)
         ELSE /\ replies' = replies \o <<answer, answer>>
              /\ UNCHANGED <<pending, handled>>
      /\ state' = "AwaitingWebSocketFrame"
      /\ UNCHANGED frameVars

\* A process is done: finish_reply() sets the state, whatever it was.  If the
\* connection has been deleted meanwhile, it is used nevertheless.
Reply == /\ pc = "tick" /\ pending # << >>
         /\ pending' = Tail(pending)
         /\ IF exists
            THEN /\ replies' = Append(replies, [of |-> Head(pending),
                                                data |-> << >>])
                 /\ state' = "StartingRequest"
                 /\ UNCHANGED pc
            ELSE pc' = "dead" /\ UNCHANGED <<replies, state>>
         /\ UNCHANGED <<clientVars, exists, buffer, read, request, frameVars,
                        handled>>

------------------------------------------------------------------------------
NextItem == buffer[read + 1][1]
NextFrame == sent[NextItem]
AtFrame == pc = "process" /\ state = "AwaitingWebSocketFrame"

\* process_websocket_frame() waits for the header and one byte more.
WaitForFrame ==
  /\ AtFrame
  /\ Readable >= 2 => Readable <= IF IsLong(NextFrame) THEN LengthEnd(NextFrame)
                                  ELSE FrameHeader(NextFrame)
  /\ pc' = "compact"
  /\ UNCHANGED <<clientVars, exists, state, buffer, read, request, frameVars,
                 logVars>>

\* The loop that reads an extended length does not count its bytes down.
ReadExtendedLength ==
  /\ AtFrame
  /\ Readable >= 2 /\ IsLong(NextFrame) /\ Readable > LengthEnd(NextFrame)
  /\ pc' = "dead"
  /\ UNCHANGED <<clientVars, exists, state, buffer, read, request, frameVars,
                 logVars>>

\* The header of a frame, with its key, has been read.
FrameBegins == /\ AtFrame
               /\ Readable >= 2 /\ ~IsLong(NextFrame)
               /\ Readable > FrameHeader(NextFrame)
               /\ frame' = NextItem
               /\ read' = read + FrameHeader(NextFrame)
               /\ remaining' = NextFrame.length
               /\ maskPhase' = 0
               /\ state' = "ReadingWebSocketData"
               /\ UNCHANGED <<clientVars, pc, exists, buffer, request, logVars>>

\* Broken variant: the text of the message before is kept.
ProcessFrameKeepsData == FrameBegins /\ control' = << >> /\ UNCHANGED data
\* Only the first frame of a message clears its text.
ProcessFrame ==
  /\ FrameBegins
  /\ data' = IF NextFrame.opcode = "Text" THEN << >> ELSE data
  /\ control' = << >>

Garbled == <<0, 0>>
\* A byte is unmasked by the part of the key that it was masked with.
Unmasked(byte, phase) ==
  LET item == sent[byte[1]]
  IN  IF (byte[2] - FrameHeader(item) - 1) % 4 = phase % 4 THEN byte
      ELSE Garbled
Decoded(bytes, phase) ==
  IF sent[frame].masked
  THEN [k \in DOMAIN bytes |-> Unmasked(bytes[k], phase + k - 1)]
  ELSE bytes

\* How much of the frame has been read.
TakeData(bytes) ==
  /\ read' = read + Len(bytes)
  /\ remaining' = remaining - Len(bytes)
  /\ maskPhase' = IF sent[frame].masked THEN (maskPhase + Len(bytes)) % 4
                  ELSE maskPhase

\* Broken variant: the frames behind are left to the next turn.
FinishFrameOnly(message, reply) ==
  /\ state' = IF sent[frame].opcode = "Close" THEN "Closed"
              ELSE "AwaitingWebSocketFrame"
  /\ pc' = "compact"
  /\ handled' = IF IsData(frame) /\ sent[frame].final
                THEN Append(handled, [of |-> frame, data |-> message])
                ELSE handled
  /\ replies' = IF sent[frame].opcode \in {"Close", "Ping"}
                THEN Append(replies, [of |-> frame, data |-> reply])
                ELSE replies
\* The frame is complete: a whole message is passed on, a ping and a close
\* frame are answered with their data, and the next frame is looked for.
FinishFrame(message, reply) ==
  /\ state' = IF sent[frame].opcode = "Close" THEN "Closed"
              ELSE "AwaitingWebSocketFrame"
  /\ pc' = IF sent[frame].opcode = "Close" THEN "compact" ELSE pc
  /\ handled' = IF IsData(frame) /\ sent[frame].final
                THEN Append(handled, [of |-> frame, data |-> message])
                ELSE handled
  /\ replies' = IF sent[frame].opcode \in {"Close", "Ping"}
                THEN Append(replies, [of |-> frame, data |-> reply])
                ELSE replies

\* read_websocket_data()
ReadData ==
  /\ pc = "process" /\ state = "ReadingWebSocketData"
  /\ LET bytes == Unread(Min({Readable, remaining}))
         text == Decoded(bytes, maskPhase)
     IN  /\ TakeData(bytes)
         /\ IF IsData(frame)
            THEN data' = data \o text /\ UNCHANGED control
            ELSE control' = control \o text /\ UNCHANGED data
         /\ IF Len(bytes) < remaining
            THEN pc' = "compact" /\ UNCHANGED <<state, handled, replies>>
            ELSE FinishFrame(data', control')
  /\ UNCHANGED <<clientVars, exists, buffer, request, frame, pending>>

------------------------------------------------------------------------------
Server == \/ ReadSocket \/ Delete \/ Compact
          \/ NoLine \/ StartRequest \/ ReadHeader
          \/ HandleSimple \/ HandlePutNothing \/ HandlePut \/ ReadContent
          \/ StartWebSocket
          \/ WaitForFrame \/ ReadExtendedLength \/ ProcessFrame \/ ReadData

Next == \/ \E r \in Requests : SendRequest(r)
        \/ \E f \in Frames : SendFrame(f)
        \/ CloseSocket
        \/ Server \/ Reply

Spec == Init /\ [][Next]_vars
\* DAW::tick() serves the connections in each of its turns, and the engine
\* hands each process back.
FairSpec == Spec /\ WF_vars(Server) /\ WF_vars(Reply)

------------------------------------------------------------------------------
TypeOK == /\ sent \in Seq(Requests \cup Frames) /\ Len(sent) <= MaxItems
          /\ eof \in BOOLEAN /\ exists \in BOOLEAN
          /\ pc \in {"tick", "process", "compact", "dead"}
          /\ state \in {"StartingRequest", "ReadingHeaders", "Closed",
                        "ReadingRequestContent", "AwaitingWebSocketFrame",
                        "ReadingWebSocketData"}
          /\ Len(buffer) <= BufferSize /\ read \in 0 .. Len(buffer)
          /\ request \in DOMAIN sent \cup {None}
          /\ frame \in DOMAIN sent \cup {None}
          /\ remaining \in Nat /\ maskPhase \in 0 .. 3

\* The frames of the message that ends with frame i, and its text.
InSameMessage(j, i) == IsData(j) /\ \A m \in j .. i - 1 :
                                      IsData(m) => ~sent[m].final
Message(i) == FlattenSeq([j \in 1 .. i |-> IF InSameMessage(j, i)
                                           THEN Payload(j) ELSE << >>])
Refused(r) == \/ r.verb \in {"BadHeader", "BadUpgrade"}
              \/ r.verb = "Put" /\ r.content = 0
IsWhole(i) == IF IsRequest(i) THEN ~Refused(sent[i])
              ELSE IsData(i) /\ sent[i].final
\* What the client has sent: its requests and its messages.
Expected ==
  FlattenSeq([i \in DOMAIN sent |->
    IF ~IsWhole(i) THEN << >>
    ELSE <<[of |-> i, data |-> IF IsRequest(i) THEN Payload(i)
                               ELSE Message(i)]>>])

\* However the stream is cut into reads, the handlers get the requests and the
\* messages the client sent, in their order, with their content: fragments
\* are joined, pings between them are left out, and what is masked is unmasked.
ArrivesWhole == IsPrefix(handled, Expected)

\* The buffer of a connection never fills up, so that a read always has room,
\* as long as no line of a head is longer than what compact_buffer() leaves.
LineFits(length) == length <= CompactionPoint + 1
LinesFit == \A i \in DOMAIN sent : IsRequest(i) =>
              \A n \in DOMAIN sent[i].lines : LineFits(sent[i].lines[n])
NeverFull == pc = "tick" /\ LinesFit => Room > 0

\* Nothing is answered twice except a malformed upgrade, and the pings and the
\* close frame get their own data back in the order in which they came, however
\* many are in the buffer and whatever else comes between them.
IsFrame(i) == ~IsRequest(i)
AnsweredOnce ==
  \A j, k \in DOMAIN replies :
    LET i == replies[j].of
    IN  /\ IsFrame(i) => replies[j].data = Payload(i)
        /\ j < k /\ IsFrame(i) => i < replies[k].of
        /\ j # k /\ i = replies[k].of => sent[i].verb = "BadUpgrade"

\* A request or message that was sent is passed on, unless the connection is
\* closed or the program fails; only a frame without data waits for a byte of
\* the next one.
IsPassedOn(i) == \E j \in DOMAIN handled : handled[j].of = i
IsFollowed(i) == IsRequest(i) \/ Body(sent[i]) > 0 \/ i < Len(sent)
MessageIsHandled ==
  \A i \in 1 .. MaxItems :
    (i \in DOMAIN sent /\ IsWhole(i) /\ IsFollowed(i))
      ~> (IsPassedOn(i) \/ state = "Closed" \/ ~exists \/ pc = "dead")

\* A connection whose client has gone is deleted, whatever was left unread and
\* though a reply that comes late takes it for open again.
GoneIsDeleted == eof ~> (~exists \/ pc = "dead")
=============================================================================
