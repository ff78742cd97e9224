--------------------------- MODULE HttpConnection ---------------------------
(***************************************************************************)
(* One connection of the web server: Mongoose takes the bytes of a request *)
(* in whatever portions TCP hands them over, finds in them the head, the   *)
(* body, or the parts of a multipart body, which it passes on while they   *)
(* arrive, and calls the handlers of web_server.  The client may go away   *)
(* at any moment.                                                          *)
(*                                                                         *)
(* A byte that the parser looks at is a token of its own, so that a        *)
(* portion may end between any two of them; what stands in a line of the   *)
(* head of a part is one token, and the boundary is of two bytes.          *)
(*                                                                         *)
(* A file comes with a line for its type, and there the parser forgets to  *)
(* count: it then reads on behind the end of its buffer, where anything    *)
(* may be.  While it has taken such bytes for the end of a head the        *)
(* connection is astray.                                                   *)
(***************************************************************************)
EXTENDS Integers, Sequences, FiniteSetsExt, SequencesExt

CONSTANTS
  Requests,  \* what a client may ask
  MG_MAX_HTTP_REQUEST_SIZE,
  FieldSize  \* the size of the variables handleConnectWifi reads fields into

\* A part has a name, a type if it is a file, and data, in which the boundary that
\* the browser has chosen does not occur; a value is of characters, of which none
\* is the name of a field.
PartRecords == [name : STRING \ {"\n"}, typed : BOOLEAN, data : Seq(STRING)]
Free(data) == \A i \in 1..Len(data) - 1 : ~(data[i] = "b1" /\ data[i + 1] = "b2")
Characters == STRING \ {"ssid", "pwd"}

ASSUME HttpAssumption ==
  /\ MG_MAX_HTTP_REQUEST_SIZE \in Nat \ {0}
  /\ FieldSize \in Nat \ {0}
  /\ \A r \in Requests :
       /\ r.head \in Nat \ {0}
       /\ r.kind = "upload" => /\ r.allowed \in BOOLEAN
                               /\ r.parts \in Seq(PartRecords)
                               /\ \A i \in DOMAIN r.parts : Free(r.parts[i].data)
       /\ r.kind = "form" => r.fields \in [ssid : Seq(Characters), pwd : Seq(Characters)]

VARIABLES
  request,    \* the request of the client
  pos,        \* how many of its bytes were received
  peer,       \* the client: "open", "shut" (it sends no more) or "reset"
  pc,         \* where the mongoose task is with this connection
  recv_mbuf,  \* recv_mbuf
  send_mbuf,  \* the answers in send_mbuf
  answers,    \* the answers that were sent
  rcvd,       \* rcvd of mg_http_proto_data
  mp,         \* mp_stream: its state, whether it has a boundary, the parts begun
  flags,      \* SEND_AND_CLOSE and CLOSE_IMMEDIATELY
  astray,     \* whether the part that was begun last was begun too early
  seen,       \* history: what the handler of the upload was told
  form        \* history: what event_handler has read from a form

upload == <<mp, seen, astray>>
buffers == <<recv_mbuf, send_mbuf, rcvd>>
client == <<request, pos, peer>>
vars == <<client, pc, buffers, answers, upload, flags, form>>

-----------------------------------------------------------------------------
\* The bytes of a request.

CRLF == <<"\r", "\n">>
Dashes == <<"-", "-">>
Boundary == <<"b1", "b2">>

\* Content-Disposition, with the name, and Content-Type.
PartHead(p) == <<p.name>> \o CRLF \o (IF p.typed THEN <<"type">> \o CRLF ELSE <<>>)

Part(p) ==
  Dashes \o Boundary \o CRLF \o PartHead(p) \o CRLF \o p.data \o CRLF

MultipartBody(parts) ==
  FlattenSeq([i \in DOMAIN parts |-> Part(parts[i])])
    \o Dashes \o Boundary \o Dashes \o CRLF

\* How jQuery writes a character of a form.
Escape(c) ==
  CASE c = " " -> <<"+">>
    [] c = "&" -> <<"%", "2", "6">>
    [] c = "+" -> <<"%", "2", "B">>
    [] c = "%" -> <<"%", "2", "5">>
    [] c = "=" -> <<"%", "3", "D">>
    [] OTHER   -> <<c>>

Field(key, value) ==
  <<key, "=">> \o FlattenSeq([i \in DOMAIN value |-> Escape(value[i])])

FormBody(fields) ==
  Field("ssid", fields.ssid) \o <<"&">> \o Field("pwd", fields.pwd)

Body(r) ==
  CASE r.kind = "upload" -> MultipartBody(r.parts)
    [] r.kind = "form"   -> FormBody(r.fields)
    [] OTHER             -> <<>>

\* The head, to the empty line that ends it.
HttpHead(r) == [i \in 1..r.head |-> IF i = r.head THEN "end" ELSE "head"]

Stream == HttpHead(request) \o Body(request)

-----------------------------------------------------------------------------
Boundless == [state |-> "BEGIN", boundary |-> FALSE, processing_part |-> 0]
NothingSeen == [phase |-> "idle", part |-> 0, name |-> "none", got |-> <<>>]
NoForm == [handled |-> FALSE]

Init ==
  /\ request \in Requests
  /\ pos = 0 /\ peer = "open"
  /\ pc = "poll"
  /\ recv_mbuf = <<>> /\ send_mbuf = 0 /\ answers = 0 /\ rcvd = 0
  /\ mp = Boundless /\ astray = FALSE
  /\ flags = {}
  /\ seen = NothingSeen /\ form = NoForm

\* The first place of a pattern in the buffer, 0 if there is none.
c_strnstr(pattern) ==
  LET places == {i \in 1..Len(recv_mbuf) - Len(pattern) + 1 :
                   SubSeq(recv_mbuf, i, i + Len(pattern) - 1) = pattern}
  IN  IF places = {} THEN 0 ELSE Min(places)

\* More than there is cannot be removed, and then nothing is.
mbuf_remove(n) ==
  recv_mbuf' = IF n <= Len(recv_mbuf) THEN SubSeq(recv_mbuf, n + 1, Len(recv_mbuf))
                                      ELSE recv_mbuf

\* mg_http_get_request_len, of a head that is well formed.
req_len == c_strnstr(<<"end">>)

-----------------------------------------------------------------------------
\* What the handlers do.

\* handle_ota_update, when the request begins: without the password in its
\* address it is answered at once.
MultipartRequest ==
  /\ seen' = [seen EXCEPT !.phase = "between"]
  /\ IF request.allowed
     THEN UNCHANGED <<send_mbuf, flags>>
     ELSE send_mbuf' = send_mbuf + 1 /\ flags' = flags \cup {"SEND_AND_CLOSE"}

\* And when it ends, with an error or without.  If there is a new firmware then
\* the device restarts here, and nobody sends what was put into send_mbuf.
MultipartRequestEnd(phase, next) ==
  /\ seen' = [seen EXCEPT !.phase = phase]
  /\ send_mbuf' = send_mbuf + 1
  /\ flags' = flags \cup {"SEND_AND_CLOSE"}
  /\ pc' \in {next, "restarted"}

Hex ==
  [h \in {<<"2", "6">>, <<"2", "B">>, <<"2", "5">>, <<"3", "D">>} |->
    CASE h = <<"2", "6">> -> "&"
      [] h = <<"2", "B">> -> "+"
      [] h = <<"2", "5">> -> "%"
      [] h = <<"3", "D">> -> "="]

\* What is decoded, and whether the destination was ended with a NUL.
Decoded == [text |-> <<>>, ended |-> TRUE]
Malformed == [text |-> <<>>, ended |-> FALSE]
Then(c, rest) == [rest EXCEPT !.text = <<c>> \o @]

\* Mutant: the last escape of a value is not decoded.
decode_char_ShortEscape(src, i, rest) ==
  IF src[i] # "%"
  THEN Then(IF src[i] = "+" THEN " " ELSE src[i], rest[i + 1])
  ELSE IF i + 2 < Len(src) /\ <<src[i + 1], src[i + 2]>> \in DOMAIN Hex
       THEN Then(Hex[<<src[i + 1], src[i + 2]>>], rest[i + 3])
       ELSE Malformed

\* One turn of the loop, at place i; rest is what is decoded from there on.
decode_char(src, i, rest) ==
  IF src[i] # "%"
  THEN Then(IF src[i] = "+" THEN " " ELSE src[i], rest[i + 1])
  ELSE IF i + 2 <= Len(src) /\ <<src[i + 1], src[i + 2]>> \in DOMAIN Hex
       THEN Then(Hex[<<src[i + 1], src[i + 2]>>], rest[i + 3])
       ELSE Malformed

\* from[r] is what is decoded from each place on, into r places.
mg_url_decode(src, room) ==
  LET from[r \in 0..room] ==
        [i \in 1..Len(src) + 1 |->
          IF r = 0 \/ i > Len(src) THEN Decoded ELSE decode_char(src, i, from[r - 1])]
  IN  from[room][1]

\* The value of the first field of that name, to the next & or the end.  The
\* destination is empty, and ended, before anything is decoded into it.
mg_get_http_var(body, key) ==
  LET starts == {i \in 1..Len(body) - 1 :
                   body[i] = key /\ body[i + 1] = "=" /\ (i = 1 \/ body[i - 1] = "&")}
      from == Min(starts) + 2
      ends == {i \in from..Len(body) : body[i] = "&"} \cup {Len(body) + 1}
      d == mg_url_decode(SubSeq(body, from, Min(ends) - 1), FieldSize - 1)
  IN  IF starts = {} THEN Decoded
      ELSE [d EXCEPT !.ended = @ \/ d.text = <<>>]

\* event_handler, of which only the reading of the form is here: it empties the
\* buffer, and so the removal of the message by its caller finds nothing.
HttpRequest(body) ==
  /\ form' = [handled |-> TRUE, ssid |-> mg_get_http_var(body, "ssid"),
              pwd |-> mg_get_http_var(body, "pwd")]
  /\ send_mbuf' = send_mbuf + 1
  /\ flags' = flags \cup {"SEND_AND_CLOSE"}

-----------------------------------------------------------------------------
\* The loop of the mongoose task: a connection is closed, or else it is read
\* and written.

Closes ==
  \/ "CLOSE_IMMEDIATELY" \in flags
  \/ "SEND_AND_CLOSE" \in flags /\ send_mbuf = 0

\* mg_http_handler with MG_EV_CLOSE: a multipart request is ended, and any other
\* is handled with as much of its body as there is.
Close ==
  /\ pc = "poll" /\ Closes
  /\ IF mp.boundary
     THEN /\ seen' = [seen EXCEPT !.phase = "lost"]
          /\ pc' = "lost"
          /\ UNCHANGED <<buffers, flags, form>>
     ELSE /\ pc' = "closed"
          /\ rcvd' = 0
          /\ UNCHANGED seen
          /\ IF req_len > 0 /\ request.kind = "form"
             THEN /\ HttpRequest(SubSeq(recv_mbuf, req_len + 1, Len(recv_mbuf)))
                  /\ recv_mbuf' = <<>>
             ELSE UNCHANGED <<recv_mbuf, send_mbuf, flags, form>>
  /\ UNCHANGED <<client, answers, mp, astray>>

CloseEndsRequest ==
  /\ pc = "lost"
  /\ MultipartRequestEnd("aborted", "closed")
  /\ recv_mbuf' = <<>> /\ rcvd' = 0
  /\ UNCHANGED <<client, answers, mp, astray, form>>

\* Mutant: only the bytes of the last portion are counted.
Receive_CountsLast(n) ==
  /\ pc = "poll" /\ ~Closes
  /\ peer = "open"
  /\ recv_mbuf' = recv_mbuf \o SubSeq(Stream, pos + 1, pos + n)
  /\ pos' = pos + n
  /\ rcvd' = n
  /\ pc' = IF mp.boundary THEN "multipart" ELSE "parse"
  /\ UNCHANGED <<request, peer, send_mbuf, answers, upload, flags, form>>

\* mg_if_can_recv_cb: some of the bytes the client sends.
Receive(n) ==
  /\ pc = "poll" /\ ~Closes
  /\ peer = "open"
  /\ recv_mbuf' = recv_mbuf \o SubSeq(Stream, pos + 1, pos + n)
  /\ pos' = pos + n
  /\ rcvd' = rcvd + n
  /\ pc' = IF mp.boundary THEN "multipart" ELSE "parse"
  /\ UNCHANGED <<request, peer, send_mbuf, answers, upload, flags, form>>

\* The client has gone, and there is no more to read.
ReceiveEnd ==
  /\ pc = "poll" /\ ~Closes
  /\ peer # "open"
  /\ flags' = flags \cup {IF peer = "shut" THEN "SEND_AND_CLOSE" ELSE "CLOSE_IMMEDIATELY"}
  /\ flags' # flags
  /\ UNCHANGED <<client, pc, buffers, answers, upload, form>>

\* mg_if_can_send_cb.
Send ==
  /\ pc = "poll" /\ ~Closes
  /\ send_mbuf > 0
  /\ send_mbuf' = 0
  /\ answers' = answers + send_mbuf
  /\ UNCHANGED <<client, pc, recv_mbuf, rcvd, upload, flags, form>>

-----------------------------------------------------------------------------
\* mg_http_handler with MG_EV_RECV.

HeadIncomplete ==
  /\ pc = "parse" /\ req_len = 0
  /\ flags' = IF Len(recv_mbuf) >= MG_MAX_HTTP_REQUEST_SIZE
              THEN flags \cup {"CLOSE_IMMEDIATELY"} ELSE flags
  /\ pc' = "poll"
  /\ UNCHANGED <<client, buffers, answers, upload, form>>

\* mg_http_multipart_begin, and the loop of mg_http_multipart_continue.
MultipartBegin ==
  /\ pc = "parse" /\ req_len > 0 /\ request.kind = "upload"
  /\ mp' = [Boundless EXCEPT !.boundary = TRUE, !.state = "WAITING_FOR_BOUNDARY"]
  /\ MultipartRequest
  /\ mbuf_remove(req_len)
  /\ pc' = "multipart"
  /\ UNCHANGED <<client, rcvd, answers, astray, form>>

message_len == req_len + Len(Body(request))

\* The body is waited for.
BodyIncomplete ==
  /\ pc = "parse" /\ req_len > 0 /\ request.kind # "upload"
  /\ message_len > rcvd
  /\ pc' = "poll"
  /\ UNCHANGED <<client, buffers, answers, upload, flags, form>>

\* Mutant: the handler is called as soon as there is a head.
RequestDone_AnyBody ==
  /\ pc = "parse" /\ req_len > 0 /\ request.kind # "upload"
  /\ IF request.kind = "form"
     THEN HttpRequest(SubSeq(recv_mbuf, req_len + 1, Len(recv_mbuf))) /\ recv_mbuf' = <<>>
     ELSE mbuf_remove(message_len) /\ UNCHANGED <<send_mbuf, flags, form>>
  /\ rcvd' = 0
  /\ pc' = "poll"
  /\ UNCHANGED <<client, answers, upload>>

\* Mutant: the handler leaves the buffer as it is.
RequestDone_KeepsBuffer ==
  /\ pc = "parse" /\ req_len > 0 /\ request.kind # "upload"
  /\ message_len <= rcvd
  /\ IF request.kind = "form"
     THEN HttpRequest(SubSeq(recv_mbuf, req_len + 1, Len(recv_mbuf))) /\ UNCHANGED recv_mbuf
     ELSE mbuf_remove(message_len) /\ UNCHANGED <<send_mbuf, flags, form>>
  /\ rcvd' = 0
  /\ pc' = "poll"
  /\ UNCHANGED <<client, answers, upload>>

\* The request is whole.  handle_ota_update has no answer to one that is not
\* multipart.
RequestDone ==
  /\ pc = "parse" /\ req_len > 0 /\ request.kind # "upload"
  /\ message_len <= rcvd
  /\ IF request.kind = "form"
     THEN HttpRequest(SubSeq(recv_mbuf, req_len + 1, Len(recv_mbuf))) /\ recv_mbuf' = <<>>
     ELSE mbuf_remove(message_len) /\ UNCHANGED <<send_mbuf, flags, form>>
  /\ rcvd' = 0
  /\ pc' = "poll"
  /\ UNCHANGED <<client, answers, upload>>

-----------------------------------------------------------------------------
\* mg_http_multipart_continue.

In(state) == pc = "multipart" /\ mp.state = state
Enter(state) == mp' = [mp EXCEPT !.state = state]

boundary == c_strnstr(Boundary)
boundary_end == boundary + Len(Boundary)

\* More bytes are needed.
Waits == pc' = "poll" /\ UNCHANGED <<client, buffers, answers, upload, flags, form>>
Unsent == UNCHANGED <<client, rcvd, send_mbuf, answers, flags, form>>

\* Mutant: more than the end of the last boundary is waited for.
wait_for_boundary_WantsMore ==
  /\ In("WAITING_FOR_BOUNDARY")
  /\ IF boundary = 0 \/ Len(recv_mbuf) - boundary_end + 1 <= 4
     THEN Waits
     ELSE /\ IF SubSeq(recv_mbuf, boundary_end, boundary_end + 3) = Dashes \o CRLF
             THEN Enter("FINALIZE") /\ mbuf_remove(boundary_end + 3)
             ELSE Enter("GOT_BOUNDARY") /\ UNCHANGED recv_mbuf
          /\ UNCHANGED <<pc, seen, astray>> /\ Unsent

wait_for_boundary ==
  /\ In("WAITING_FOR_BOUNDARY")
  /\ IF boundary = 0 \/ Len(recv_mbuf) - boundary_end + 1 < 4
     THEN Waits
     ELSE /\ IF SubSeq(recv_mbuf, boundary_end, boundary_end + 3) = Dashes \o CRLF
             THEN Enter("FINALIZE") /\ mbuf_remove(boundary_end + 3)
             ELSE Enter("GOT_BOUNDARY") /\ UNCHANGED recv_mbuf
          /\ UNCHANGED <<pc, seen, astray>> /\ Unsent

\* The empty line after the boundary's line, 0 if it is not there yet.
EmptyLine ==
  LET first == boundary_end + 2
      lines == {i \in first..Len(recv_mbuf) - 1 :
                  /\ i = first \/ recv_mbuf[i - 1] = "\n"
                  /\ SubSeq(recv_mbuf, i, i + 1) = CRLF}
  IN  IF lines = {} THEN 0 ELSE Min(lines)

\* The part that is next.
Begun == IF astray THEN seen.part ELSE seen.part + 1

\* The line of the type is the last that is whole.  It is not counted, and so the
\* empty line is also looked for behind the end of the buffer.
TypeLine ==
  /\ boundary_end + 7 <= Len(recv_mbuf)
  /\ SubSeq(recv_mbuf, boundary_end + 5, boundary_end + 7) = <<"type">> \o CRLF

Past == Len(recv_mbuf) + 1

\* Where the empty line is found, 0 if it is not.
EmptyLines ==
  IF EmptyLine # 0 THEN {EmptyLine} ELSE IF TypeLine THEN {0, Past} ELSE {0}

\* Mutant: it is looked for again at once.
process_boundary_incomplete_Loops ==
  /\ In("GOT_BOUNDARY") /\ 0 \in EmptyLines
  /\ mp.processing_part = 0 \/ seen.phase = "part"
  /\ Enter("WAITING_FOR_BOUNDARY")
  /\ UNCHANGED <<pc, recv_mbuf, seen, astray>> /\ Unsent

\* A part whose head is not complete is looked for again.
process_boundary_incomplete ==
  /\ In("GOT_BOUNDARY") /\ 0 \in EmptyLines
  /\ mp.processing_part = 0 \/ seen.phase = "part"
  /\ Enter("WAITING_FOR_BOUNDARY")
  /\ pc' = "poll"
  /\ UNCHANGED <<recv_mbuf, seen, astray>> /\ Unsent

\* The part before is ended,
process_boundary_part_end ==
  /\ In("GOT_BOUNDARY") /\ EmptyLines # {0}
  /\ mp.processing_part # 0
  /\ seen.phase # "between"
  /\ seen' = [seen EXCEPT !.phase = "between"]
  /\ UNCHANGED <<pc, recv_mbuf, mp, astray>> /\ Unsent

\* and the next one begun, or the same one again if that was too early.
process_boundary ==
  /\ In("GOT_BOUNDARY")
  /\ mp.processing_part = 0 \/ seen.phase = "between"
  /\ \E line \in EmptyLines \ {0} :
       /\ mbuf_remove(line + 1)
       /\ astray' = (line = Past)
  /\ seen' = [phase |-> "part", part |-> Begun,
              name |-> recv_mbuf[boundary_end + 2], got |-> <<>>]
  /\ mp' = [mp EXCEPT !.state = "WAITING_FOR_CHUNK", !.processing_part = Begun]
  /\ UNCHANGED pc /\ Unsent

\* A size that is negative is a huge one to the handler.
Chunk(size) ==
  seen' = [seen EXCEPT !.got = IF size < 0 THEN <<"memory">>
                                           ELSE @ \o SubSeq(recv_mbuf, 1, size)]

\* Mutant: only a boundary may be cut in two, not the line end before it.
wait_for_chunk_KeepsLess ==
  /\ In("WAITING_FOR_CHUNK")
  /\ IF Len(recv_mbuf) < Len(Boundary) + 6 THEN Waits
     ELSE LET size == IF boundary = 0 THEN Len(recv_mbuf) - (Len(Boundary) + 2)
                                      ELSE boundary - 1 - 4
          IN  /\ Chunk(size)
              /\ IF boundary = 0
                 THEN pc' = "poll" /\ mbuf_remove(size) /\ UNCHANGED mp
                 ELSE Enter("WAITING_FOR_BOUNDARY") /\ mbuf_remove(boundary - 1)
                      /\ UNCHANGED pc
              /\ UNCHANGED astray /\ Unsent

\* Data up to a boundary, or up to where one may have begun that is not there
\* yet with what surrounds it.
wait_for_chunk ==
  /\ In("WAITING_FOR_CHUNK")
  /\ IF Len(recv_mbuf) < Len(Boundary) + 6 THEN Waits
     ELSE LET size == IF boundary = 0 THEN Len(recv_mbuf) - (Len(Boundary) + 6)
                                      ELSE boundary - 1 - 4
          IN  /\ Chunk(size)
              /\ IF boundary = 0
                 THEN pc' = "poll" /\ mbuf_remove(size) /\ UNCHANGED mp
                 ELSE Enter("WAITING_FOR_BOUNDARY") /\ mbuf_remove(boundary - 1)
                      /\ UNCHANGED pc
              /\ UNCHANGED astray /\ Unsent

\* mg_http_multipart_finalize ends the part,
finalize_part ==
  /\ In("FINALIZE")
  /\ seen.phase = "part"
  /\ seen' = [seen EXCEPT !.phase = "between"]
  /\ UNCHANGED <<pc, recv_mbuf, mp, astray>> /\ Unsent

\* and then the request.
finalize ==
  /\ In("FINALIZE")
  /\ seen.phase = "between"
  /\ MultipartRequestEnd("ended", "poll")
  /\ recv_mbuf' = <<>>
  /\ mp' = [Boundless EXCEPT !.state = "FINISHED"]
  /\ UNCHANGED <<client, rcvd, answers, astray, form>>

-----------------------------------------------------------------------------
\* The client goes away, and what it had still to send with it.
ClientLeaves ==
  /\ peer = "open" /\ pc \notin {"closed", "restarted"}
  /\ peer' \in {"shut", "reset"}
  /\ UNCHANGED <<request, pos, pc, buffers, answers, upload, flags, form>>

Multipart ==
  \/ wait_for_boundary \/ process_boundary_incomplete \/ process_boundary_part_end
  \/ process_boundary \/ wait_for_chunk \/ finalize_part \/ finalize

Parse == HeadIncomplete \/ MultipartBegin \/ BodyIncomplete \/ RequestDone

Poll == Close \/ CloseEndsRequest \/ ReceiveEnd \/ Send

Next ==
  \/ Poll \/ (\E n \in 1..Len(Stream) - pos : Receive(n))
  \/ Parse \/ Multipart
  \/ ClientLeaves

Spec == Init /\ [][Next]_vars

\* The mongoose task runs; a client need not send anything.
FairSpec == Spec /\ WF_vars(Poll \/ Parse \/ Multipart)

-----------------------------------------------------------------------------
TypeOK ==
  /\ request \in Requests
  /\ LET sent == Stream
     IN  /\ pos \in 0..Len(sent)
         /\ \E n \in 0..pos : recv_mbuf = SubSeq(sent, n + 1, pos)
  /\ peer \in {"open", "shut", "reset"}
  /\ pc \in {"poll", "parse", "multipart", "lost", "closed", "restarted"}
  /\ astray \in BOOLEAN
  /\ rcvd \in {0, pos}
  /\ send_mbuf \in Nat /\ answers \in Nat
  /\ mp.state \in {"BEGIN", "WAITING_FOR_BOUNDARY", "WAITING_FOR_CHUNK",
                   "GOT_BOUNDARY", "FINALIZE", "FINISHED"}
  /\ mp.boundary \in BOOLEAN /\ mp.processing_part \in Nat
  /\ flags \subseteq {"SEND_AND_CLOSE", "CLOSE_IMMEDIATELY"}
  /\ seen.phase \in {"idle", "between", "part", "ended", "lost", "aborted"}

\* A request is answered once, but for an upload that was refused: what the
\* handlers have put into send_mbuf is a second answer only there, whenever the
\* connection closes.
AnsweredOnce ==
  send_mbuf + answers <= IF request.kind = "upload" /\ ~request.allowed THEN 2 ELSE 1

\* The length of the data that is passed on, which is what lies before a boundary
\* less the line end and the dashes, is not negative.
ChunkInBuffer == In("WAITING_FOR_CHUNK") /\ boundary # 0 => boundary - 1 >= 4

\* What the loop of mg_http_multipart_continue has still to do.
Work ==
  2 * Len(recv_mbuf) + (IF mp.state = "WAITING_FOR_BOUNDARY" THEN 1 ELSE 0)
    + (IF seen.phase = "part" THEN 1 ELSE 0)

\* Wherever the portions of an upload end, each turn of the loop takes data from
\* the buffer only, and leaves the loop or leaves less to do, but for a part that
\* is begun too early: nothing else keeps the one task of the web server in it.
ParserAdvances ==
  [][pc = "multipart" /\ ~astray' =>
       ChunkInBuffer /\ (pc' # "multipart" \/ Work' < Work)]_<<pc, recv_mbuf, upload>>

PartsOf(r) == IF r.kind = "upload" THEN r.parts ELSE <<>>

Events == INSTANCE UploadEvents WITH
  Messages <- {PartsOf(r) : r \in Requests},
  parts <- PartsOf(request), phase <- seen.phase, part <- seen.part,
  name <- seen.name, got <- seen.got

\* However the bytes of an upload are cut into portions, handle_ota_update is
\* told of its parts in their order and gets the data of each whole and nothing
\* else, and one end, until a part is begun too early and again when it has been
\* begun anew: the search for the boundary in wait_for_chunk and
\* wait_for_boundary neither loses nor doubles a byte.
ImplementsEvents == Events!Init /\ [][Events!Next \/ astray \/ astray']_(Events!vars)

\* mongoose.h says that the ends of the part and of the request are delivered as
\* well when the connection was terminated.
EndIsDelivered ==
  seen.phase # "idle" /\ peer # "open"
    ~> seen.phase \in {"ended", "aborted"} \/ pc = "restarted"

\* A form that is handled while its client is there is the whole form: the
\* handler is called when Content-Length bytes have come, and not before.
FormIsWhole == form.handled /\ peer = "open" => pos = Len(Stream)

\* What handleConnectWifi reads from a whole form is what was typed, as far as
\* its variable holds it.  A form that is cut off with its connection is handled
\* too, and then less is read but nothing else, unless it was cut in an escape:
\* the variable has then no end.
FieldsAreRead ==
  LET Typed(value) == SubSeq(value, 1, Min({Len(value), FieldSize - 1}))
      ReadOf(field, value) ==
        IF pos = Len(Stream) THEN field = [text |-> Typed(value), ended |-> TRUE]
                             ELSE IsPrefix(field.text, Typed(value))
  IN  form.handled => /\ ReadOf(form.ssid, request.fields.ssid)
                      /\ ReadOf(form.pwd, request.fields.pwd)

\* A request that was sent whole is answered unless its client leaves.  A head
\* that is longer than the limit may be refused, what is sent to /ota_update in
\* no parts has no answer, an upload that ends in a restart has none, and one
\* whose part was begun too early may have none.
WholeIsAnswered ==
  (/\ pos = Len(Stream)
   /\ request.head <= MG_MAX_HTTP_REQUEST_SIZE /\ request.kind # "other")
     ~> \/ answers > 0 \/ peer # "open"
        \/ request.kind = "upload" /\ (pc = "restarted" \/ astray)
=============================================================================
