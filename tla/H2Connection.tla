---------------------------- MODULE H2Connection ----------------------------
(***************************************************************************)
(* One HTTP/2 connection of a server (wptserve/server.py,                  *)
(* Http2WebTestRequestHandler).  The connection thread receives frames and *)
(* puts each into the queue of a thread for its stream, which it starts for *)
(* a frame of a stream that is not registered; the stream threads handle   *)
(* requests and write the responses (response.py, H2ResponseWriter).       *)
(*                                                                         *)
(* The frame that ends a request ends the registration, and the h2 library *)
(* reports it twice: a thread of its own is started for the second report, *)
(* and for every later frame of the stream.  Frames of the whole           *)
(* connection, as WINDOW_UPDATE, have stream 0.                            *)
(*                                                                         *)
(* The lock belongs to the class: connections of the server process share  *)
(* it, and it is held while data is sent to a client that may not read.    *)
(* Websockets, pushed streams and trailers are left out.  The client's      *)
(* settings are those of its preface, and the windows of streams are not    *)
(* smaller than that of the connection.                                    *)
(***************************************************************************)
EXTENDS Integers, Sequences, FiniteSets

CONSTANTS
  Stream,               \* streams of requests
  Zero,                 \* stream 0
  Upload,               \* those of requests that may have a body
  Noisy,                \* streams of frames that are no part of a request
  Leaving,              \* how the client may leave
  MaxData,              \* bound on the DATA frames of a request
  MaxBody,              \* the length of a response that is not empty
  MaxFrameSize,         \* the client's max_frame_size
  Window,               \* the client's flow control window when it is full
  MaxOthers,            \* bound on these frames
  MaxBatch              \* bound on the frames of one recv

ASSUME ZeroAssumption == Zero \notin Stream
ASSUME StreamsAssumption == Upload \subseteq Stream /\ Noisy \subseteq Stream \union {Zero}
ASSUME LeavingAssumption == Leaving \subseteq {"eof", "gone"}
ASSUME NumbersAssumption ==
  /\ MaxData \in Nat
  /\ MaxBody \in Nat
  /\ MaxFrameSize \in Nat \ {0}
  /\ Window \in Nat \ {0}
  /\ MaxOthers \in Nat
  /\ MaxBatch \in Nat

VARIABLES
  peer,                 \* the client's side of the socket
  sent,                 \* sent[s]: how far the client is with its request
  body,                 \* body[s]: DATA frames it has sent
  others,               \* frames it has sent that are no part of a request
  conn,                 \* where the connection thread is
  close,                \* close_connection
  synced,               \* the H2Connection has seen the client's preface
  frames,               \* frames received and not yet dispatched
  joining,              \* the stream whose thread is being joined
  reg,                  \* stream_queues: reg[s] is the thread of s, 0 if none
  started,              \* started[s]: number of threads started for s
  pc,                   \* where the stream threads are
  queue,                \* their queues
  got,                  \* got[t]: DATA frames t has handled
  left,                 \* left[t]: what t has to write (data_len)
  size,                 \* size[t]: payload_size
  stuck,                \* a sender that is blocked holds H2ConnectionGuard.lock
  window,               \* what the client lets the server send
  answer,               \* answer[s]: what has become of the request
  overlap               \* two responses have been written at the same time

client == <<peer, sent, body, others>>
receiver == <<conn, close, synced, frames, joining>>
threads == <<reg, started, pc, queue, got>>
writers == <<left, size, stuck, window, answer, overlap>>
vars == <<client, receiver, threads, writers>>

AnyStream == Stream \union {Zero}
\* Two for the two reports of the end of a request, one for later frames.
Thread == AnyStream \X (1..3)
NoStream == "none"
ASSUME NoStreamAssumption == NoStream \notin AnyStream

\* Frames as the h2 library reports them: RequestReceived, DataReceived (with
\* and without stream_ended), StreamEnded, StreamReset, ConnectionTerminated,
\* and WindowUpdated or PriorityUpdated; finally, None.
StreamFrame == {"req", "reqEnd", "data", "dataEnd", "ended", "rst", "other"}
Frame == StreamFrame \union {"goaway", "none"}

Reading == {"idle", "request"}        \* in queue.get, without and with a request
Writing == {"headers", "size", "data", "end"}

TypeOK ==
  /\ peer \in {"there", "eof", "gone"}
  /\ sent \in [Stream -> {"idle", "open", "ended", "reset"}]
  /\ body \in [Stream -> 0..MaxData]
  /\ others \in 0..MaxOthers
  /\ conn \in {"setup", "recv", "dispatch", "finally", "again", "ended"}
  /\ close \in BOOLEAN
  /\ synced \in BOOLEAN
  /\ frames \in Seq(AnyStream \X Frame)
  /\ joining \in AnyStream \union {NoStream}
  /\ reg \in [AnyStream -> 0..3]
  /\ started \in [AnyStream -> 0..3]
  /\ pc \in [Thread -> {"none", "done"} \union Reading \union Writing]
  /\ queue \in [Thread -> Seq(Frame)]
  /\ got \in [Thread -> 0..MaxData]
  /\ left \in [Thread -> 0..MaxBody]
  /\ size \in [Thread -> -1..MaxFrameSize]
  /\ stuck \in BOOLEAN
  /\ window \in 0..Window
  /\ answer \in [Stream -> {"none", "over", "cut"}]
  /\ overlap \in BOOLEAN

Init ==
  /\ peer = "there"
  /\ sent = [s \in Stream |-> "idle"]
  /\ body = [s \in Stream |-> 0]
  /\ others = 0
  /\ conn = "setup"
  /\ close = FALSE
  /\ synced = TRUE
  /\ frames = <<>>
  /\ joining = NoStream
  /\ reg = [s \in AnyStream |-> 0]
  /\ started = [s \in AnyStream |-> 0]
  /\ pc = [t \in Thread |-> "none"]
  /\ queue = [t \in Thread |-> <<>>]
  /\ got = [t \in Thread |-> 0]
  /\ left = [t \in Thread |-> 0]
  /\ size = [t \in Thread |-> 0]
  /\ stuck = FALSE
  /\ window = Window
  /\ answer = [s \in Stream |-> "none"]
  /\ overlap = FALSE

\* The H2Connection has seen GOAWAY or an error: it sends and takes no more.
H2Closed ==
  \/ close
  \/ ~synced
  \/ \E i \in 1..Len(frames) : frames[i][2] = "goaway"

-----------------------------------------------------------------------------
(* The client                                                              *)

\* Frames fs of stream s arrive, in one recv with what is not yet dispatched.
Arrive(s, fs) ==
  /\ peer = "there"
  /\ ~stuck
  /\ \/ conn = "recv"
     \/ conn = "dispatch" /\ frames # <<>>
  /\ ~H2Closed
  /\ Len(frames) + Len(fs) <= MaxBatch
  /\ conn' = "dispatch"
  /\ frames' = frames \o [i \in 1..Len(fs) |-> <<s, fs[i]>>]
  /\ UNCHANGED <<peer, close, synced, joining, threads, left, size, stuck, answer, overlap>>

\* HEADERS, with END_STREAM or without.
Request(s) ==
  /\ sent[s] = "idle"
  /\ \/ /\ s \in Upload
        /\ Arrive(s, <<"req">>)
        /\ sent' = [sent EXCEPT ![s] = "open"]
     \/ /\ Arrive(s, <<"reqEnd", "ended">>)
        /\ sent' = [sent EXCEPT ![s] = "ended"]
  /\ UNCHANGED <<body, others, window>>

Data(s) ==
  /\ sent[s] = "open"
  /\ body[s] < MaxData
  /\ body' = [body EXCEPT ![s] = @ + 1]
  /\ \/ /\ Arrive(s, <<"data">>)
        /\ UNCHANGED sent
     \/ /\ Arrive(s, <<"dataEnd", "ended">>)
        /\ sent' = [sent EXCEPT ![s] = "ended"]
  /\ UNCHANGED <<others, window>>

\* The bound on frames that are no part of a request.
Another ==
  /\ others < MaxOthers
  /\ others' = others + 1

\* RST_STREAM, of which h2 tells unless the stream is closed.
Reset(s) ==
  /\ s \in Stream
  /\ sent[s] \in {"open", "ended"}
  /\ answer[s] = "none"
  /\ Another
  /\ Arrive(s, <<"rst">>)
  /\ sent' = [sent EXCEPT ![s] = "reset"]
  /\ UNCHANGED <<body, window>>

\* PRIORITY for a stream in any state, WINDOW_UPDATE.
Other(s) ==
  /\ Another
  /\ Arrive(s, <<"other">>)
  /\ window' = IF s = Zero THEN Window ELSE window
  /\ UNCHANGED <<sent, body>>

GoAway ==
  /\ Arrive(Zero, <<"goaway">>)
  /\ UNCHANGED <<sent, body, others, window>>

\* The client shuts its side down, or closes the socket with data unread.
PeerLeaves ==
  /\ peer = "there"
  /\ peer' \in Leaving
  /\ UNCHANGED <<sent, body, others, receiver, threads, writers>>

-----------------------------------------------------------------------------
(* The connection thread: handle_one_request                               *)

Setup ==
  /\ conn = "setup"
  /\ ~stuck
  /\ close' = FALSE
  /\ conn' = IF peer = "gone" THEN "ended" ELSE "recv"
  /\ UNCHANGED <<client, synced, frames, joining, threads, writers>>

\* recv raises OSError.
RecvFails ==
  /\ conn = "recv"
  /\ peer = "gone"
  /\ close' = TRUE
  /\ conn' = "finally"
  /\ UNCHANGED <<client, synced, frames, joining, threads, writers>>

\* receive_data raises.  The loop of handle starts over with a new
\* H2Connection, for which anything the client sends is no preface.
Unexpected ==
  /\ conn = "recv"
  /\ peer = "there"
  /\ ~stuck
  /\ synced' = FALSE
  /\ conn' = "finally"
  /\ UNCHANGED <<client, close, frames, joining, threads, writers>>

\* recv returns b'', which is not '' and has no frames.
RecvNothing ==
  /\ conn = "recv"
  /\ peer = "eof"
  /\ ~stuck
  /\ conn' = "dispatch"
  /\ UNCHANGED <<client, close, synced, frames, joining, threads, writers>>

\* A mutant of EndsStream: DATA ends the registration, whatever its flags.
EndsStreamByData(f) == f \in {"reqEnd", "data", "dataEnd", "ended"}

\* StreamEnded, or a frame with stream_ended.
EndsStream(f) == f \in {"reqEnd", "dataEnd", "ended"}

\* The head of the loop of a stream thread, which goes on to be at p.
Loop(p) == IF close THEN "done" ELSE p

\* The queue of t after queue.put(f), where t is at p.
Put(t, p, f) == IF p \in Reading THEN Append(queue[t], f) ELSE <<>>

\* queue.put, after the start of a thread if the stream has none.
Dispatch(s, f) ==
  LET new == reg[s] = 0
      k == IF new THEN started[s] + 1 ELSE reg[s]
      t == <<s, k>>
      p == IF new THEN Loop("idle") ELSE pc[t]
  IN /\ started' = [started EXCEPT ![s] = IF new THEN k ELSE @]
     /\ pc' = [pc EXCEPT ![t] = p]
     /\ queue' = [queue EXCEPT ![t] = Put(t, p, f)]
     /\ reg' = [reg EXCEPT ![s] = IF EndsStream(f) THEN 0 ELSE k]
     /\ UNCHANGED close

\* ConnectionTerminated goes to all that are registered.
Terminated ==
  /\ close' = TRUE
  /\ queue' = [t \in Thread |-> IF reg[t[1]] = t[2] THEN Put(t, pc[t], "goaway") ELSE queue[t]]
  /\ UNCHANGED <<reg, started, pc>>

DispatchNext ==
  /\ conn = "dispatch"
  /\ frames # <<>>
  /\ LET f == Head(frames) IN
       IF f[2] = "goaway" THEN Terminated ELSE Dispatch(f[1], f[2])
  /\ frames' = Tail(frames)
  /\ UNCHANGED <<client, conn, synced, joining, got, writers>>

Dispatched ==
  /\ conn = "dispatch"
  /\ frames = <<>>
  /\ conn' = IF close THEN "finally" ELSE "recv"
  /\ UNCHANGED <<client, close, synced, frames, joining, threads, writers>>

\* A mutant of PutNone: the threads are joined only.
JoinOnly(s) ==
  /\ conn = "finally"
  /\ joining = NoStream
  /\ reg[s] # 0
  /\ joining' = s
  /\ UNCHANGED <<client, conn, close, synced, frames, threads, writers>>

PutNone(s) ==
  /\ conn = "finally"
  /\ joining = NoStream
  /\ reg[s] # 0
  /\ LET t == <<s, reg[s]>> IN queue' = [queue EXCEPT ![t] = Put(t, pc[t], "none")]
  /\ joining' = s
  /\ UNCHANGED <<client, conn, close, synced, frames, reg, started, pc, got, writers>>

Join(s) ==
  /\ joining = s
  /\ pc[<<s, reg[s]>>] = "done"
  /\ reg' = [reg EXCEPT ![s] = 0]
  /\ joining' = NoStream
  /\ UNCHANGED <<client, conn, close, synced, frames, started, pc, queue, got, writers>>

AllJoined ==
  /\ conn = "finally"
  /\ \A s \in AnyStream : reg[s] = 0
  /\ conn' = "again"
  /\ UNCHANGED <<client, close, synced, frames, joining, threads, writers>>

\* The loop of BaseHTTPRequestHandler.handle.
HandleLoop ==
  /\ conn = "again"
  /\ conn' = IF close THEN "ended" ELSE "setup"
  /\ UNCHANGED <<client, close, synced, frames, joining, threads, writers>>

-----------------------------------------------------------------------------
(* A stream thread: _stream_thread                                         *)

\* queue.get returns frame f, and the thread goes on to be at p.  Only what is
\* read is kept in a queue.
Get(t, f, p) ==
  /\ queue[t] # <<>>
  /\ f = Head(queue[t])
  /\ queue' = [queue EXCEPT ![t] = IF p \in Reading THEN Tail(@) ELSE <<>>]
  /\ pc' = [pc EXCEPT ![t] = p]
  /\ UNCHANGED <<client, receiver, reg, started, size, stuck, window, answer, overlap>>

\* A mutant of AfterFrame: the response is written once the headers are there.
AfterHeaders(f) == IF f \in {"req", "reqEnd", "dataEnd"} THEN "headers" ELSE Loop("request")

\* finish_handling for a frame with stream_ended.
AfterFrame(f) == IF f \in {"reqEnd", "dataEnd"} THEN "headers" ELSE Loop("request")

\* The length of the response is known when a thread goes on to write it.
Respond(t, p) ==
  \E n \in IF p = "headers" THEN {0, MaxBody} ELSE {0} : left' = [left EXCEPT ![t] = n]

GetRequest(t) ==
  /\ pc[t] \in Reading
  /\ \E f \in {"req", "reqEnd"} : Get(t, f, AfterFrame(f)) /\ Respond(t, AfterFrame(f))
  /\ UNCHANGED got

\* DATA goes to the pipe from which the request is read.
GetData(t) ==
  /\ pc[t] = "request"
  /\ \E f \in {"data", "dataEnd"} : Get(t, f, AfterFrame(f)) /\ Respond(t, AfterFrame(f))
  /\ got' = [got EXCEPT ![t] = @ + 1]

GetOther(t) ==
  /\ pc[t] \in Reading
  /\ Get(t, "other", Loop(pc[t]))
  /\ UNCHANGED <<got, left>>

GetEnd(t) ==
  /\ pc[t] \in Reading
  /\ \E f \in {"ended", "rst", "goaway", "none"} : Get(t, f, "done")
  /\ UNCHANGED <<got, left>>

\* The loop sees close_connection, at once or after a second without a frame.
SeesClose(t) ==
  /\ pc[t] \in Reading
  /\ close
  /\ pc' = [pc EXCEPT ![t] = "done"]
  /\ queue' = [queue EXCEPT ![t] = <<>>]
  /\ UNCHANGED <<client, receiver, reg, started, got, writers>>

-----------------------------------------------------------------------------
(* The writer of a response: H2ResponseWriter                              *)

\* A step from p to q with the lock, after which n is left to be written.
Write(t, p, q, n) ==
  /\ pc[t] = p
  /\ pc' = [pc EXCEPT ![t] = q]
  /\ left' = [left EXCEPT ![t] = n]
  /\ ~stuck
  /\ UNCHANGED <<client, receiver, reg, started, queue, got, stuck>>

\* The last step, with outcome a; size is of no use any more.
LastWrite(t, p, a) ==
  /\ Write(t, p, "done", 0)
  /\ size' = [size EXCEPT ![t] = 0]
  /\ answer' = [answer EXCEPT ![t[1]] = a]
  /\ UNCHANGED overlap

Works(t) ==
  /\ ~H2Closed
  /\ sent[t[1]] # "reset"
  /\ peer # "gone"

WriteHeaders(t) ==
  /\ Works(t)
  /\ Write(t, "headers", IF left[t] > 0 THEN "size" ELSE "end", left[t])
  /\ overlap' = (overlap \/ \E u \in Thread : pc[u] \in {"size", "data"})
  /\ UNCHANGED <<size, window, answer>>

\* payload_size becomes n.
Size(t, n) ==
  /\ Works(t)
  /\ Write(t, "size", "data", left[t])
  /\ size' = [size EXCEPT ![t] = n]
  /\ UNCHANGED <<window, answer, overlap>>

\* A mutant of GetMaxPayloadSize: the flow control window is not asked for.
FrameSizeOnly(t) == Size(t, MaxFrameSize - 1)

\* get_max_payload_size.  The unit of lengths is the 9 bytes it leaves unused.
GetMaxPayloadSize(t) ==
  Size(t, (IF window < MaxFrameSize THEN window ELSE MaxFrameSize) - 1)

\* data.read(payload_size), where a negative number reads all.  (data_len grows
\* then, and so does the number of empty frames that follow.)
Chunk(t) == IF size[t] \in 0..left[t] THEN size[t] ELSE left[t]

\* The frame leaves, with what follows.
SendChunk(t) ==
  /\ Works(t)
  /\ window' = window - Chunk(t)
  /\ \/ /\ left[t] > size[t]
        /\ Write(t, "data", "size", left[t] - Chunk(t))
        /\ size' = [size EXCEPT ![t] = 0]
        /\ UNCHANGED <<answer, overlap>>
     \/ /\ left[t] <= size[t]
        /\ LastWrite(t, "data", "over")

\* A mutant of WriteDataFrame: nobody looks at the flow control window.
WriteRawDataFrame(t) == SendChunk(t)

WriteDataFrame(t) ==
  /\ Chunk(t) <= window
  /\ SendChunk(t)

\* send_data raises FlowControlError, which nobody catches.
FlowControlError(t) ==
  /\ Works(t)
  /\ Chunk(t) > window
  /\ LastWrite(t, "data", "cut")
  /\ UNCHANGED window

EndStream(t) ==
  /\ Works(t)
  /\ LastWrite(t, "end", "over")
  /\ UNCHANGED window

\* StreamClosedError, ProtocolError, or an OSError of sendall.
WriteFails(t) ==
  /\ Works(t) => peer = "eof"
  /\ \E p \in Writing : LastWrite(t, p, "over")
  /\ UNCHANGED window

\* sendall waits for a client that does not read, on this connection or on
\* another of the process, or goes on.
Send ==
  /\ stuck' = ~stuck
  /\ UNCHANGED <<client, receiver, threads, left, size, window, answer, overlap>>

-----------------------------------------------------------------------------

Client ==
  \/ GoAway
  \/ PeerLeaves
  \/ Unexpected
  \/ \E s \in Stream : Request(s) \/ Data(s)
  \/ \E s \in Noisy : Other(s) \/ Reset(s)

ConnectionThread ==
  \/ Setup
  \/ RecvFails
  \/ RecvNothing
  \/ DispatchNext
  \/ Dispatched
  \/ \E s \in AnyStream : PutNone(s) \/ Join(s)
  \/ AllJoined
  \/ HandleLoop

\* finish_handling.  It also closes the connection for a response with
\* close_connection, which no handler sets over HTTP/2: as_is_handler, the only
\* one that does, fails before it (H2ResponseWriter has no write_raw_content).
Writer(t) ==
  \/ WriteHeaders(t)
  \/ GetMaxPayloadSize(t)
  \/ WriteDataFrame(t)
  \/ FlowControlError(t)
  \/ EndStream(t)
  \/ WriteFails(t)

Reader(t) ==
  \/ GetRequest(t)
  \/ GetData(t)
  \/ GetOther(t)
  \/ GetEnd(t)
  \/ SeesClose(t)

StreamThread(t) ==
  \/ pc[t] \in Reading /\ Reader(t)
  \/ pc[t] \in Writing /\ Writer(t)

Next ==
  \/ Client
  \/ ConnectionThread
  \/ Send
  \/ \E t \in Thread : StreamThread(t)

\* Threads run; nobody waits for the client.
Fairness ==
  /\ WF_vars(ConnectionThread)
  /\ \A t \in Thread : WF_vars(StreamThread(t))

Spec == Init /\ [][Next]_vars

FairSpec == Spec /\ Fairness

-----------------------------------------------------------------------------
(* Properties                                                              *)

\* A stream thread that waits is registered, so that the connection thread
\* joins it, or has got the frame after which it ends.
NoThreadForgotten ==
  \A t \in Thread : pc[t] \in Reading =>
    \/ reg[t[1]] = t[2]
    \/ close
    \/ \E i \in 1..Len(queue[t]) : queue[t][i] \notin {"req", "data", "other"}

\* A response is written by one thread, which has had the whole request, even
\* if frames of the stream went to other threads.
WholeRequest ==
  \A s \in Stream : \A j, k \in 1..3 :
    pc[<<s, j>>] \in Writing /\ pc[<<s, k>>] \in Writing =>
      j = k /\ got[<<s, j>>] = body[s] /\ sent[s] # "open"

\* payload_size is stale when it is used; still, a response is cut only if
\* another was being written at the same time.
CutOnlyByOverlap == \A s \in Stream : answer[s] = "cut" => overlap

\* From some time on no sender is blocked.
SendersGoOn == <>[]~stuck

AllThreadsEnded == conn = "ended" /\ \A t \in Thread : pc[t] \in {"none", "done"}

\* After GOAWAY, or when the client has closed the socket, the connection
\* thread and all threads of streams end, unless one is blocked with the lock.
ConnectionEnds == SendersGoOn => (close \/ peer = "gone" ~> AllThreadsEnded)

\* "Socket Closed" (server.py): the end of the client's data ends the connection.
EofEndsConnection == SendersGoOn => (peer = "eof" ~> conn = "ended")
=============================================================================
