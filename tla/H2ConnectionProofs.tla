------------------------- MODULE H2ConnectionProofs -------------------------
(***************************************************************************)
(* Proofs about H2Connection, for any streams, bodies and windows.         *)
(*                                                                         *)
(* Of a request, a frame is in the batch, in a queue, or handled.  All of  *)
(* it goes to the first thread of its stream (Starts, Threads) in the      *)
(* order in which it was sent (Order), so that this thread has all DATA    *)
(* when it writes (Bodies).  A thread waits only while it is registered or *)
(* has a frame in its queue that ends the wait.  A response that has been  *)
(* alone finds the window as it was when payload_size was computed (Flow). *)
(***************************************************************************)
EXTENDS H2Connection, FunctionTheorems, FiniteSetTheorems, SequenceTheorems, TLAPS

-----------------------------------------------------------------------------
(* Queues.  Of a queue the proofs use only what of E there is in it, how   *)
(* much of it, and what comes after what.                                  *)

Has(q, E) == \E i \in 1..Len(q) : q[i] \in E

\* After an element of A there is none of B.
After(q, A, B) == \A i, j \in 1..Len(q) : i < j /\ q[i] \in A => q[j] \notin B

Where(q, E) == {i \in 1..Len(q) : q[i] \in E}

Occ(q, E) == Cardinality(Where(q, E))

LEMMA HasAppend ==
  ASSUME NEW S, NEW q \in Seq(S), NEW e \in S, NEW E
  PROVE  Has(Append(q, e), E) <=> Has(q, E) \/ e \in E
<1>1. /\ Len(q) \in Nat
      /\ Len(Append(q, e)) = Len(q) + 1
      /\ \A i \in 1..Len(q) : Append(q, e)[i] = q[i]
      /\ Append(q, e)[Len(q) + 1] = e
  OBVIOUS
<1>2. ASSUME Has(Append(q, e), E) PROVE Has(q, E) \/ e \in E
  BY <1>1, <1>2 DEF Has
<1>3. ASSUME Has(q, E) PROVE Has(Append(q, e), E)
  BY <1>1, <1>3 DEF Has
<1>4. ASSUME e \in E PROVE Has(Append(q, e), E)
  <2>1. Len(q) + 1 \in 1..Len(Append(q, e)) /\ Append(q, e)[Len(q) + 1] \in E
    BY <1>1, <1>4
  <2> QED
    BY <2>1 DEF Has
<1> QED
  BY <1>2, <1>3, <1>4

LEMMA HasTail ==
  ASSUME NEW S, NEW q \in Seq(S), q # <<>>, NEW E
  PROVE  Has(q, E) <=> Head(q) \in E \/ Has(Tail(q), E)
<1>1. /\ Len(q) \in Nat \ {0}
      /\ Len(Tail(q)) = Len(q) - 1
      /\ \A i \in 1..Len(Tail(q)) : Tail(q)[i] = q[i + 1]
      /\ Head(q) = q[1]
  OBVIOUS
<1>2. ASSUME Has(q, E) PROVE Head(q) \in E \/ Has(Tail(q), E)
  <2>1. PICK i \in 1..Len(q) : q[i] \in E
    BY <1>2 DEF Has
  <2>2. CASE i = 1
    BY <2>1, <2>2, <1>1
  <2>3. CASE i # 1
    <3>1. i - 1 \in 1..Len(Tail(q)) /\ Tail(q)[i - 1] \in E
      BY <2>1, <2>3, <1>1
    <3> QED
      BY <3>1 DEF Has
  <2> QED
    BY <2>2, <2>3
<1>3. ASSUME Has(Tail(q), E) PROVE Has(q, E)
  <2>1. PICK i \in 1..Len(Tail(q)) : Tail(q)[i] \in E
    BY <1>3 DEF Has
  <2>2. i + 1 \in 1..Len(q) /\ q[i + 1] \in E
    BY <2>1, <1>1
  <2> QED
    BY <2>2 DEF Has
<1>4. ASSUME Head(q) \in E PROVE Has(q, E)
  BY <1>1, <1>4 DEF Has
<1> QED
  BY <1>2, <1>3, <1>4

LEMMA EmptyQueue ==
  /\ \A E : ~Has(<<>>, E) /\ Occ(<<>>, E) = 0
  /\ \A A, B : After(<<>>, A, B)
<1>1. \A E : Where(<<>>, E) = {}
  BY DEF Where
<1> QED
  BY <1>1, FS_EmptySet DEF Has, After, Occ

LEMMA AfterAppend ==
  ASSUME NEW S, NEW q \in Seq(S), NEW e \in S, NEW A, NEW B
  PROVE  After(Append(q, e), A, B) <=> After(q, A, B) /\ (Has(q, A) => e \notin B)
<1>1. /\ Len(q) \in Nat
      /\ Len(Append(q, e)) = Len(q) + 1
      /\ \A i \in 1..Len(q) : Append(q, e)[i] = q[i]
      /\ Append(q, e)[Len(q) + 1] = e
  OBVIOUS
<1>2. ASSUME After(Append(q, e), A, B) PROVE After(q, A, B) /\ (Has(q, A) => e \notin B)
  BY <1>1, <1>2 DEF After, Has
<1>3. ASSUME After(q, A, B), Has(q, A) => e \notin B PROVE After(Append(q, e), A, B)
  <2> SUFFICES ASSUME NEW i \in 1..Len(q) + 1, NEW j \in 1..Len(q) + 1,
                      i < j, Append(q, e)[i] \in A
               PROVE  Append(q, e)[j] \notin B
    BY <1>1 DEF After
  <2>1. i \in 1..Len(q) /\ q[i] \in A /\ Has(q, A)
    BY <1>1 DEF Has
  <2>2. CASE j = Len(q) + 1
    BY <1>1, <1>3, <2>1, <2>2
  <2>3. CASE j # Len(q) + 1
    BY <1>1, <1>3, <2>1, <2>3 DEF After
  <2> QED
    BY <2>2, <2>3
<1> QED
  BY <1>2, <1>3

LEMMA AfterTail ==
  ASSUME NEW S, NEW q \in Seq(S), q # <<>>, NEW A, NEW B
  PROVE  After(q, A, B) <=> After(Tail(q), A, B) /\ (Head(q) \in A => ~Has(Tail(q), B))
<1>1. /\ Len(q) \in Nat \ {0}
      /\ Len(Tail(q)) = Len(q) - 1
      /\ \A i \in 1..Len(Tail(q)) : Tail(q)[i] = q[i + 1]
      /\ Head(q) = q[1]
  OBVIOUS
<1>2. ASSUME After(q, A, B) PROVE After(Tail(q), A, B)
  <2> SUFFICES ASSUME NEW i \in 1..Len(Tail(q)), NEW j \in 1..Len(Tail(q)),
                      i < j, Tail(q)[i] \in A
               PROVE  Tail(q)[j] \notin B
    BY DEF After
  <2>1. i + 1 \in 1..Len(q) /\ j + 1 \in 1..Len(q) /\ i + 1 < j + 1 /\ q[i + 1] \in A
    BY <1>1
  <2> QED
    BY <1>1, <1>2, <2>1 DEF After
<1>3. ASSUME After(q, A, B), Head(q) \in A PROVE ~Has(Tail(q), B)
  <2> SUFFICES ASSUME NEW j \in 1..Len(Tail(q)) PROVE Tail(q)[j] \notin B
    BY DEF Has
  <2>1. 1 \in 1..Len(q) /\ j + 1 \in 1..Len(q) /\ 1 < j + 1
    BY <1>1
  <2> QED
    BY <1>1, <1>3, <2>1 DEF After
<1>4. ASSUME After(Tail(q), A, B), Head(q) \in A => ~Has(Tail(q), B) PROVE After(q, A, B)
  <2> SUFFICES ASSUME NEW i \in 1..Len(q), NEW j \in 1..Len(q), i < j, q[i] \in A
               PROVE  q[j] \notin B
    BY DEF After
  <2>1. j - 1 \in 1..Len(Tail(q)) /\ Tail(q)[j - 1] = q[j]
    BY <1>1
  <2>2. CASE i = 1
    BY <1>1, <1>4, <2>1, <2>2 DEF Has
  <2>3. CASE i # 1
    <3>1. i - 1 \in 1..Len(Tail(q)) /\ Tail(q)[i - 1] \in A /\ i - 1 < j - 1
      BY <1>1, <2>3
    <3> QED
      BY <1>4, <2>1, <3>1 DEF After
  <2> QED
    BY <2>2, <2>3
<1> QED
  BY <1>2, <1>3, <1>4

LEMMA OccType ==
  ASSUME NEW S, NEW q \in Seq(S), NEW E
  PROVE  /\ IsFiniteSet(Where(q, E))
         /\ Occ(q, E) \in Nat
         /\ ~Has(q, E) => Occ(q, E) = 0
<1>1. IsFiniteSet(1..Len(q)) /\ Where(q, E) \in SUBSET (1..Len(q))
  BY FS_Interval DEF Where
<1>2. IsFiniteSet(Where(q, E))
  BY <1>1, FS_Subset
<1>3. ~Has(q, E) => Where(q, E) = {}
  BY DEF Has, Where
<1> QED
  BY <1>2, <1>3, FS_CardinalityType, FS_EmptySet DEF Occ

LEMMA OccAppend ==
  ASSUME NEW S, NEW q \in Seq(S), NEW e \in S, NEW E
  PROVE  Occ(Append(q, e), E) = Occ(q, E) + (IF e \in E THEN 1 ELSE 0)
<1>1. /\ Len(q) \in Nat
      /\ Len(Append(q, e)) = Len(q) + 1
      /\ \A i \in 1..Len(q) : Append(q, e)[i] = q[i]
      /\ Append(q, e)[Len(q) + 1] = e
  OBVIOUS
<1>2. IsFiniteSet(Where(q, E)) /\ Len(q) + 1 \notin Where(q, E) /\ Occ(q, E) \in Nat
  BY <1>1, OccType DEF Where
<1>3. CASE e \in E
  <2>1. Where(Append(q, e), E) = Where(q, E) \union {Len(q) + 1}
    BY <1>1, <1>3 DEF Where
  <2>2. Cardinality(Where(q, E) \union {Len(q) + 1}) = Cardinality(Where(q, E)) + 1
    BY <1>2, FS_AddElement
  <2> QED
    BY <1>3, <2>1, <2>2 DEF Occ
<1>4. CASE e \notin E
  <2>1. Where(Append(q, e), E) = Where(q, E)
    BY <1>1, <1>4 DEF Where
  <2> QED
    BY <1>2, <1>4, <2>1 DEF Occ
<1> QED
  BY <1>3, <1>4

LEMMA OccTail ==
  ASSUME NEW S, NEW q \in Seq(S), q # <<>>, NEW E
  PROVE  Occ(q, E) = Occ(Tail(q), E) + (IF Head(q) \in E THEN 1 ELSE 0)
<1> DEFINE W == Where(Tail(q), E)
           U == Where(q, E) \ {1}
           f == [i \in W |-> i + 1]
<1>1. /\ Len(q) \in Nat \ {0}
      /\ Len(Tail(q)) = Len(q) - 1
      /\ \A i \in 1..Len(Tail(q)) : Tail(q)[i] = q[i + 1]
      /\ Head(q) = q[1]
      /\ Tail(q) \in Seq(S)
  OBVIOUS
<1>2. /\ IsFiniteSet(W)
      /\ IsFiniteSet(Where(q, E))
      /\ Occ(q, E) \in Nat
      /\ Occ(Tail(q), E) \in Nat
  BY <1>1, OccType
<1>3. f \in Bijection(W, U)
  <2>1. ASSUME NEW i \in W PROVE f[i] = i + 1 /\ i + 1 \in U
    BY <1>1, <2>1 DEF Where
  <2>2. f \in [W -> U]
    BY <2>1
  <2>3. ASSUME NEW i \in W, NEW j \in W, f[i] = f[j] PROVE i = j
    BY <2>1, <2>3 DEF Where
  <2>4. ASSUME NEW j \in U PROVE \E i \in W : f[i] = j
    <3>1. j \in 1..Len(q) /\ j # 1 /\ q[j] \in E
      BY <2>4 DEF Where
    <3>2. j - 1 \in 1..Len(Tail(q)) /\ Tail(q)[j - 1] = q[j]
      BY <1>1, <3>1
    <3>3. j - 1 \in W /\ (j - 1) + 1 = j
      BY <3>1, <3>2 DEF Where
    <3> HIDE DEF W, U, f
    <3>4. f[j - 1] = j
      BY <3>3 DEF f
    <3> QED
      BY <3>3, <3>4
  <2> HIDE DEF W, U, f
  <2> QED
    BY <2>2, <2>3, <2>4 DEF Bijection, Injection, Surjection, IsInjective
<1>4. Cardinality(U) = Cardinality(W)
  <2> HIDE DEF W, U, f
  <2>1. ExistsBijection(W, U)
    BY <1>3 DEF ExistsBijection
  <2> QED
    BY <1>2, <2>1, FS_Bijection
<1>5. 1 \in Where(q, E) <=> Head(q) \in E
  BY <1>1 DEF Where
<1>6. Cardinality(U) = (IF 1 \in Where(q, E) THEN Occ(q, E) - 1 ELSE Occ(q, E))
  <2>1. Cardinality(Where(q, E) \ {1}) =
          (IF 1 \in Where(q, E) THEN Cardinality(Where(q, E)) - 1 ELSE Cardinality(Where(q, E)))
    BY <1>2, FS_RemoveElement
  <2> QED
    BY <2>1 DEF Occ
<1> HIDE DEF U, W, f
<1>7. Cardinality(W) = Occ(Tail(q), E)
  BY DEF Occ, W
<1>8. Occ(Tail(q), E) = (IF Head(q) \in E THEN Occ(q, E) - 1 ELSE Occ(q, E))
  BY <1>4, <1>5, <1>6, <1>7
<1> QED
  BY <1>2, <1>8

-----------------------------------------------------------------------------
(* The inductive invariant                                                 *)

\* Frames f of E for stream s.
Of(s, E) == {s} \X E

Received == AnyStream \X Frame
GoAways == AnyStream \X {"goaway"}

\* The reports of the end of a request, and what belongs to it.
Finish == {"reqEnd", "dataEnd"}
Ends == Finish \union {"ended"}
Datum == {"data", "dataEnd"}
Part == {"req", "reqEnd", "data", "dataEnd"}

\* Frames after which a stream thread ends or writes.
Last == Frame \ {"req", "data", "other"}

Open == ~close /\ synced

\* The client is done with its request.
Over(s) == sent[s] \in {"ended", "reset"}

\* Frames are left only to a connection thread that dispatches them, and none
\* after GOAWAY; threads are joined when nothing is received any more.
Phases ==
  /\ conn = "setup" => ~close
  /\ conn # "dispatch" \/ ~Open => frames = <<>>
  /\ conn \in {"finally", "again"} => ~Open
  /\ joining # NoStream => conn = "finally" /\ reg[joining] # 0
  /\ After(frames, GoAways, Received)

\* Nothing of a request comes after its end.
Order ==
  /\ \A s \in Stream :
       /\ After(frames, Of(s, Ends), Of(s, Part))
       /\ After(frames, Of(s, {"ended"}), Of(s, {"ended"}))
       /\ Has(frames, Of(s, Ends)) => Over(s)
  /\ ~Has(frames, Of(Zero, Part \union Ends))

\* No thread of s, or the first one, which is registered.
Early(s) == started[s] \in {0, 1} /\ reg[s] = started[s]

\* What is left of a request goes to the first thread of its stream.  While
\* the second report of its end is to come, there is a thread number to give.
Starts ==
  Open =>
    /\ \A s \in Stream : ~Over(s) \/ Has(frames, Of(s, Part)) => Early(s)
    /\ \A s \in AnyStream :
         /\ Has(frames, Of(s, {"ended"})) => started[s] <= (IF reg[s] = 0 THEN 1 ELSE 2)
         /\ reg[s] = 0 => started[s] <= 2

\* Other threads than the first one get nothing of a request.
Threads ==
  /\ \A s \in AnyStream : reg[s] <= started[s]
  /\ \A t \in Thread :
       /\ t[2] > started[t[1]] <=> pc[t] = "none"
       /\ pc[t] \notin Reading => queue[t] = <<>>
       /\ t[1] = Zero \/ t[2] # 1 => ~Has(queue[t], Part) /\ pc[t] \notin Writing /\ got[t] = 0
       /\ pc[t] = "none" => got[t] = 0

\* DATA of s: handled, in the queue of its first thread, not dispatched yet.
Seen(s) == got[<<s, 1>>] + Occ(queue[<<s, 1>>], Datum) + Occ(frames, Of(s, Datum))

\* No DATA is lost before the first thread has ended, and when it writes, all
\* of the request has come.
Bodies ==
  \A s \in Stream :
    /\ After(queue[<<s, 1>>], Finish, Part)
    /\ Has(queue[<<s, 1>>], Finish) \/ pc[<<s, 1>>] \in Writing =>
         Over(s) /\ ~Has(frames, Of(s, Part))
    /\ Seen(s) <= body[s]
    /\ pc[<<s, 1>>] # "done" => Seen(s) = body[s]

\* A response that has been alone leaves a part of the window, so that its
\* payload_size is never negative and never too much.
Flow ==
  /\ CutOnlyByOverlap
  /\ ~overlap =>
       /\ window > 0
       /\ \A t \in Thread : pc[t] = "data" => 0 <= size[t] /\ size[t] < window
       /\ \A t, u \in Thread :
            pc[t] \in {"size", "data"} /\ pc[u] \in {"size", "data"} => t = u

IInv == TypeOK /\ Phases /\ Order /\ Starts /\ Threads /\ Bodies /\ Flow /\ NoThreadForgotten

LEMMA StreamThreads ==
  /\ \A s \in Stream : s \in AnyStream /\ s # Zero /\ <<s, 1>> \in Thread
  /\ \A t \in Thread : t[1] \in AnyStream /\ t[2] \in 1..3 /\ t = <<t[1], t[2]>>
  /\ \A s \in AnyStream : \A k \in 1..3 : <<s, k>> \in Thread
BY ZeroAssumption DEF AnyStream, Thread

LEMMA InitEstablishes == Init => IInv
<1> SUFFICES ASSUME Init PROVE IInv
  OBVIOUS
<1> USE DEF Init
<1>1. TypeOK
  <2>1. /\ queue \in [Thread -> Seq(Frame)]
        /\ frames \in Seq(Received)
    OBVIOUS
  <2>2. /\ reg \in [AnyStream -> 0..3]
        /\ started \in [AnyStream -> 0..3]
        /\ got \in [Thread -> 0..MaxData]
        /\ left \in [Thread -> 0..MaxBody]
        /\ size \in [Thread -> -1..MaxFrameSize]
        /\ body \in [Stream -> 0..MaxData]
        /\ others \in 0..MaxOthers
        /\ window \in 0..Window
    BY NumbersAssumption
  <2> QED
    BY <2>1, <2>2 DEF TypeOK, Received
<1>2. Phases /\ Order
  BY EmptyQueue DEF Init, Phases, Order
<1>3. Starts
  BY EmptyQueue DEF Init, Starts, Early, AnyStream
<1>4. Threads
  <2>1. ASSUME NEW t \in Thread
        PROVE  queue[t] = <<>> /\ pc[t] = "none" /\ got[t] = 0 /\ ~Has(queue[t], Part)
    BY EmptyQueue
  <2>2. /\ \A s \in AnyStream : reg[s] <= started[s]
        /\ \A t \in Thread : t[2] > started[t[1]]
    BY StreamThreads
  <2> QED
    BY <2>1, <2>2 DEF Threads, Writing
<1>5. Bodies
  <2> SUFFICES ASSUME NEW s \in Stream
               PROVE  /\ After(queue[<<s, 1>>], Finish, Part)
                      /\ ~Has(queue[<<s, 1>>], Finish)
                      /\ pc[<<s, 1>>] = "none"
                      /\ Seen(s) = 0
                      /\ body[s] = 0
    <3>1. "none" \notin Writing /\ 0 <= 0
      BY DEF Writing
    <3> QED
      BY <3>1 DEF Bodies
  <2>1. <<s, 1>> \in Thread
    BY DEF Thread, AnyStream
  <2>2. queue[<<s, 1>>] = <<>> /\ got[<<s, 1>>] = 0 /\ pc[<<s, 1>>] = "none"
    BY <2>1
  <2>3. Seen(s) = 0
    BY <2>2, EmptyQueue DEF Seen
  <2> QED
    BY <2>2, <2>3, EmptyQueue
<1>6. Flow /\ NoThreadForgotten
  BY NumbersAssumption DEF Init, Flow, CutOnlyByOverlap, NoThreadForgotten, Reading
<1> QED
  BY <1>1, <1>2, <1>3, <1>4, <1>5, <1>6 DEF IInv

-----------------------------------------------------------------------------
(* Frames                                                                  *)

LEMMA FramesType ==
  ASSUME TypeOK
  PROVE  frames \in Seq(Received)
BY DEF TypeOK, Received

LEMMA ReceivedPair ==
  \A s, f : <<s, f>> \in Received <=> s \in AnyStream /\ f \in Frame
BY DEF Received

LEMMA OfPair ==
  ASSUME NEW s, NEW E, NEW r, NEW f
  PROVE  <<r, f>> \in Of(s, E) <=> r = s /\ f \in E
BY DEF Of

\* What a frame changes that arrives after q.
LEMMA FrameHas ==
  ASSUME NEW q \in Seq(Received), NEW s \in AnyStream, NEW f \in Frame, NEW r, NEW A
  PROVE  Has(Append(q, <<s, f>>), Of(r, A)) <=> Has(q, Of(r, A)) \/ (r = s /\ f \in A)
BY ReceivedPair, OfPair, HasAppend

LEMMA FrameAfter ==
  ASSUME NEW q \in Seq(Received), NEW s \in AnyStream, NEW f \in Frame, NEW r, NEW A, NEW B
  PROVE  After(Append(q, <<s, f>>), Of(r, A), Of(r, B)) <=>
           After(q, Of(r, A), Of(r, B)) /\ (r = s /\ Has(q, Of(r, A)) => f \notin B)
BY ReceivedPair, OfPair, AfterAppend

LEMMA FrameOcc ==
  ASSUME NEW q \in Seq(Received), NEW s \in AnyStream, NEW f \in Frame, NEW r, NEW A
  PROVE  Occ(Append(q, <<s, f>>), Of(r, A)) =
           Occ(q, Of(r, A)) + (IF r = s /\ f \in A THEN 1 ELSE 0)
<1>1. <<s, f>> \in Received
  BY ReceivedPair
<1>2. <<s, f>> \in Of(r, A) <=> r = s /\ f \in A
  BY OfPair
<1> QED
  BY <1>1, <1>2, OccAppend

\* What a frame changes that is taken from q.
LEMMA FrameHeadTail ==
  ASSUME NEW q \in Seq(Received), q # <<>>, NEW s, NEW f, Head(q) = <<s, f>>
  PROVE  /\ Tail(q) \in Seq(Received)
         /\ s \in AnyStream /\ f \in Frame
         /\ \A r, A : Head(q) \in Of(r, A) <=> r = s /\ f \in A
<1>1. Tail(q) \in Seq(Received) /\ Head(q) \in Received
  OBVIOUS
<1>2. s \in AnyStream /\ f \in Frame
  BY <1>1, ReceivedPair
<1>3. \A r, A : <<s, f>> \in Of(r, A) <=> r = s /\ f \in A
  BY OfPair
<1> QED
  BY <1>1, <1>2, <1>3

LEMMA FrameTailHas ==
  ASSUME NEW q \in Seq(Received), q # <<>>, NEW s, NEW f, Head(q) = <<s, f>>, NEW r, NEW A
  PROVE  Has(q, Of(r, A)) <=> Has(Tail(q), Of(r, A)) \/ (r = s /\ f \in A)
BY FrameHeadTail, HasTail

LEMMA FrameTailAfter ==
  ASSUME NEW q \in Seq(Received), q # <<>>, NEW s, NEW f, Head(q) = <<s, f>>, NEW r, NEW A, NEW B
  PROVE  After(q, Of(r, A), Of(r, B)) <=>
           /\ After(Tail(q), Of(r, A), Of(r, B))
           /\ r = s /\ f \in A => ~Has(Tail(q), Of(r, B))
BY FrameHeadTail, AfterTail

LEMMA FrameTailOcc ==
  ASSUME NEW q \in Seq(Received), q # <<>>, NEW s, NEW f, Head(q) = <<s, f>>, NEW r, NEW A
  PROVE  Occ(q, Of(r, A)) = Occ(Tail(q), Of(r, A)) + (IF r = s /\ f \in A THEN 1 ELSE 0)
<1>1. Head(q) \in Of(r, A) <=> r = s /\ f \in A
  BY FrameHeadTail
<1> QED
  BY <1>1, OccTail

LEMMA ClosedByGoAway ==
  ASSUME TypeOK
  PROVE  H2Closed <=> ~Open \/ Has(frames, GoAways)
<1>1. ASSUME NEW i \in 1..Len(frames)
      PROVE  frames[i][2] = "goaway" <=> frames[i] \in GoAways
  <2>1. frames[i] \in Received
    BY FramesType
  <2> QED
    BY <2>1 DEF GoAways, Received
<1> QED
  BY <1>1 DEF H2Closed, Open, Has

-----------------------------------------------------------------------------
(* The client                                                              *)

LEMMA Arrives ==
  ASSUME TypeOK, NEW s \in AnyStream, NEW fs, Arrive(s, fs)
  PROVE  /\ Open /\ ~Has(frames, GoAways)
         /\ conn \in {"recv", "dispatch"} /\ conn' = "dispatch"
         /\ UNCHANGED <<peer, close, synced, joining, reg, started, pc, queue, got, left, size,
                        stuck, answer, overlap>>
         /\ \A f \in Frame : fs = <<f>> => frames' = Append(frames, <<s, f>>)
         /\ \A f, g \in Frame :
              fs = <<f, g>> => frames' = Append(Append(frames, <<s, f>>), <<s, g>>)
<1>1. /\ Open /\ ~Has(frames, GoAways)
      /\ conn \in {"recv", "dispatch"} /\ conn' = "dispatch"
      /\ UNCHANGED <<peer, close, synced, joining, reg, started, pc, queue, got, left, size,
                     stuck, answer, overlap>>
  BY ClosedByGoAway DEF Arrive, threads
<1>2. frames \in Seq(Received)
  BY FramesType
<1>3. frames' = frames \o [i \in 1..Len(fs) |-> <<s, fs[i]>>]
  BY DEF Arrive
<1>4. ASSUME NEW f \in Frame, fs = <<f>> PROVE frames' = Append(frames, <<s, f>>)
  <2>1. [i \in 1..Len(fs) |-> <<s, fs[i]>>] = << <<s, f>> >>
    BY <1>4
  <2>2. <<s, f>> \in Received
    BY ReceivedPair
  <2> QED
    BY <1>2, <1>3, <2>1, <2>2, AppendIsConcat
<1>5. ASSUME NEW f \in Frame, NEW g \in Frame, fs = <<f, g>>
      PROVE  frames' = Append(Append(frames, <<s, f>>), <<s, g>>)
  <2> DEFINE n == Append(Append(frames, <<s, f>>), <<s, g>>)
             m == [i \in 1..Len(fs) |-> <<s, fs[i]>>]
  <2>1. m \in Seq(Received) /\ Len(m) = 2 /\ m[1] = <<s, f>> /\ m[2] = <<s, g>>
    BY <1>5, ReceivedPair
  <2>2. <<s, f>> \in Received /\ <<s, g>> \in Received
    BY ReceivedPair
  <2>3. /\ n \in Seq(Received) /\ Len(n) = Len(frames) + 2
        /\ \A i \in 1..Len(frames) : n[i] = frames[i]
        /\ n[Len(frames) + 1] = <<s, f>> /\ n[Len(frames) + 2] = <<s, g>>
    BY <1>2, <2>2
  <2> HIDE DEF n, m
  <2>4. /\ frames \o m \in Seq(Received) /\ Len(frames \o m) = Len(frames) + 2
        /\ \A i \in 1..Len(frames) : (frames \o m)[i] = frames[i]
        /\ (frames \o m)[Len(frames) + 1] = m[1] /\ (frames \o m)[Len(frames) + 2] = m[2]
    <3>1. \A i \in 1..Len(frames) + Len(m) :
            (frames \o m)[i] = (IF i <= Len(frames) THEN frames[i] ELSE m[i - Len(frames)])
      BY <1>2, <2>1, ConcatProperties
    <3>2. frames \o m \in Seq(Received) /\ Len(frames \o m) = Len(frames) + Len(m)
      BY <1>2, <2>1, ConcatProperties
    <3>3. Len(frames) \in Nat
      BY <1>2
    <3> QED
      BY <2>1, <3>1, <3>2, <3>3
  <2>5. \A i \in 1..Len(n) : i \in 1..Len(frames) \/ i = Len(frames) + 1 \/ i = Len(frames) + 2
    BY <1>2, <2>3
  <2>6. n = frames \o m
    <3>1. Len(n) = Len(frames \o m) /\ \A i \in 1..Len(n) : n[i] = (frames \o m)[i]
      BY <2>1, <2>3, <2>4, <2>5
    <3> QED
      BY <2>3, <2>4, <3>1, SeqEqual
  <2> QED
    BY <1>3, <2>6 DEF n, m
<1> QED
  BY <1>1, <1>4, <1>5

\* What frames of s may do that arrive: they keep the order of a request, they
\* belong to it only while it is not over, and they count as much as body does.
LEMMA ArrivalPreserves ==
  ASSUME IInv, NEW s \in AnyStream,
         Open, conn \in {"recv", "dispatch"}, conn' = "dispatch",
         UNCHANGED <<peer, close, synced, joining, reg, started, pc, queue, got, left, size,
                     stuck, answer, overlap>>,
         window' \in {window, Window}, others' \in 0..MaxOthers,
         sent' \in [Stream -> {"idle", "open", "ended", "reset"}],
         body' \in [Stream -> 0..MaxData],
         frames' \in Seq(Received),
         After(frames', GoAways, Received),
         \A r \in AnyStream : (r # s \/ r = Zero) =>
           /\ \A A \in {Ends, Part, {"ended"}, Part \union Ends} :
                Has(frames', Of(r, A)) <=> Has(frames, Of(r, A))
           /\ r \in Stream =>
                /\ After(frames', Of(r, Ends), Of(r, Part))
                /\ After(frames', Of(r, {"ended"}), Of(r, {"ended"}))
                /\ Occ(frames', Of(r, Datum)) = Occ(frames, Of(r, Datum))
                /\ sent'[r] = sent[r] /\ body'[r] = body[r],
         s \in Stream =>
           /\ After(frames', Of(s, Ends), Of(s, Part))
           /\ After(frames', Of(s, {"ended"}), Of(s, {"ended"}))
           /\ Has(frames', Of(s, Ends)) \/ Over(s) => Over(s)'
           /\ \A A \in {Part, {"ended"}} :
                Has(frames', Of(s, A)) => ~Over(s) \/ Has(frames, Of(s, A))
           /\ Occ(frames', Of(s, Datum)) - body'[s] = Occ(frames, Of(s, Datum)) - body[s]
  PROVE  IInv'
<1> USE DEF IInv
<1>1. TypeOK'
  <2>1. window' \in 0..Window
    BY NumbersAssumption DEF TypeOK
  <2> QED
    BY <2>1 DEF TypeOK, Received
<1>2. Phases'
  <2>1. Open' /\ conn' = "dispatch" /\ joining' = NoStream
    BY DEF Phases, Open
  <2> QED
    BY <2>1 DEF Phases
<1>3. Order'
  <2>1. ASSUME NEW r \in Stream
        PROVE  /\ After(frames', Of(r, Ends), Of(r, Part))
               /\ After(frames', Of(r, {"ended"}), Of(r, {"ended"}))
               /\ Has(frames', Of(r, Ends)) => Over(r)'
    <3>1. CASE r = s
      BY <3>1
    <3>2. CASE r # s
      <4>1. r \in AnyStream /\ sent'[r] = sent[r]
        BY <3>2, StreamThreads
      <4>2. Has(frames', Of(r, Ends)) => Over(r)
        BY <3>2, <4>1 DEF Order
      <4> QED
        BY <3>2, <4>1, <4>2 DEF Over
    <3> QED
      BY <3>1, <3>2
  <2>2. ~Has(frames', Of(Zero, Part \union Ends))
    BY DEF Order, AnyStream
  <2> QED
    BY <2>1, <2>2 DEF Order
<1>4. Starts'
  <2>1. ASSUME NEW r \in Stream, ~Over(r)' \/ Has(frames', Of(r, Part)) PROVE Early(r)
    <3>1. ~Over(r) \/ Has(frames, Of(r, Part))
      <4>1. CASE r = s
        BY <2>1, <4>1
      <4>2. CASE r # s
        <5>1. r \in AnyStream /\ sent'[r] = sent[r]
          BY <4>2, StreamThreads
        <5> QED
          BY <2>1, <4>2, <5>1 DEF Over
      <4> QED
        BY <4>1, <4>2
    <3> QED
      BY <3>1 DEF Starts
  <2>2. ASSUME NEW r \in AnyStream, Has(frames', Of(r, {"ended"}))
        PROVE  started[r] <= (IF reg[r] = 0 THEN 1 ELSE 2)
    <3>1. CASE Has(frames, Of(r, {"ended"}))
      BY <3>1 DEF Starts
    <3>2. CASE r = s /\ r \in Stream /\ ~Over(r)
      <4>1. Early(r)
        BY <3>2 DEF Starts
      <4> QED
        BY <4>1 DEF Early
    <3>3. ~Has(frames, Of(r, {"ended"})) => r = s /\ r \in Stream /\ ~Over(r)
      BY <2>2 DEF AnyStream
    <3> QED
      BY <3>1, <3>2, <3>3
  <2>3. ASSUME NEW r \in AnyStream, reg[r] = 0 PROVE started[r] <= 2
    BY <2>3 DEF Starts
  <2> QED
    BY <2>1, <2>2, <2>3 DEF Starts, Early
<1>5. Threads' /\ NoThreadForgotten'
  BY DEF Threads, NoThreadForgotten
<1>6. Bodies'
  <2> SUFFICES ASSUME NEW r \in Stream
               PROVE  /\ Has(queue[<<r, 1>>], Finish) \/ pc[<<r, 1>>] \in Writing =>
                           Over(r)' /\ ~Has(frames', Of(r, Part))
                      /\ Seen(r)' <= body'[r]
                      /\ pc[<<r, 1>>] # "done" => Seen(r)' = body'[r]
    BY DEF Bodies
  <2>1. /\ r \in AnyStream /\ r # Zero
        /\ got[<<r, 1>>] \in Int /\ Occ(queue[<<r, 1>>], Datum) \in Int
        /\ Occ(frames, Of(r, Datum)) \in Int /\ Occ(frames', Of(r, Datum)) \in Int
        /\ body[r] \in Int /\ body'[r] \in Int
    <3>1. queue[<<r, 1>>] \in Seq(Frame) /\ frames \in Seq(Received)
      BY StreamThreads, FramesType DEF TypeOK
    <3> QED
      BY <3>1, StreamThreads, OccType DEF TypeOK
  <2>2. Occ(frames', Of(r, Datum)) - body'[r] = Occ(frames, Of(r, Datum)) - body[r]
    BY <2>1
  <2>3. Seen(r)' - body'[r] = Seen(r) - body[r] /\ Seen(r) \in Int /\ Seen(r)' \in Int
    <3>1. Seen(r)' = got[<<r, 1>>] + Occ(queue[<<r, 1>>], Datum) + Occ(frames', Of(r, Datum))
      BY DEF Seen
    <3>2. Seen(r) = got[<<r, 1>>] + Occ(queue[<<r, 1>>], Datum) + Occ(frames, Of(r, Datum))
      BY DEF Seen
    <3> QED
      BY ONLY <2>1, <2>2, <3>1, <3>2
  <2>4. Has(queue[<<r, 1>>], Finish) \/ pc[<<r, 1>>] \in Writing =>
          Over(r)' /\ ~Has(frames', Of(r, Part))
    <3> SUFFICES ASSUME Over(r), ~Has(frames, Of(r, Part))
                 PROVE  Over(r)' /\ ~Has(frames', Of(r, Part))
      BY DEF Bodies
    <3>1. CASE r = s
      BY <3>1
    <3>2. CASE r # s
      BY <2>1, <3>2 DEF Over
    <3> QED
      BY <3>1, <3>2
  <2> QED
    BY <2>1, <2>3, <2>4 DEF Bodies
<1>7. Flow'
  <2>1. window' > 0 \/ overlap
    BY NumbersAssumption DEF Flow
  <2>2. window' >= window /\ window \in Int /\ Window \in Int
    BY NumbersAssumption DEF TypeOK
  <2>3. ASSUME NEW t \in Thread, ~overlap, pc[t] = "data" PROVE 0 <= size[t] /\ size[t] < window'
    <3>1. size[t] \in Int
      BY <2>3 DEF TypeOK
    <3> QED
      BY <2>2, <2>3, <3>1 DEF Flow
  <2>4. CutOnlyByOverlap'
    BY DEF Flow, CutOnlyByOverlap
  <2> QED
    BY <2>1, <2>3, <2>4 DEF Flow
<1> QED
  BY <1>1, <1>2, <1>3, <1>4, <1>5, <1>6, <1>7

LEMMA HasMore ==
  ASSUME NEW q, NEW A, NEW B, A \subseteq B, Has(q, A)
  PROVE  Has(q, B)
BY DEF Has

LEMMA NothingAfterOver ==
  ASSUME IInv, NEW s \in Stream, ~Over(s)
  PROVE  ~Has(frames, Of(s, Ends)) /\ ~Has(frames, Of(s, {"ended"}))
<1>1. ~Has(frames, Of(s, Ends))
  BY DEF IInv, Order
<1>2. Of(s, {"ended"}) \subseteq Of(s, Ends)
  BY DEF Of, Ends
<1> QED
  BY <1>1, <1>2, HasMore

\* One frame, which is part of a request only if that is not over.
LEMMA OneArrives ==
  ASSUME IInv, NEW s \in AnyStream, NEW f \in Frame, Arrive(s, <<f>>)
  PROVE  /\ frames' \in Seq(Received)
         /\ After(frames', GoAways, Received)
         /\ \A r \in AnyStream \ {s} :
              /\ \A A : Has(frames', Of(r, A)) <=> Has(frames, Of(r, A))
              /\ r \in Stream =>
                   /\ After(frames', Of(r, Ends), Of(r, Part))
                   /\ After(frames', Of(r, {"ended"}), Of(r, {"ended"}))
                   /\ Occ(frames', Of(r, Datum)) = Occ(frames, Of(r, Datum))
         /\ \A A : Has(frames', Of(s, A)) <=> Has(frames, Of(s, A)) \/ f \in A
         /\ s \in Stream /\ f # "ended" /\ (f \in Part => ~Over(s)) =>
              /\ After(frames', Of(s, Ends), Of(s, Part))
              /\ After(frames', Of(s, {"ended"}), Of(s, {"ended"}))
         /\ Occ(frames', Of(s, Datum)) = Occ(frames, Of(s, Datum)) + (IF f \in Datum THEN 1 ELSE 0)
<1>1. /\ ~Has(frames, GoAways)
      /\ frames' = Append(frames, <<s, f>>)
  BY Arrives DEF IInv
<1>2. frames \in Seq(Received) /\ <<s, f>> \in Received
  BY FramesType, ReceivedPair DEF IInv
<1>3. After(frames', GoAways, Received)
  BY <1>1, <1>2, AfterAppend DEF IInv, Phases
<1>4. ASSUME NEW r, NEW A, NEW B
      PROVE  /\ Has(frames', Of(r, A)) <=> Has(frames, Of(r, A)) \/ (r = s /\ f \in A)
             /\ After(frames', Of(r, A), Of(r, B)) <=>
                  After(frames, Of(r, A), Of(r, B)) /\ (r = s /\ Has(frames, Of(r, A)) => f \notin B)
             /\ Occ(frames', Of(r, A)) =
                  Occ(frames, Of(r, A)) + (IF r = s /\ f \in A THEN 1 ELSE 0)
  <2>1. /\ Has(Append(frames, <<s, f>>), Of(r, A)) <=> Has(frames, Of(r, A)) \/ (r = s /\ f \in A)
        /\ After(Append(frames, <<s, f>>), Of(r, A), Of(r, B)) <=>
             After(frames, Of(r, A), Of(r, B)) /\ (r = s /\ Has(frames, Of(r, A)) => f \notin B)
        /\ Occ(Append(frames, <<s, f>>), Of(r, A)) =
             Occ(frames, Of(r, A)) + (IF r = s /\ f \in A THEN 1 ELSE 0)
    BY <1>2, FrameHas, FrameAfter, FrameOcc
  <2> QED
    BY <1>1, <2>1
<1>6. ASSUME NEW r \in AnyStream \ {s}
      PROVE  /\ \A A : Has(frames', Of(r, A)) <=> Has(frames, Of(r, A))
             /\ r \in Stream =>
                  /\ After(frames', Of(r, Ends), Of(r, Part))
                  /\ After(frames', Of(r, {"ended"}), Of(r, {"ended"}))
                  /\ Occ(frames', Of(r, Datum)) = Occ(frames, Of(r, Datum))
  <2>1. \A A : Has(frames', Of(r, A)) <=> Has(frames, Of(r, A))
    BY <1>4
  <2>2. ASSUME r \in Stream
        PROVE  /\ After(frames', Of(r, Ends), Of(r, Part))
               /\ After(frames', Of(r, {"ended"}), Of(r, {"ended"}))
    BY <1>4, <2>2 DEF IInv, Order
  <2>3. Occ(frames', Of(r, Datum)) = Occ(frames, Of(r, Datum))
    <3>1. Occ(frames, Of(r, Datum)) \in Nat
      BY <1>2, OccType
    <3>2. Occ(frames', Of(r, Datum)) = Occ(frames, Of(r, Datum)) + 0
      BY <1>4
    <3> QED
      BY <3>1, <3>2
  <2> QED
    BY <2>1, <2>2, <2>3
<1>7. ASSUME s \in Stream, f # "ended", f \in Part => ~Over(s)
      PROVE  /\ After(frames', Of(s, Ends), Of(s, Part))
             /\ After(frames', Of(s, {"ended"}), Of(s, {"ended"}))
  <2>1. f \in Part => ~Has(frames, Of(s, Ends))
    BY <1>7, NothingAfterOver
  <2> QED
    BY <1>4, <1>7, <2>1 DEF IInv, Order
<1>8. frames' \in Seq(Received)
  BY <1>1, <1>2
<1>9. /\ \A A : Has(frames', Of(s, A)) <=> Has(frames, Of(s, A)) \/ f \in A
      /\ Occ(frames', Of(s, Datum)) = Occ(frames, Of(s, Datum)) + (IF f \in Datum THEN 1 ELSE 0)
  BY <1>4
<1> QED
  BY <1>3, <1>6, <1>7, <1>8, <1>9

\* The frame that ends a request, which is reported twice.
LEMMA EndArrives ==
  ASSUME IInv, NEW s \in Stream, ~Over(s), NEW f \in Finish, Arrive(s, <<f, "ended">>)
  PROVE  /\ frames' \in Seq(Received)
         /\ After(frames', GoAways, Received)
         /\ \A r \in AnyStream \ {s} :
              /\ \A A : Has(frames', Of(r, A)) <=> Has(frames, Of(r, A))
              /\ r \in Stream =>
                   /\ After(frames', Of(r, Ends), Of(r, Part))
                   /\ After(frames', Of(r, {"ended"}), Of(r, {"ended"}))
                   /\ Occ(frames', Of(r, Datum)) = Occ(frames, Of(r, Datum))
         /\ After(frames', Of(s, Ends), Of(s, Part))
         /\ After(frames', Of(s, {"ended"}), Of(s, {"ended"}))
         /\ Occ(frames', Of(s, Datum)) = Occ(frames, Of(s, Datum)) + (IF f \in Datum THEN 1 ELSE 0)
<1> DEFINE mid == Append(frames, <<s, f>>)
<1>1. s \in AnyStream /\ f \in Frame /\ "ended" \in Frame /\ f # "ended" /\ f # "goaway"
  BY StreamThreads DEF Finish, Frame, StreamFrame
<1>2. /\ ~Has(frames, GoAways)
      /\ frames' = Append(mid, <<s, "ended">>)
  BY <1>1, Arrives DEF IInv
<1>3. /\ frames \in Seq(Received)
      /\ <<s, f>> \in Received /\ <<s, "ended">> \in Received
  BY <1>1, FramesType, ReceivedPair DEF IInv
<1>4. mid \in Seq(Received)
  BY <1>3
<1>5. After(frames', GoAways, Received)
  <2>1. After(mid, GoAways, Received)
    BY <1>2, <1>3, AfterAppend DEF IInv, Phases
  <2>2. <<s, f>> \notin GoAways
    BY <1>1 DEF GoAways
  <2>3. ~Has(mid, GoAways)
    BY <1>2, <1>3, <2>2, HasAppend
  <2> HIDE DEF mid
  <2> QED
    BY <1>2, <1>3, <1>4, <2>1, <2>3, AfterAppend
<1>6. ASSUME NEW r, NEW A
      PROVE  /\ Has(mid, Of(r, A)) <=> Has(frames, Of(r, A)) \/ (r = s /\ f \in A)
             /\ Occ(mid, Of(r, A)) = Occ(frames, Of(r, A)) + (IF r = s /\ f \in A THEN 1 ELSE 0)
  BY <1>1, <1>3, FrameHas, FrameOcc
<1>7. ASSUME NEW r, NEW A, NEW B
      PROVE  After(mid, Of(r, A), Of(r, B)) <=>
               After(frames, Of(r, A), Of(r, B)) /\ (r = s /\ Has(frames, Of(r, A)) => f \notin B)
  BY <1>1, <1>3, FrameAfter
<1> HIDE DEF mid
<1>8. ASSUME NEW r, NEW A
      PROVE  /\ Has(frames', Of(r, A)) <=> Has(mid, Of(r, A)) \/ (r = s /\ "ended" \in A)
             /\ Occ(frames', Of(r, A)) =
                  Occ(mid, Of(r, A)) + (IF r = s /\ "ended" \in A THEN 1 ELSE 0)
  <2>1. /\ Has(Append(mid, <<s, "ended">>), Of(r, A)) <=>
             Has(mid, Of(r, A)) \/ (r = s /\ "ended" \in A)
        /\ Occ(Append(mid, <<s, "ended">>), Of(r, A)) =
             Occ(mid, Of(r, A)) + (IF r = s /\ "ended" \in A THEN 1 ELSE 0)
    BY <1>1, <1>4, FrameHas, FrameOcc
  <2> QED
    BY <1>2, <2>1
<1>9. ASSUME NEW r, NEW A, NEW B
      PROVE  After(frames', Of(r, A), Of(r, B)) <=>
               After(mid, Of(r, A), Of(r, B)) /\ (r = s /\ Has(mid, Of(r, A)) => "ended" \notin B)
  BY <1>1, <1>2, <1>4, FrameAfter
<1>10. \A r : Occ(frames, Of(r, Datum)) \in Nat /\ "ended" \notin Datum
  BY <1>3, OccType DEF Datum
<1>11. ASSUME NEW r \in AnyStream \ {s}
       PROVE  /\ \A A : Has(frames', Of(r, A)) <=> Has(frames, Of(r, A))
              /\ r \in Stream =>
                   /\ After(frames', Of(r, Ends), Of(r, Part))
                   /\ After(frames', Of(r, {"ended"}), Of(r, {"ended"}))
                   /\ Occ(frames', Of(r, Datum)) = Occ(frames, Of(r, Datum))
  <2>1. \A A : Has(frames', Of(r, A)) <=> Has(frames, Of(r, A))
    BY <1>6, <1>8
  <2>2. ASSUME r \in Stream
        PROVE  /\ After(frames', Of(r, Ends), Of(r, Part))
               /\ After(frames', Of(r, {"ended"}), Of(r, {"ended"}))
    BY <1>7, <1>9, <2>2 DEF IInv, Order
  <2>3. /\ Occ(mid, Of(r, Datum)) = Occ(frames, Of(r, Datum)) + 0
        /\ Occ(frames', Of(r, Datum)) = Occ(mid, Of(r, Datum)) + 0
    BY <1>6, <1>8
  <2> QED
    BY <1>10, <2>1, <2>2, <2>3
<1>12. /\ After(frames', Of(s, Ends), Of(s, Part))
       /\ After(frames', Of(s, {"ended"}), Of(s, {"ended"}))
  <2>1. ~Has(frames, Of(s, Ends)) /\ ~Has(frames, Of(s, {"ended"}))
    BY NothingAfterOver
  <2>2. "ended" \notin Part /\ ~Has(mid, Of(s, {"ended"}))
    BY <1>1, <1>6, <2>1 DEF Part
  <2> QED
    BY <1>7, <1>9, <2>1, <2>2 DEF IInv, Order
<1>13. Occ(frames', Of(s, Datum)) = Occ(frames, Of(s, Datum)) + (IF f \in Datum THEN 1 ELSE 0)
  <2>1. Occ(mid, Of(s, Datum)) = Occ(frames, Of(s, Datum)) + (IF f \in Datum THEN 1 ELSE 0)
    BY <1>6
  <2>2. Occ(frames', Of(s, Datum)) = Occ(mid, Of(s, Datum)) + 0
    BY <1>8, <1>10
  <2> QED
    BY <1>10, <2>1, <2>2
<1>14. frames' \in Seq(Received)
  BY <1>2, <1>3, <1>4
<1> QED
  BY <1>5, <1>11, <1>12, <1>13, <1>14

LEMMA UnchangedByArrival ==
  ASSUME TypeOK, NEW s \in AnyStream, NEW fs, Arrive(s, fs)
  PROVE  /\ Open /\ conn \in {"recv", "dispatch"} /\ conn' = "dispatch"
         /\ UNCHANGED <<peer, close, synced, joining, reg, started, pc, queue, got, left, size,
                        stuck, answer, overlap>>
BY Arrives

LEMMA RequestPreserves == ASSUME IInv, NEW s \in Stream, Request(s) PROVE IInv'
<1>1. s \in AnyStream /\ s # Zero /\ sent[s] = "idle" /\ ~Over(s)
  BY StreamThreads DEF Request, Over
<1>2. /\ UNCHANGED <<body, others, window>>
      /\ body \in [Stream -> 0..MaxData] /\ others \in 0..MaxOthers
      /\ sent \in [Stream -> {"idle", "open", "ended", "reset"}]
      /\ frames \in Seq(Received)
  BY FramesType DEF Request, IInv, TypeOK
<1>3. /\ Occ(frames, Of(s, Datum)) \in Int /\ body[s] \in Int
      /\ "req" \notin Ends /\ "req" \notin Datum /\ "req" \in Frame /\ "req" # "ended"
      /\ "reqEnd" \in Finish /\ "reqEnd" \notin Datum
  BY <1>2, OccType DEF Finish, Ends, Datum, Frame, StreamFrame
<1>4. CASE Arrive(s, <<"req">>) /\ sent' = [sent EXCEPT ![s] = "open"]
  <2>1. /\ sent' \in [Stream -> {"idle", "open", "ended", "reset"}]
        /\ \A r \in Stream \ {s} : sent'[r] = sent[r]
    BY <1>2, <1>4
  <2>2. ~Has(frames', Of(s, Ends)) /\ Occ(frames', Of(s, Datum)) = Occ(frames, Of(s, Datum))
    BY <1>1, <1>3, <1>4, OneArrives, NothingAfterOver
  <2>3. /\ After(frames', Of(s, Ends), Of(s, Part))
        /\ After(frames', Of(s, {"ended"}), Of(s, {"ended"}))
    BY <1>1, <1>3, <1>4, OneArrives
  <2>4. /\ frames' \in Seq(Received)
        /\ After(frames', GoAways, Received)
        /\ \A r \in AnyStream \ {s} :
             /\ \A A : Has(frames', Of(r, A)) <=> Has(frames, Of(r, A))
             /\ r \in Stream =>
                  /\ After(frames', Of(r, Ends), Of(r, Part))
                  /\ After(frames', Of(r, {"ended"}), Of(r, {"ended"}))
                  /\ Occ(frames', Of(r, Datum)) = Occ(frames, Of(r, Datum))
    BY <1>1, <1>3, <1>4, OneArrives
  <2>5. ASSUME NEW r \in AnyStream, r # s \/ r = Zero
        PROVE  /\ \A A \in {Ends, Part, {"ended"}, Part \union Ends} :
                    Has(frames', Of(r, A)) <=> Has(frames, Of(r, A))
               /\ r \in Stream =>
                    /\ After(frames', Of(r, Ends), Of(r, Part))
                    /\ After(frames', Of(r, {"ended"}), Of(r, {"ended"}))
                    /\ Occ(frames', Of(r, Datum)) = Occ(frames, Of(r, Datum))
                    /\ sent'[r] = sent[r] /\ body'[r] = body[r]
    <3>1. r \in AnyStream \ {s}
      BY <1>1, <2>5
    <3>2. \A A : Has(frames', Of(r, A)) <=> Has(frames, Of(r, A))
      BY <3>1, <2>4
    <3>3. r \in Stream =>
            /\ After(frames', Of(r, Ends), Of(r, Part))
            /\ After(frames', Of(r, {"ended"}), Of(r, {"ended"}))
            /\ Occ(frames', Of(r, Datum)) = Occ(frames, Of(r, Datum))
      BY <3>1, <2>4
    <3>4. r \in Stream => sent'[r] = sent[r] /\ body'[r] = body[r]
      BY <3>1, <1>2, <2>1
    <3> QED
      BY <3>2, <3>3, <3>4
  <2>6. /\ After(frames', Of(s, Ends), Of(s, Part))
        /\ After(frames', Of(s, {"ended"}), Of(s, {"ended"}))
        /\ Has(frames', Of(s, Ends)) \/ Over(s) => Over(s)'
        /\ \A A \in {Part, {"ended"}} :
             Has(frames', Of(s, A)) => ~Over(s) \/ Has(frames, Of(s, A))
        /\ Occ(frames', Of(s, Datum)) - body'[s] = Occ(frames, Of(s, Datum)) - body[s]
    BY <1>1, <1>2, <1>3, <2>1, <2>2, <2>3
  <2> QED
    BY <1>1, <1>2, <1>4, <2>1, <2>4, <2>5, <2>6, UnchangedByArrival, ArrivalPreserves
       DEF IInv
<1>5. CASE Arrive(s, <<"reqEnd", "ended">>) /\ sent' = [sent EXCEPT ![s] = "ended"]
  <2>1. /\ sent' \in [Stream -> {"idle", "open", "ended", "reset"}]
        /\ \A r \in Stream \ {s} : sent'[r] = sent[r]
        /\ Over(s)'
    BY <1>2, <1>5 DEF Over
  <2>2. Occ(frames', Of(s, Datum)) = Occ(frames, Of(s, Datum))
    BY <1>1, <1>3, <1>5, EndArrives
  <2>3. /\ After(frames', Of(s, Ends), Of(s, Part))
        /\ After(frames', Of(s, {"ended"}), Of(s, {"ended"}))
    BY <1>1, <1>3, <1>5, EndArrives
  <2>4. /\ frames' \in Seq(Received)
        /\ After(frames', GoAways, Received)
        /\ \A r \in AnyStream \ {s} :
             /\ \A A : Has(frames', Of(r, A)) <=> Has(frames, Of(r, A))
             /\ r \in Stream =>
                  /\ After(frames', Of(r, Ends), Of(r, Part))
                  /\ After(frames', Of(r, {"ended"}), Of(r, {"ended"}))
                  /\ Occ(frames', Of(r, Datum)) = Occ(frames, Of(r, Datum))
    BY <1>1, <1>3, <1>5, EndArrives
  <2>5. ASSUME NEW r \in AnyStream, r # s \/ r = Zero
        PROVE  /\ \A A \in {Ends, Part, {"ended"}, Part \union Ends} :
                    Has(frames', Of(r, A)) <=> Has(frames, Of(r, A))
               /\ r \in Stream =>
                    /\ After(frames', Of(r, Ends), Of(r, Part))
                    /\ After(frames', Of(r, {"ended"}), Of(r, {"ended"}))
                    /\ Occ(frames', Of(r, Datum)) = Occ(frames, Of(r, Datum))
                    /\ sent'[r] = sent[r] /\ body'[r] = body[r]
    <3>1. r \in AnyStream \ {s}
      BY <1>1, <2>5
    <3>2. \A A : Has(frames', Of(r, A)) <=> Has(frames, Of(r, A))
      BY <3>1, <2>4
    <3>3. r \in Stream =>
            /\ After(frames', Of(r, Ends), Of(r, Part))
            /\ After(frames', Of(r, {"ended"}), Of(r, {"ended"}))
            /\ Occ(frames', Of(r, Datum)) = Occ(frames, Of(r, Datum))
      BY <3>1, <2>4
    <3>4. r \in Stream => sent'[r] = sent[r] /\ body'[r] = body[r]
      BY <3>1, <1>2, <2>1
    <3> QED
      BY <3>2, <3>3, <3>4
  <2>6. /\ After(frames', Of(s, Ends), Of(s, Part))
        /\ After(frames', Of(s, {"ended"}), Of(s, {"ended"}))
        /\ Has(frames', Of(s, Ends)) \/ Over(s) => Over(s)'
        /\ \A A \in {Part, {"ended"}} :
             Has(frames', Of(s, A)) => ~Over(s) \/ Has(frames, Of(s, A))
        /\ Occ(frames', Of(s, Datum)) - body'[s] = Occ(frames, Of(s, Datum)) - body[s]
    BY <1>1, <1>2, <1>3, <2>1, <2>2, <2>3
  <2> QED
    BY <1>1, <1>2, <1>5, <2>1, <2>4, <2>5, <2>6, UnchangedByArrival, ArrivalPreserves
       DEF IInv
<1> QED
  BY <1>4, <1>5 DEF Request

LEMMA DataPreserves == ASSUME IInv, NEW s \in Stream, Data(s) PROVE IInv'
<1>1. s \in AnyStream /\ s # Zero /\ sent[s] = "open" /\ ~Over(s)
  BY StreamThreads DEF Data, Over
<1>2. /\ UNCHANGED <<others, window>> /\ others \in 0..MaxOthers
      /\ body' = [body EXCEPT ![s] = @ + 1]
      /\ sent \in [Stream -> {"idle", "open", "ended", "reset"}]
      /\ frames \in Seq(Received)
  BY FramesType DEF Data, IInv, TypeOK
<1>3. /\ body \in [Stream -> 0..MaxData] /\ body' \in [Stream -> 0..MaxData]
      /\ body'[s] = body[s] + 1
      /\ \A r \in Stream \ {s} : body'[r] = body[r]
  BY <1>2, NumbersAssumption DEF Data, IInv, TypeOK
<1>4. /\ Occ(frames, Of(s, Datum)) \in Int /\ body[s] \in Int
      /\ "data" \notin Ends /\ "data" \in Datum /\ "data" \in Frame /\ "data" # "ended"
      /\ "dataEnd" \in Finish /\ "dataEnd" \in Datum
  BY <1>2, <1>3, OccType DEF Finish, Ends, Datum, Frame, StreamFrame
<1>5. CASE Arrive(s, <<"data">>) /\ UNCHANGED sent
  <2>1. ~Has(frames', Of(s, Ends)) /\ Occ(frames', Of(s, Datum)) = Occ(frames, Of(s, Datum)) + 1
    BY <1>1, <1>4, <1>5, OneArrives, NothingAfterOver
  <2>2. /\ After(frames', Of(s, Ends), Of(s, Part))
        /\ After(frames', Of(s, {"ended"}), Of(s, {"ended"}))
    BY <1>1, <1>4, <1>5, OneArrives
  <2>3. /\ frames' \in Seq(Received)
        /\ After(frames', GoAways, Received)
        /\ \A r \in AnyStream \ {s} :
             /\ \A A : Has(frames', Of(r, A)) <=> Has(frames, Of(r, A))
             /\ r \in Stream =>
                  /\ After(frames', Of(r, Ends), Of(r, Part))
                  /\ After(frames', Of(r, {"ended"}), Of(r, {"ended"}))
                  /\ Occ(frames', Of(r, Datum)) = Occ(frames, Of(r, Datum))
    BY <1>1, <1>4, <1>5, OneArrives
  <2>4. Occ(frames', Of(s, Datum)) - body'[s] = Occ(frames, Of(s, Datum)) - body[s]
    BY <1>3, <1>4, <2>1
  <2>5. ASSUME NEW r \in AnyStream, r # s \/ r = Zero
        PROVE  /\ \A A \in {Ends, Part, {"ended"}, Part \union Ends} :
                    Has(frames', Of(r, A)) <=> Has(frames, Of(r, A))
               /\ r \in Stream =>
                    /\ After(frames', Of(r, Ends), Of(r, Part))
                    /\ After(frames', Of(r, {"ended"}), Of(r, {"ended"}))
                    /\ Occ(frames', Of(r, Datum)) = Occ(frames, Of(r, Datum))
                    /\ sent'[r] = sent[r] /\ body'[r] = body[r]
    <3>1. r \in AnyStream \ {s}
      BY <1>1, <2>5
    <3>2. \A A : Has(frames', Of(r, A)) <=> Has(frames, Of(r, A))
      BY <3>1, <2>3
    <3>3. r \in Stream =>
            /\ After(frames', Of(r, Ends), Of(r, Part))
            /\ After(frames', Of(r, {"ended"}), Of(r, {"ended"}))
            /\ Occ(frames', Of(r, Datum)) = Occ(frames, Of(r, Datum))
      BY <3>1, <2>3
    <3>4. r \in Stream => sent'[r] = sent[r] /\ body'[r] = body[r]
      BY <3>1, <1>3, <1>5
    <3> QED
      BY <3>2, <3>3, <3>4
  <2>6. /\ After(frames', Of(s, Ends), Of(s, Part))
        /\ After(frames', Of(s, {"ended"}), Of(s, {"ended"}))
        /\ Has(frames', Of(s, Ends)) \/ Over(s) => Over(s)'
        /\ \A A \in {Part, {"ended"}} :
             Has(frames', Of(s, A)) => ~Over(s) \/ Has(frames, Of(s, A))
        /\ Occ(frames', Of(s, Datum)) - body'[s] = Occ(frames, Of(s, Datum)) - body[s]
    BY <1>1, <2>1, <2>2, <2>4
  <2> QED
    BY <1>1, <1>2, <1>3, <1>5, <2>3, <2>5, <2>6, UnchangedByArrival, ArrivalPreserves
       DEF IInv
<1>6. CASE Arrive(s, <<"dataEnd", "ended">>) /\ sent' = [sent EXCEPT ![s] = "ended"]
  <2>1. /\ sent' \in [Stream -> {"idle", "open", "ended", "reset"}]
        /\ \A r \in Stream \ {s} : sent'[r] = sent[r]
        /\ Over(s)'
    BY <1>2, <1>6 DEF Over
  <2>2. Occ(frames', Of(s, Datum)) = Occ(frames, Of(s, Datum)) + 1
    BY <1>1, <1>4, <1>6, EndArrives
  <2>3. /\ After(frames', Of(s, Ends), Of(s, Part))
        /\ After(frames', Of(s, {"ended"}), Of(s, {"ended"}))
    BY <1>1, <1>4, <1>6, EndArrives
  <2>4. /\ frames' \in Seq(Received)
        /\ After(frames', GoAways, Received)
        /\ \A r \in AnyStream \ {s} :
             /\ \A A : Has(frames', Of(r, A)) <=> Has(frames, Of(r, A))
             /\ r \in Stream =>
                  /\ After(frames', Of(r, Ends), Of(r, Part))
                  /\ After(frames', Of(r, {"ended"}), Of(r, {"ended"}))
                  /\ Occ(frames', Of(r, Datum)) = Occ(frames, Of(r, Datum))
    BY <1>1, <1>4, <1>6, EndArrives
  <2>5. Occ(frames', Of(s, Datum)) - body'[s] = Occ(frames, Of(s, Datum)) - body[s]
    BY <1>3, <1>4, <2>2
  <2>6. ASSUME NEW r \in AnyStream, r # s \/ r = Zero
        PROVE  /\ \A A \in {Ends, Part, {"ended"}, Part \union Ends} :
                    Has(frames', Of(r, A)) <=> Has(frames, Of(r, A))
               /\ r \in Stream =>
                    /\ After(frames', Of(r, Ends), Of(r, Part))
                    /\ After(frames', Of(r, {"ended"}), Of(r, {"ended"}))
                    /\ Occ(frames', Of(r, Datum)) = Occ(frames, Of(r, Datum))
                    /\ sent'[r] = sent[r] /\ body'[r] = body[r]
    <3>1. r \in AnyStream \ {s}
      BY <1>1, <2>6
    <3>2. \A A : Has(frames', Of(r, A)) <=> Has(frames, Of(r, A))
      BY <3>1, <2>4
    <3>3. r \in Stream =>
            /\ After(frames', Of(r, Ends), Of(r, Part))
            /\ After(frames', Of(r, {"ended"}), Of(r, {"ended"}))
            /\ Occ(frames', Of(r, Datum)) = Occ(frames, Of(r, Datum))
      BY <3>1, <2>4
    <3>4. r \in Stream => sent'[r] = sent[r] /\ body'[r] = body[r]
      BY <3>1, <1>3, <2>1
    <3> QED
      BY <3>2, <3>3, <3>4
  <2>7. /\ After(frames', Of(s, Ends), Of(s, Part))
        /\ After(frames', Of(s, {"ended"}), Of(s, {"ended"}))
        /\ Has(frames', Of(s, Ends)) \/ Over(s) => Over(s)'
        /\ \A A \in {Part, {"ended"}} :
             Has(frames', Of(s, A)) => ~Over(s) \/ Has(frames, Of(s, A))
        /\ Occ(frames', Of(s, Datum)) - body'[s] = Occ(frames, Of(s, Datum)) - body[s]
    BY <1>1, <2>1, <2>3, <2>5
  <2> QED
    BY <1>1, <1>2, <1>3, <1>6, <2>1, <2>4, <2>6, <2>7, UnchangedByArrival, ArrivalPreserves
       DEF IInv
<1> QED
  BY <1>5, <1>6 DEF Data

\* Frames that are no part of a request.
LEMMA NoPartPreserves ==
  ASSUME IInv, NEW s \in AnyStream, NEW f \in {"rst", "other", "goaway"}, Arrive(s, <<f>>),
         window' \in {window, Window}, others' \in 0..MaxOthers, UNCHANGED body,
         UNCHANGED sent \/ (s \in Stream /\ sent' = [sent EXCEPT ![s] = "reset"])
  PROVE  IInv'
<1>1. /\ body \in [Stream -> 0..MaxData]
      /\ sent \in [Stream -> {"idle", "open", "ended", "reset"}]
      /\ frames \in Seq(Received)
  BY FramesType DEF IInv, TypeOK
<1>2. f \in Frame /\ f \notin Ends /\ f \notin Part /\ f \notin Datum /\ f # "ended"
  BY DEF Finish, Ends, Datum, Part, Frame, StreamFrame
<1>3. /\ sent' \in [Stream -> {"idle", "open", "ended", "reset"}]
      /\ \A r \in Stream : (r # s => sent'[r] = sent[r]) /\ (Over(r) => Over(r)')
  BY <1>1 DEF Over
<1>4. ASSUME NEW A, f \notin A, NEW r \in AnyStream
      PROVE  Has(frames', Of(r, A)) <=> Has(frames, Of(r, A))
  <2>1. CASE r = s
    BY <1>2, <1>4, <2>1, OneArrives
  <2>2. CASE r # s
    BY <1>2, <2>2, OneArrives
  <2> QED
    BY <2>1, <2>2
<1>5. ASSUME NEW r \in Stream
      PROVE  /\ After(frames', Of(r, Ends), Of(r, Part))
             /\ After(frames', Of(r, {"ended"}), Of(r, {"ended"}))
             /\ Occ(frames', Of(r, Datum)) = Occ(frames, Of(r, Datum))
  <2>1. CASE r = s
    <3>1. Occ(frames', Of(s, Datum)) = Occ(frames, Of(s, Datum)) + 0
      BY <1>2, OneArrives
    <3>2. Occ(frames, Of(s, Datum)) \in Nat
      BY <1>1, OccType
    <3>3. /\ After(frames', Of(s, Ends), Of(s, Part))
          /\ After(frames', Of(s, {"ended"}), Of(s, {"ended"}))
      BY <1>2, <1>5, <2>1, OneArrives
    <3> QED
      BY <2>1, <3>1, <3>2, <3>3
  <2>2. CASE r # s
    BY <1>2, <2>2, OneArrives, StreamThreads
  <2> QED
    BY <2>1, <2>2
<1>6. frames' \in Seq(Received) /\ After(frames', GoAways, Received)
  BY <1>2, OneArrives
<1>7. ASSUME NEW r \in AnyStream, NEW A \in {Ends, Part, {"ended"}, Part \union Ends}
      PROVE  Has(frames', Of(r, A)) <=> Has(frames, Of(r, A))
  <2>1. f \notin A
    BY <1>2
  <2> QED
    BY <1>4, <2>1
<1>8. ASSUME s \in Stream
      PROVE  /\ Has(frames', Of(s, Ends)) \/ Over(s) => Over(s)'
             /\ \A A \in {Part, {"ended"}} :
                  Has(frames', Of(s, A)) => ~Over(s) \/ Has(frames, Of(s, A))
  BY <1>3, <1>7, <1>8 DEF IInv, Order
<1>9. ASSUME NEW r \in AnyStream, r # s \/ r = Zero
      PROVE  /\ \A A \in {Ends, Part, {"ended"}, Part \union Ends} :
                  Has(frames', Of(r, A)) <=> Has(frames, Of(r, A))
             /\ r \in Stream =>
                  /\ After(frames', Of(r, Ends), Of(r, Part))
                  /\ After(frames', Of(r, {"ended"}), Of(r, {"ended"}))
                  /\ Occ(frames', Of(r, Datum)) = Occ(frames, Of(r, Datum))
                  /\ sent'[r] = sent[r] /\ body'[r] = body[r]
  <2>1. r \in Stream => r # s
    BY <1>9, StreamThreads
  <2> QED
    BY <1>3, <1>5, <1>7, <2>1
<1>10. ASSUME s \in Stream
       PROVE  /\ After(frames', Of(s, Ends), Of(s, Part))
              /\ After(frames', Of(s, {"ended"}), Of(s, {"ended"}))
              /\ Occ(frames', Of(s, Datum)) - body'[s] = Occ(frames, Of(s, Datum)) - body[s]
  BY <1>5, <1>10
<1>11. body' \in [Stream -> 0..MaxData]
  BY <1>1
<1> QED
  BY <1>3, <1>6, <1>8, <1>9, <1>10, <1>11, UnchangedByArrival, ArrivalPreserves DEF IInv

LEMMA ClientPreserves == ASSUME IInv, Client PROVE IInv'
<1>1. Zero \in AnyStream /\ Noisy \subseteq AnyStream /\ Stream \subseteq AnyStream
  BY StreamsAssumption DEF AnyStream
<1>2. others \in 0..MaxOthers /\ MaxOthers \in Nat
  BY NumbersAssumption DEF IInv, TypeOK
<1>3. CASE GoAway
  BY <1>1, <1>2, <1>3, NoPartPreserves DEF GoAway
<1>4. CASE PeerLeaves
  <2>1. peer' \in {"there", "eof", "gone"}
    BY <1>4, LeavingAssumption DEF PeerLeaves
  <2>2. /\ UNCHANGED <<sent, body, others, conn, close, synced, frames, joining>>
        /\ UNCHANGED <<reg, started, pc, queue, got>>
        /\ UNCHANGED <<left, size, stuck, window, answer, overlap>>
    BY <1>4 DEF PeerLeaves, receiver, threads, writers
  <2>3. TypeOK'
    BY <2>1, <2>2 DEF IInv, TypeOK
  <2>4. Phases' /\ Order' /\ Starts'
    BY <2>2 DEF IInv, Phases, Order, Starts, Open, Over, Early
  <2>5. Threads' /\ Bodies' /\ Flow' /\ NoThreadForgotten'
    BY <2>2 DEF IInv, Threads, Bodies, Seen, Over, Flow, CutOnlyByOverlap, NoThreadForgotten
  <2> QED
    BY <2>3, <2>4, <2>5 DEF IInv
<1>5. CASE Unexpected
  <2>1. /\ synced' = FALSE /\ conn = "recv" /\ conn' = "finally"
        /\ UNCHANGED <<peer, sent, body, others, close, frames, joining>>
        /\ UNCHANGED <<reg, started, pc, queue, got>>
        /\ UNCHANGED <<left, size, stuck, window, answer, overlap>>
    BY <1>5 DEF Unexpected, client, threads, writers
  <2>2. TypeOK'
    BY <2>1 DEF IInv, TypeOK
  <2>3. Phases' /\ Order' /\ Starts'
    BY <2>1 DEF IInv, Phases, Order, Starts, Open, Over
  <2>4. Threads' /\ Bodies' /\ Flow' /\ NoThreadForgotten'
    BY <2>1 DEF IInv, Threads, Bodies, Seen, Over, Flow, CutOnlyByOverlap, NoThreadForgotten
  <2> QED
    BY <2>2, <2>3, <2>4 DEF IInv
<1>6. ASSUME NEW s \in Stream, Request(s) \/ Data(s) PROVE IInv'
  BY <1>6, RequestPreserves, DataPreserves
<1>7. ASSUME NEW s \in Noisy, Other(s) PROVE IInv'
  <2>1. others' \in 0..MaxOthers
    BY <1>2, <1>7 DEF Other, Another
  <2> QED
    BY <1>1, <1>7, <2>1, NoPartPreserves DEF Other
<1>8. ASSUME NEW s \in Noisy, Reset(s) PROVE IInv'
  <2>1. others' \in 0..MaxOthers
    BY <1>2, <1>8 DEF Reset, Another
  <2> QED
    BY <1>1, <1>8, <2>1, NoPartPreserves DEF Reset
<1> QED
  BY <1>3, <1>4, <1>5, <1>6, <1>7, <1>8 DEF Client

-----------------------------------------------------------------------------
(* The connection thread                                                   *)

\* Steps that leave the frames and the threads alone.
LEMMA ConnectionPreserves ==
  ASSUME IInv, Setup \/ RecvFails \/ RecvNothing \/ Dispatched \/ AllJoined \/ HandleLoop
  PROVE  IInv'
<1> USE DEF IInv
<1>1. /\ UNCHANGED <<peer, sent, body, others, synced, frames, joining>>
      /\ UNCHANGED <<reg, started, pc, queue, got>>
      /\ UNCHANGED <<left, size, stuck, window, answer, overlap>>
  BY DEF Setup, RecvFails, RecvNothing, Dispatched, AllJoined, HandleLoop, client, receiver,
         threads, writers
<1>2. TypeOK'
  BY <1>1 DEF TypeOK, Setup, RecvFails, RecvNothing, Dispatched, AllJoined, HandleLoop
<1>3. close' \in BOOLEAN /\ (close => close')
  BY <1>2 DEF TypeOK, Phases, Setup, RecvFails, RecvNothing, Dispatched, AllJoined, HandleLoop
<1>4. Phases'
  <2>1. joining = NoStream
    <3>1. CASE AllJoined
      BY <3>1, NoStreamAssumption DEF AllJoined, Phases, TypeOK
    <3>2. CASE ~AllJoined
      BY <3>2 DEF Phases, Setup, RecvFails, RecvNothing, Dispatched, HandleLoop
    <3> QED
      BY <3>1, <3>2
  <2>2. frames = <<>>
    BY DEF Phases, Setup, RecvFails, RecvNothing, Dispatched, AllJoined, HandleLoop
  <2>3. conn' = "setup" => ~close'
    BY DEF Setup, RecvFails, RecvNothing, Dispatched, AllJoined, HandleLoop
  <2>4. conn' \in {"finally", "again"} => ~Open'
    BY <1>1 DEF Phases, Open, Setup, RecvFails, RecvNothing, Dispatched, AllJoined, HandleLoop
  <2> QED
    BY <1>1, <2>1, <2>2, <2>3, <2>4 DEF Phases
<1>5. Order' /\ Bodies' /\ Threads' /\ Flow'
  BY <1>1 DEF Order, Bodies, Threads, Flow, Over, Seen, CutOnlyByOverlap
<1>6. Starts' /\ NoThreadForgotten'
  BY <1>1, <1>3 DEF Starts, NoThreadForgotten, Over, Early, Open
<1> QED
  BY <1>2, <1>4, <1>5, <1>6

\* NoThreadForgotten, in the words of the other parts.
LEMMA LastFrame ==
  ASSUME NEW q \in Seq(Frame)
  PROVE  (\E i \in 1..Len(q) : q[i] \notin {"req", "data", "other"}) <=> Has(q, Last)
<1>1. \A i \in 1..Len(q) : q[i] \in Frame
  OBVIOUS
<1> QED
  BY <1>1 DEF Has, Last

LEMMA Remembered ==
  ASSUME TypeOK, NoThreadForgotten, NEW t \in Thread, pc[t] \in Reading
  PROVE  reg[t[1]] = t[2] \/ close \/ Has(queue[t], Last)
<1>1. queue[t] \in Seq(Frame)
  BY DEF TypeOK
<1> QED
  BY <1>1, LastFrame DEF NoThreadForgotten

LEMMA Remember ==
  ASSUME TypeOK',
         \A t \in Thread : pc'[t] \in Reading =>
           reg'[t[1]] = t[2] \/ close' \/ Has(queue'[t], Last)
  PROVE  NoThreadForgotten'
<1>1. \A t \in Thread : queue'[t] \in Seq(Frame)
  BY DEF TypeOK
<1> QED
  BY <1>1, LastFrame DEF NoThreadForgotten

LEMMA PutKeeps ==
  ASSUME NEW t, queue[t] \in Seq(Frame), NEW p, NEW f \in Frame,
         p \notin Reading => queue[t] = <<>>
  PROVE  /\ Put(t, p, f) \in Seq(Frame)
         /\ p \notin Reading => Put(t, p, f) = <<>>
         /\ \A E : Has(Put(t, p, f), E) <=> Has(queue[t], E) \/ (p \in Reading /\ f \in E)
         /\ After(Put(t, p, f), Finish, Part) <=>
              /\ After(queue[t], Finish, Part)
              /\ p \in Reading /\ Has(queue[t], Finish) => f \notin Part
         /\ Occ(Put(t, p, f), Datum) =
              Occ(queue[t], Datum) + (IF p \in Reading /\ f \in Datum THEN 1 ELSE 0)
<1>1. CASE p \in Reading
  <2>1. Put(t, p, f) = Append(queue[t], f)
    BY <1>1 DEF Put
  <2>2. \A E : Has(Append(queue[t], f), E) <=> Has(queue[t], E) \/ f \in E
    BY HasAppend
  <2>3. After(Append(queue[t], f), Finish, Part) <=>
          After(queue[t], Finish, Part) /\ (Has(queue[t], Finish) => f \notin Part)
    BY AfterAppend
  <2>4. Occ(Append(queue[t], f), Datum) = Occ(queue[t], Datum) + (IF f \in Datum THEN 1 ELSE 0)
    BY OccAppend
  <2>5. Append(queue[t], f) \in Seq(Frame)
    OBVIOUS
  <2> QED
    BY <1>1, <2>1, <2>2, <2>3, <2>4, <2>5
<1>2. CASE p \notin Reading
  <2>1. Put(t, p, f) = <<>> /\ queue[t] = <<>>
    BY <1>2 DEF Put
  <2>2. Occ(queue[t], Datum) = 0
    BY <2>1, EmptyQueue
  <2> QED
    BY <1>2, <2>1, <2>2, EmptyQueue
<1> QED
  BY <1>1, <1>2

LEMMA TerminatedPreserves ==
  ASSUME IInv, DispatchNext, Head(frames)[2] = "goaway"
  PROVE  IInv'
<1> USE DEF IInv
<1>1. /\ close' = TRUE /\ conn = "dispatch" /\ frames # <<>> /\ frames' = Tail(frames)
      /\ queue' = [t \in Thread |->
                     IF reg[t[1]] = t[2] THEN Put(t, pc[t], "goaway") ELSE queue[t]]
      /\ UNCHANGED <<peer, sent, body, others, conn, synced, joining>>
      /\ UNCHANGED <<reg, started, pc, got>>
      /\ UNCHANGED <<left, size, stuck, window, answer, overlap>>
  BY DEF DispatchNext, Terminated, client, writers
<1>2. frames' = <<>>
  <2>1. frames \in Seq(Received) /\ Head(frames) \in Received /\ Tail(frames) \in Seq(Received)
    BY <1>1, FramesType
  <2>2. Head(frames) \in GoAways
    BY <2>1 DEF Received, GoAways
  <2>3. ~Has(Tail(frames), Received)
    BY <1>1, <2>1, <2>2, AfterTail DEF Phases
  <2>4. Tail(frames) # <<>> => 1 \in 1..Len(Tail(frames)) /\ Tail(frames)[1] \in Received
    BY <2>1
  <2> QED
    BY <1>1, <2>3, <2>4 DEF Has
<1>3. ASSUME NEW t \in Thread
      PROVE  /\ queue'[t] \in Seq(Frame)
             /\ pc[t] \notin Reading => queue'[t] = <<>>
             /\ \A E : "goaway" \notin E => (Has(queue'[t], E) <=> Has(queue[t], E))
             /\ After(queue[t], Finish, Part) => After(queue'[t], Finish, Part)
             /\ Occ(queue'[t], Datum) = Occ(queue[t], Datum)
  <2>1. /\ queue[t] \in Seq(Frame) /\ (pc[t] \notin Reading => queue[t] = <<>>)
        /\ "goaway" \in Frame /\ "goaway" \notin Part /\ "goaway" \notin Datum
    BY DEF TypeOK, Threads, Frame, Part, Datum
  <2>2. CASE reg[t[1]] = t[2]
    <3>1. queue'[t] = Put(t, pc[t], "goaway")
      BY <1>1, <2>2
    <3>2. Occ(queue[t], Datum) \in Nat
      BY <2>1, OccType
    <3>3. Occ(Put(t, pc[t], "goaway"), Datum) = Occ(queue[t], Datum) + 0
      BY <2>1, PutKeeps
    <3>4. \A E : Has(Put(t, pc[t], "goaway"), E) <=>
                   Has(queue[t], E) \/ (pc[t] \in Reading /\ "goaway" \in E)
      BY <2>1, PutKeeps
    <3>5. /\ Put(t, pc[t], "goaway") \in Seq(Frame)
          /\ pc[t] \notin Reading => Put(t, pc[t], "goaway") = <<>>
          /\ After(queue[t], Finish, Part) => After(Put(t, pc[t], "goaway"), Finish, Part)
      BY <2>1, PutKeeps
    <3> QED
      BY <3>1, <3>2, <3>3, <3>4, <3>5
  <2>3. CASE reg[t[1]] # t[2]
    BY <1>1, <2>1, <2>3
  <2> QED
    BY <2>2, <2>3
<1>4. TypeOK'
  <2>1. queue' \in [Thread -> Seq(Frame)]
    BY <1>1, <1>3
  <2> QED
    BY <1>1, <1>2, <2>1 DEF TypeOK
<1>5. Phases' /\ Starts' /\ NoThreadForgotten'
  BY <1>1, <1>2, EmptyQueue DEF Phases, Starts, Open, NoThreadForgotten
<1>6. Order'
  BY <1>1, <1>2, EmptyQueue DEF Order
<1>7. Threads'
  <2>1. "goaway" \notin Part
    BY DEF Part
  <2>2. ASSUME NEW t \in Thread
        PROVE  /\ pc[t] \notin Reading => queue'[t] = <<>>
               /\ Has(queue'[t], Part) <=> Has(queue[t], Part)
    BY <1>3, <2>1
  <2> QED
    BY <1>1, <2>2 DEF Threads
<1>8. Bodies'
  <2> SUFFICES ASSUME NEW s \in Stream
               PROVE  /\ After(queue'[<<s, 1>>], Finish, Part)
                      /\ Has(queue'[<<s, 1>>], Finish) \/ pc[<<s, 1>>] \in Writing =>
                           Over(s) /\ ~Has(frames', Of(s, Part))
                      /\ Seen(s)' <= body[s]
                      /\ pc[<<s, 1>>] # "done" => Seen(s)' = body[s]
    BY <1>1 DEF Bodies, Over
  <2>1. <<s, 1>> \in Thread /\ frames \in Seq(Received) /\ "goaway" \notin Finish
    BY StreamThreads, FramesType DEF Finish
  <2>2. ~Has(frames', Of(s, Part)) /\ Occ(frames', Of(s, Datum)) = 0
    BY <1>2, EmptyQueue
  <2>3. Occ(frames, Of(s, Datum)) = 0
    <3>0. ~Has(Tail(frames), Of(s, Datum)) /\ Head(frames) \in Received
      <4>1. Tail(frames) = <<>> /\ Head(frames) \in Received
        BY <1>1, <1>2, <2>1
      <4> QED
        BY <4>1, EmptyQueue
    <3>1. Head(frames) = <<Head(frames)[1], "goaway">>
      BY <3>0 DEF Received
    <3>2. Head(frames) \notin Of(s, Datum)
      BY <3>1, OfPair DEF Datum
    <3>3. ~Has(frames, Of(s, Datum))
      BY <1>1, <2>1, <3>0, <3>2, HasTail
    <3> QED
      BY <2>1, <3>3, OccType
  <2>4. Occ(queue'[<<s, 1>>], Datum) = Occ(queue[<<s, 1>>], Datum)
    BY <1>3, <2>1
  <2>5. Seen(s)' = Seen(s)
    BY <1>1, <2>2, <2>3, <2>4 DEF Seen
  <2>6. Has(queue'[<<s, 1>>], Finish) <=> Has(queue[<<s, 1>>], Finish)
    BY <1>3, <2>1
  <2>7. After(queue'[<<s, 1>>], Finish, Part)
    BY <1>3, <2>1 DEF Bodies
  <2> QED
    BY <2>2, <2>5, <2>6, <2>7 DEF Bodies
<1>9. Flow'
  BY <1>1 DEF Flow, CutOnlyByOverlap
<1> QED
  BY <1>4, <1>5, <1>6, <1>7, <1>8, <1>9

\* A frame is put into the queue of the thread k of its stream s, which is
\* started for it or is the one that is registered.
LEMMA DispatchEffect ==
  ASSUME IInv, DispatchNext, NEW s, NEW f, Head(frames) = <<s, f>>, f # "goaway",
         NEW k, k = IF reg[s] = 0 THEN started[s] + 1 ELSE reg[s]
  PROVE  /\ Open /\ conn = "dispatch" /\ joining = NoStream
         /\ frames # <<>> /\ frames' = Tail(frames)
         /\ s \in AnyStream /\ f \in Frame /\ <<s, k>> \in Thread
         /\ reg[s] = 0 => pc[<<s, k>>] = "none" /\ queue[<<s, k>>] = <<>> /\ started[s] <= 2
         /\ f \in Part => s \in Stream /\ Early(s) /\ k = 1
         /\ f = "ended" => s \in Stream /\ started[s] <= (IF reg[s] = 0 THEN 1 ELSE 2)
         /\ reg' = [reg EXCEPT ![s] = IF EndsStream(f) THEN 0 ELSE k]
         /\ started' = [started EXCEPT ![s] = IF reg[s] = 0 THEN k ELSE @]
         /\ pc' = [pc EXCEPT ![<<s, k>>] = IF reg[s] = 0 THEN "idle" ELSE @]
         /\ queue' = [queue EXCEPT ![<<s, k>>] = Put(<<s, k>>, pc'[<<s, k>>], f)]
         /\ UNCHANGED <<peer, sent, body, others, conn, close, synced, joining>>
         /\ UNCHANGED <<got, left, size, stuck, window, answer, overlap>>
<1> USE DEF IInv
<1>1. /\ conn = "dispatch" /\ frames # <<>> /\ frames' = Tail(frames)
      /\ Dispatch(s, f)
      /\ UNCHANGED <<peer, sent, body, others, conn, synced, joining, got>>
      /\ UNCHANGED <<left, size, stuck, window, answer, overlap>>
  BY DEF DispatchNext, client, writers
<1>2. Open /\ joining = NoStream
  BY <1>1 DEF Phases
<1>3. /\ frames \in Seq(Received) /\ Head(frames) \in Received
      /\ s \in AnyStream /\ f \in Frame
  <2>1. frames \in Seq(Received) /\ Head(frames) \in Received
    BY <1>1, FramesType
  <2> QED
    BY <2>1, ReceivedPair
<1>4. /\ reg[s] \in 0..3 /\ started[s] \in 0..3
      /\ reg[s] = 0 => started[s] <= 2
  BY <1>2, <1>3 DEF TypeOK, Starts
<1>5. k \in 1..3 /\ <<s, k>> \in Thread
  <2>1. k \in 1..3
    BY <1>4
  <2> QED
    BY <1>3, <2>1, StreamThreads
<1>6. reg[s] = 0 => pc[<<s, k>>] = "none" /\ queue[<<s, k>>] = <<>>
  <2>1. reg[s] = 0 => k > started[s]
    BY <1>4
  <2> QED
    BY <1>5, <2>1 DEF Threads, Reading
<1>7. ASSUME NEW A, f \in A PROVE Has(frames, Of(s, A))
  <2>1. Head(frames) \in Of(s, A)
    BY <1>7, OfPair
  <2> QED
    BY <1>1, <1>3, <2>1, HasTail
<1>8. f \in Part \union Ends => s \in Stream
  <2>1. f \in Part \union Ends => s # Zero
    BY <1>7 DEF Order
  <2> QED
    BY <1>3, <2>1 DEF AnyStream
<1>9. f \in Part => s \in Stream /\ Early(s) /\ k = 1
  <2>1. f \in Part => Has(frames, Of(s, Part)) /\ s \in Stream
    BY <1>7, <1>8
  <2>2. f \in Part => Early(s)
    BY <1>2, <2>1 DEF Starts
  <2> QED
    BY <1>4, <2>1, <2>2 DEF Early
<1>10. f = "ended" => s \in Stream /\ started[s] <= (IF reg[s] = 0 THEN 1 ELSE 2)
  <2>1. f = "ended" => Has(frames, Of(s, {"ended"})) /\ s \in Stream
    BY <1>7, <1>8 DEF Ends
  <2> QED
    BY <1>2, <1>3, <2>1 DEF Starts
<1>11. /\ reg' = [reg EXCEPT ![s] = IF EndsStream(f) THEN 0 ELSE k]
       /\ started' = [started EXCEPT ![s] = IF reg[s] = 0 THEN k ELSE @]
       /\ pc' = [pc EXCEPT ![<<s, k>>] = IF reg[s] = 0 THEN "idle" ELSE @]
       /\ UNCHANGED close
  BY <1>1, <1>2 DEF Dispatch, Loop, Open
<1>12. pc'[<<s, k>>] = IF reg[s] = 0 THEN "idle" ELSE pc[<<s, k>>]
  BY <1>5, <1>11 DEF TypeOK
<1>13. queue' = [queue EXCEPT ![<<s, k>>] = Put(<<s, k>>, pc'[<<s, k>>], f)]
  BY <1>1, <1>2, <1>12 DEF Dispatch, Loop, Open
<1> QED
  BY <1>1, <1>2, <1>3, <1>4, <1>5, <1>6, <1>9, <1>10, <1>11, <1>13

LEMMA DispatchPreserves ==
  ASSUME IInv, DispatchNext, NEW s, NEW f, Head(frames) = <<s, f>>, f # "goaway"
  PROVE  IInv'
<1> USE DEF IInv
<1> DEFINE k == IF reg[s] = 0 THEN started[s] + 1 ELSE reg[s]
           t == <<s, k>>
           p == IF reg[s] = 0 THEN "idle" ELSE pc[t]
<1>1. /\ Open /\ conn = "dispatch" /\ joining = NoStream
      /\ frames # <<>> /\ frames' = Tail(frames)
      /\ s \in AnyStream /\ f \in Frame /\ t \in Thread
      /\ reg[s] = 0 => pc[t] = "none" /\ queue[t] = <<>> /\ started[s] <= 2
      /\ f \in Part => s \in Stream /\ Early(s) /\ k = 1
      /\ f = "ended" => s \in Stream /\ started[s] <= (IF reg[s] = 0 THEN 1 ELSE 2)
      /\ UNCHANGED <<peer, sent, body, others, conn, close, synced, joining>>
      /\ UNCHANGED <<got, left, size, stuck, window, answer, overlap>>
  BY DispatchEffect
<1>2. /\ reg' = [reg EXCEPT ![s] = IF EndsStream(f) THEN 0 ELSE k]
      /\ started' = [started EXCEPT ![s] = IF reg[s] = 0 THEN k ELSE @]
      /\ pc' = [pc EXCEPT ![t] = IF reg[s] = 0 THEN "idle" ELSE @]
      /\ queue' = [queue EXCEPT ![t] = Put(t, pc'[t], f)]
  BY DispatchEffect
<1>3. /\ reg[s] \in 0..3 /\ started[s] \in 0..3 /\ reg[s] <= started[s]
      /\ k \in 1..3 /\ t[1] = s /\ t[2] = k
      /\ frames \in Seq(Received) /\ frames' \in Seq(Received)
  <2>1. frames \in Seq(Received)
    BY FramesType
  <2> QED
    BY <1>1, <2>1, StreamThreads DEF TypeOK, Threads
<1>4. /\ reg'[s] = (IF EndsStream(f) THEN 0 ELSE k)
      /\ started'[s] = (IF reg[s] = 0 THEN k ELSE started[s])
      /\ \A r \in AnyStream \ {s} : reg'[r] = reg[r] /\ started'[r] = started[r]
  BY <1>1, <1>2 DEF TypeOK
<1>5. /\ pc'[t] = p /\ queue'[t] = Put(t, p, f)
      /\ \A u \in Thread \ {t} : pc'[u] = pc[u] /\ queue'[u] = queue[u]
  BY <1>1, <1>2 DEF TypeOK
<1> HIDE DEF k, t, p
<1>6. /\ queue[t] \in Seq(Frame) /\ (p \notin Reading => queue[t] = <<>>)
      /\ p \in {"none", "done"} \union Reading \union Writing
      /\ pc[t] \notin {"idle"} => p = pc[t] \/ pc[t] = "none"
      /\ "idle" \in Reading /\ "idle" \notin Writing
  BY <1>1 DEF p, TypeOK, Threads, Reading, Writing
<1>6a. /\ reg[s] = 0 => k = started[s] + 1
       /\ reg[s] # 0 => k = reg[s]
  BY DEF k
<1>7. TypeOK'
  <2>1. queue' \in [Thread -> Seq(Frame)]
    <3>1. Put(t, p, f) \in Seq(Frame)
      BY <1>1, <1>6, PutKeeps
    <3> QED
      BY <1>2, <1>5, <3>1 DEF TypeOK
  <2>2. pc' \in [Thread -> {"none", "done"} \union Reading \union Writing]
    BY <1>2, <1>6 DEF TypeOK
  <2>3. reg' \in [AnyStream -> 0..3] /\ started' \in [AnyStream -> 0..3]
    <3>1. reg'[s] \in 0..3 /\ started'[s] \in 0..3
      BY <1>3, <1>4
    <3> QED
      BY <1>1, <1>2, <1>4, <3>1 DEF TypeOK
  <2> QED
    BY <1>1, <1>3, <2>1, <2>2, <2>3 DEF TypeOK, Received
<1>8. ASSUME NEW r, NEW A
      PROVE  Has(frames, Of(r, A)) <=> Has(frames', Of(r, A)) \/ (r = s /\ f \in A)
  BY <1>1, <1>3, FrameTailHas
<1>9. ASSUME NEW r, NEW A, NEW B
      PROVE  After(frames, Of(r, A), Of(r, B)) <=>
               /\ After(frames', Of(r, A), Of(r, B))
               /\ r = s /\ f \in A => ~Has(frames', Of(r, B))
  BY <1>1, <1>3, FrameTailAfter
<1>10. Phases'
  <2>1. After(frames', GoAways, Received)
    BY <1>1, <1>3, AfterTail DEF Phases
  <2> QED
    BY <1>1, <2>1 DEF Phases, Open
<1>11. Order'
  BY <1>1, <1>8, <1>9 DEF Order, Over
<1>12. EndsStream(f) <=> f \in Ends
  BY DEF EndsStream, Ends, Finish
<1>13. Starts'
  <2>1. ASSUME NEW r \in Stream, ~Over(r) \/ Has(frames', Of(r, Part))
        PROVE  started'[r] \in {0, 1} /\ reg'[r] = started'[r]
    <3>1. Early(r) /\ r \in AnyStream
      BY <1>1, <1>8, <2>1, StreamThreads DEF Starts
    <3>2. CASE r # s
      BY <1>4, <3>1, <3>2 DEF Early
    <3>3. CASE r = s
      <4>1. f \notin Ends
        <5>1. f \in Ends => Has(frames, Of(r, Ends)) /\ ~Has(frames', Of(r, Part))
          BY <1>8, <1>9, <3>3 DEF Order
        <5> QED
          BY <2>1, <5>1 DEF Order
      <4> QED
        BY <1>3, <1>4, <1>12, <3>1, <3>3, <4>1 DEF Early, k
    <3> QED
      BY <3>2, <3>3
  <2>2. ASSUME f \in Finish PROVE started'[s] = 1
    <3>1. Early(s)
      BY <1>1, <2>2 DEF Finish, Part
    <3> QED
      BY <1>3, <1>4, <3>1 DEF Early, k
  <2>3. ASSUME Has(frames', Of(s, {"ended"}))
        PROVE  started'[s] <= (IF reg'[s] = 0 THEN 1 ELSE 2)
    <3>1. started[s] <= (IF reg[s] = 0 THEN 1 ELSE 2)
      BY <1>1, <1>8, <2>3 DEF Starts
    <3>2. f # "ended"
      <4>1. s \in Stream
        <5>1. s = Zero => Has(frames, Of(Zero, {"ended"}))
          BY <1>8, <2>3
        <5>2. Of(Zero, {"ended"}) \subseteq Of(Zero, Part \union Ends)
          BY DEF Of, Ends
        <5>3. s # Zero
          BY <5>1, <5>2, HasMore DEF Order
        <5> QED
          BY <1>1, <5>3 DEF AnyStream
      <4> QED
        BY <1>9, <2>3, <4>1 DEF Order
    <3>3. EndsStream(f) => f \in Finish
      BY <1>12, <3>2 DEF Ends
    <3>4. reg'[s] = 0 => started'[s] = 1
      BY <1>3, <1>4, <2>2, <3>3
    <3>5. started'[s] <= 2
      BY <1>3, <1>4, <3>1 DEF k
    <3> QED
      BY <3>4, <3>5
  <2>4. ASSUME reg'[s] = 0 PROVE started'[s] <= 2
    <3>1. f \in Finish \/ f = "ended"
      BY <1>3, <1>4, <1>12, <2>4 DEF Ends
    <3>2. CASE f \in Finish
      BY <2>2, <3>2
    <3>3. CASE f = "ended"
      BY <1>1, <1>3, <1>4, <3>3 DEF k
    <3> QED
      BY <3>1, <3>2, <3>3
  <2>5. ASSUME NEW r \in AnyStream, r # s
        PROVE  /\ Has(frames', Of(r, {"ended"})) => started'[r] <= (IF reg'[r] = 0 THEN 1 ELSE 2)
               /\ reg'[r] = 0 => started'[r] <= 2
    <3>1. Has(frames, Of(r, {"ended"})) <=> Has(frames', Of(r, {"ended"}))
      BY <1>8, <2>5
    <3>2. reg'[r] = reg[r] /\ started'[r] = started[r]
      BY <1>4, <2>5
    <3> QED
      BY <1>1, <3>1, <3>2 DEF Starts
  <2>6. ASSUME NEW r \in AnyStream
        PROVE  /\ Has(frames', Of(r, {"ended"})) => started'[r] <= (IF reg'[r] = 0 THEN 1 ELSE 2)
               /\ reg'[r] = 0 => started'[r] <= 2
    BY <2>3, <2>4, <2>5
  <2>7. \A r : Over(r)' <=> Over(r)
    BY <1>1 DEF Over
  <2> QED
    BY <2>1, <2>6, <2>7 DEF Starts, Early
<1>14. ASSUME NEW u \in Thread, u # t PROVE pc'[u] = pc[u] /\ queue'[u] = queue[u]
  BY <1>5, <1>14
<1>15. /\ queue'[t] \in Seq(Frame)
       /\ p \notin Reading => queue'[t] = <<>>
       /\ \A E : Has(queue'[t], E) <=> Has(queue[t], E) \/ (p \in Reading /\ f \in E)
       /\ After(queue'[t], Finish, Part) <=>
            /\ After(queue[t], Finish, Part)
            /\ p \in Reading /\ Has(queue[t], Finish) => f \notin Part
       /\ Occ(queue'[t], Datum) =
            Occ(queue[t], Datum) + (IF p \in Reading /\ f \in Datum THEN 1 ELSE 0)
  <2>1. /\ Put(t, p, f) \in Seq(Frame)
        /\ p \notin Reading => Put(t, p, f) = <<>>
        /\ \A E : Has(Put(t, p, f), E) <=> Has(queue[t], E) \/ (p \in Reading /\ f \in E)
        /\ After(Put(t, p, f), Finish, Part) <=>
             /\ After(queue[t], Finish, Part)
             /\ p \in Reading /\ Has(queue[t], Finish) => f \notin Part
        /\ Occ(Put(t, p, f), Datum) =
             Occ(queue[t], Datum) + (IF p \in Reading /\ f \in Datum THEN 1 ELSE 0)
    BY <1>1, <1>6, PutKeeps
  <2> QED
    BY <1>5, <2>1
<1>16. Threads'
  <2>1. \A r \in AnyStream : reg'[r] <= started'[r]
    <3>1. reg'[s] <= started'[s]
      BY <1>3, <1>4, <1>6a
    <3>2. ASSUME NEW r \in AnyStream \ {s} PROVE reg'[r] <= started'[r]
      BY <1>4, <3>2 DEF Threads
    <3> QED
      BY <3>1, <3>2
  <2>2. ASSUME NEW u \in Thread, u # t
        PROVE  /\ u[2] > started'[u[1]] <=> pc'[u] = "none"
               /\ pc'[u] \notin Reading => queue'[u] = <<>>
               /\ u[1] = Zero \/ u[2] # 1 =>
                    ~Has(queue'[u], Part) /\ pc'[u] \notin Writing /\ got[u] = 0
               /\ pc'[u] = "none" => got[u] = 0
    <3>1. u[1] \in AnyStream /\ u[2] \in 1..3 /\ u = <<u[1], u[2]>>
      BY StreamThreads
    <3>2. u[1] = s => u[2] # k
      BY <2>2, <3>1 DEF t
    <3>3. u[2] > started'[u[1]] <=> u[2] > started[u[1]]
      BY <1>3, <1>4, <1>6a, <3>1, <3>2
    <3> QED
      BY <1>14, <2>2, <3>3 DEF Threads
  <2>3. ~(k > started'[s]) /\ p # "none"
    <3>1. reg[s] # 0 => ~(k > started[s])
      BY <1>3, <1>6a
    <3>2. reg[s] # 0 => pc[t] # "none"
      BY <1>1, <1>3, <3>1 DEF Threads
    <3> QED
      BY <1>3, <1>4, <3>1, <3>2 DEF p
  <2>4. t[1] = Zero \/ t[2] # 1 => ~Has(queue'[t], Part) /\ p \notin Writing /\ got[t] = 0
    <3>1. t[1] = Zero \/ t[2] # 1 => f \notin Part
      BY <1>1, <1>3, StreamThreads
    <3>2. t[1] = Zero \/ t[2] # 1 => ~Has(queue[t], Part) /\ pc[t] \notin Writing /\ got[t] = 0
      BY <1>1 DEF Threads
    <3> QED
      BY <1>6, <1>15, <3>1, <3>2 DEF p
  <2> QED
    BY <1>1, <1>3, <1>5, <1>15, <2>1, <2>2, <2>3, <2>4 DEF Threads
<1>17. Bodies'
  <2> SUFFICES ASSUME NEW r \in Stream
               PROVE  /\ After(queue'[<<r, 1>>], Finish, Part)
                      /\ Has(queue'[<<r, 1>>], Finish) \/ pc'[<<r, 1>>] \in Writing =>
                           Over(r) /\ ~Has(frames', Of(r, Part))
                      /\ Seen(r)' <= body[r]
                      /\ pc'[<<r, 1>>] # "done" => Seen(r)' = body[r]
    BY <1>1 DEF Bodies, Over
  <2> DEFINE v == <<r, 1>>
  <2>1. /\ v \in Thread /\ r \in AnyStream
        /\ queue[v] \in Seq(Frame) /\ got[v] \in Nat /\ body[r] \in Nat
        /\ Occ(queue[v], Datum) \in Nat /\ Occ(frames', Of(r, Datum)) \in Nat
        /\ Occ(frames, Of(r, Datum)) =
             Occ(frames', Of(r, Datum)) + (IF r = s /\ f \in Datum THEN 1 ELSE 0)
    <3>1. v \in Thread /\ r \in AnyStream /\ queue[v] \in Seq(Frame)
      BY StreamThreads DEF TypeOK
    <3>2. Occ(queue[v], Datum) \in Nat /\ Occ(frames', Of(r, Datum)) \in Nat
      BY <1>3, <3>1, OccType
    <3>3. Occ(frames, Of(r, Datum)) =
            Occ(frames', Of(r, Datum)) + (IF r = s /\ f \in Datum THEN 1 ELSE 0)
      BY <1>1, <1>3, FrameTailOcc
    <3> QED
      BY <3>1, <3>2, <3>3 DEF TypeOK
  <2>2. /\ After(queue[v], Finish, Part)
        /\ Has(queue[v], Finish) \/ pc[v] \in Writing => Over(r) /\ ~Has(frames, Of(r, Part))
        /\ Seen(r) <= body[r]
        /\ pc[v] # "done" => Seen(r) = body[r]
    BY DEF Bodies
  <2>3. /\ Seen(r) = got[v] + Occ(queue[v], Datum) + Occ(frames, Of(r, Datum))
        /\ Seen(r)' = got[v] + Occ(queue'[v], Datum) + Occ(frames', Of(r, Datum))
    BY <1>1 DEF Seen
  <2>4. ~Has(frames, Of(r, Part)) => ~Has(frames', Of(r, Part))
    BY <1>8
  <2>5. v = t \/ f \notin Part \/ r # s
    BY <1>1 DEF t
  <2>6. f \notin Part => f \notin Datum /\ f \notin Finish
    BY DEF Part, Datum, Finish
  <2>7. v = t => r = s
    BY DEF t
  <2> HIDE DEF v
  <2>8. CASE v # t
    <3>1. pc'[v] = pc[v] /\ queue'[v] = queue[v]
      BY <1>14, <2>1, <2>8
    <3>2. Seen(r)' = Seen(r)
      BY <2>1, <2>3, <2>5, <2>6, <2>8, <3>1
    <3> QED
      BY <2>2, <2>4, <3>1, <3>2 DEF v
  <2>9. CASE v = t
    <3>1. After(queue'[v], Finish, Part)
      <4>1. Has(queue[v], Finish) => f \notin Part
        BY <1>8, <2>2, <2>7, <2>9
      <4> QED
        BY <1>15, <2>2, <2>9, <4>1
    <3>2. f \in Finish => Over(r) /\ ~Has(frames', Of(r, Part))
      <4>1. f \in Finish => f \in Ends
        BY DEF Ends
      <4> QED
        BY <1>8, <1>9, <2>7, <2>9, <4>1 DEF Order
    <3>3. p \in Writing => pc[v] \in Writing
      BY <1>6, <2>9 DEF p
    <3>4. Has(queue'[v], Finish) \/ pc'[v] \in Writing => Over(r) /\ ~Has(frames', Of(r, Part))
      BY <1>5, <1>15, <2>2, <2>4, <2>9, <3>2, <3>3
    <3>5. CASE p \in Reading
      <4>1. Seen(r)' = Seen(r)
        <5>1. Occ(queue'[v], Datum) = Occ(queue[v], Datum) + (IF f \in Datum THEN 1 ELSE 0)
          BY <1>15, <2>9, <3>5
        <5>2. Occ(frames, Of(r, Datum)) =
                Occ(frames', Of(r, Datum)) + (IF f \in Datum THEN 1 ELSE 0)
          BY <2>1, <2>7, <2>9
        <5> QED
          BY <2>1, <2>3, <5>1, <5>2, SMTT(30)
      <4>2. pc[v] # "done"
        BY <1>1, <2>9, <3>5 DEF p, Reading
      <4> QED
        BY <1>5, <2>2, <3>1, <3>4, <4>1, <4>2 DEF v
    <3>6. CASE p \notin Reading
      <4>1. Occ(queue'[v], Datum) = Occ(queue[v], Datum)
        BY <1>15, <2>1, <2>9, <3>6
      <4>2. Seen(r)' <= Seen(r) /\ Seen(r) \in Int /\ Seen(r)' \in Int
        BY <2>1, <2>3, <4>1
      <4>3. p = pc[v]
        BY <1>6, <2>9, <3>6 DEF p
      <4>4. p # "done" => Seen(r)' = Seen(r)
        <5>1. p # "done" => p \in Writing
          <6>1. p # "none"
            BY <1>1, <1>3, <1>4, <1>5, <1>16, <1>6a DEF Threads
          <6> QED
            BY <1>6, <3>6, <6>1
        <5>2. p # "done" => ~Has(frames, Of(r, Part))
          BY <2>2, <4>3, <5>1
        <5>3. p # "done" => f \notin Datum
          BY <1>8, <2>6, <2>7, <2>9, <5>2
        <5> QED
          BY <2>1, <2>3, <4>1, <5>3
      <4> QED
        BY <1>5, <2>1, <2>2, <2>9, <3>1, <3>4, <4>2, <4>3, <4>4 DEF v
    <3> QED
      BY <3>5, <3>6
  <2> QED
    BY <2>8, <2>9
<1>18. Flow'
  <2>1. p \in {"size", "data"} => pc[t] = p
    BY DEF p
  <2>2. \A u \in Thread : pc'[u] \in {"size", "data"} => pc[u] = pc'[u]
    BY <1>5, <2>1
  <2> QED
    BY <1>1, <2>2 DEF Flow, CutOnlyByOverlap
<1>19. NoThreadForgotten'
  <2> SUFFICES ASSUME NEW u \in Thread, pc'[u] \in Reading
               PROVE  reg'[u[1]] = u[2] \/ close \/ Has(queue'[u], Last)
    BY <1>1, <1>7, Remember
  <2>1. CASE u = t
    <3>1. f \in Ends => f \in Last
      BY <1>1 DEF Ends, Finish, Last
    <3> QED
      BY <1>3, <1>4, <1>5, <1>12, <1>15, <2>1, <3>1
  <2>2. CASE u # t
    <3>1. pc[u] \in Reading /\ queue'[u] = queue[u]
      BY <1>14, <2>2
    <3>2. CASE u[1] # s
      <4>1. reg'[u[1]] = reg[u[1]]
        BY <1>4, <3>2, StreamThreads
      <4> QED
        BY <3>1, <4>1, Remembered
    <3>3. CASE u[1] = s
      <4>1. reg[s] # u[2]
        <5>1. reg[s] = u[2] => k = u[2]
          BY <1>3, StreamThreads DEF k
        <5>2. u = <<s, u[2]>>
          BY <3>3, StreamThreads
        <5> QED
          BY <2>2, <5>1, <5>2 DEF t
      <4> QED
        BY <3>1, <3>3, <4>1, Remembered
    <3> QED
      BY <3>2, <3>3
  <2> QED
    BY <2>1, <2>2
<1> QED
  BY <1>7, <1>10, <1>11, <1>13, <1>16, <1>17, <1>18, <1>19

\* None is no part of a request, and the thread that gets it is joined.
LEMMA PutNonePreserves == ASSUME IInv, NEW s \in AnyStream, PutNone(s) PROVE IInv'
<1> USE DEF IInv
<1> DEFINE t == <<s, reg[s]>>
<1>1. /\ conn = "finally" /\ reg[s] # 0 /\ joining' = s
      /\ queue' = [queue EXCEPT ![t] = Put(t, pc[t], "none")]
      /\ UNCHANGED <<peer, sent, body, others, conn, close, synced, frames>>
      /\ UNCHANGED <<reg, started, pc, got, left, size, stuck, window, answer, overlap>>
  BY DEF PutNone, client, writers
<1>2. t \in Thread
  <2>1. reg[s] \in 1..3
    BY <1>1 DEF TypeOK
  <2> QED
    BY <2>1, StreamThreads
<1> HIDE DEF t
<1>3. queue'[t] = Put(t, pc[t], "none") /\ \A u \in Thread \ {t} : queue'[u] = queue[u]
  BY <1>1, <1>2 DEF TypeOK
<1>4. /\ queue[t] \in Seq(Frame) /\ (pc[t] \notin Reading => queue[t] = <<>>)
      /\ "none" \in Frame /\ "none" \notin Part /\ "none" \notin Datum /\ "none" \notin Finish
  BY <1>2 DEF TypeOK, Threads, Frame, Part, Datum, Finish
<1>5. ASSUME NEW u \in Thread
      PROVE  /\ queue'[u] \in Seq(Frame)
             /\ pc[u] \notin Reading => queue'[u] = <<>>
             /\ \A E : "none" \notin E => (Has(queue'[u], E) <=> Has(queue[u], E))
             /\ Has(queue[u], Last) => Has(queue'[u], Last)
             /\ After(queue[u], Finish, Part) => After(queue'[u], Finish, Part)
             /\ Occ(queue'[u], Datum) = Occ(queue[u], Datum)
  <2>1. CASE u = t
    <3>1. Occ(queue[t], Datum) \in Nat
      BY <1>4, OccType
    <3>2. Occ(Put(t, pc[t], "none"), Datum) = Occ(queue[t], Datum) + 0
      BY <1>4, PutKeeps
    <3>3. \A E : Has(Put(t, pc[t], "none"), E) <=>
                   Has(queue[t], E) \/ (pc[t] \in Reading /\ "none" \in E)
      BY <1>4, PutKeeps
    <3>4. /\ Put(t, pc[t], "none") \in Seq(Frame)
          /\ pc[t] \notin Reading => Put(t, pc[t], "none") = <<>>
          /\ After(queue[t], Finish, Part) => After(Put(t, pc[t], "none"), Finish, Part)
      BY <1>4, PutKeeps
    <3> QED
      BY <1>3, <2>1, <3>1, <3>2, <3>3, <3>4
  <2>2. CASE u # t
    BY <1>3, <2>2 DEF TypeOK, Threads
  <2> QED
    BY <2>1, <2>2
<1>6. TypeOK'
  <2>1. queue' \in [Thread -> Seq(Frame)]
    BY <1>1, <1>5 DEF TypeOK
  <2> QED
    BY <1>1, <2>1 DEF TypeOK
<1>7. Phases' /\ Order' /\ Starts'
  BY <1>1 DEF Phases, Order, Starts, Open, Over, Early
<1>8. Threads'
  <2>1. \A u \in Thread : /\ pc[u] \notin Reading => queue'[u] = <<>>
                          /\ Has(queue'[u], Part) <=> Has(queue[u], Part)
    BY <1>4, <1>5
  <2> QED
    BY <1>1, <2>1 DEF Threads
<1>9. Bodies'
  <2>1. ASSUME NEW r \in Stream
        PROVE  /\ After(queue'[<<r, 1>>], Finish, Part)
               /\ Has(queue'[<<r, 1>>], Finish) <=> Has(queue[<<r, 1>>], Finish)
               /\ Seen(r)' = Seen(r)
    <3>1. /\ After(queue'[<<r, 1>>], Finish, Part)
          /\ Has(queue'[<<r, 1>>], Finish) <=> Has(queue[<<r, 1>>], Finish)
          /\ Occ(queue'[<<r, 1>>], Datum) = Occ(queue[<<r, 1>>], Datum)
      BY <1>4, <1>5, StreamThreads DEF Bodies
    <3> QED
      BY <1>1, <3>1 DEF Seen
  <2> QED
    BY <1>1, <2>1 DEF Bodies, Over
<1>10. Flow'
  BY <1>1 DEF Flow, CutOnlyByOverlap
<1>11. NoThreadForgotten'
  <2>1. ASSUME NEW u \in Thread, pc'[u] \in Reading
        PROVE  reg'[u[1]] = u[2] \/ close' \/ Has(queue'[u], Last)
    BY <1>1, <1>5, <2>1, Remembered
  <2> QED
    BY <1>6, <2>1, Remember
<1> QED
  BY <1>6, <1>7, <1>8, <1>9, <1>10, <1>11

LEMMA JoinPreserves == ASSUME IInv, NEW s \in AnyStream, Join(s) PROVE IInv'
<1> USE DEF IInv
<1>1. /\ joining = s /\ pc[<<s, reg[s]>>] = "done"
      /\ reg' = [reg EXCEPT ![s] = 0] /\ joining' = NoStream
      /\ UNCHANGED <<peer, sent, body, others, conn, close, synced, frames>>
      /\ UNCHANGED <<started, pc, queue, got, left, size, stuck, window, answer, overlap>>
  BY DEF Join, client, writers
<1>2. conn = "finally" /\ ~Open
  BY <1>1, NoStreamAssumption DEF Phases
<1>3. reg'[s] = 0 /\ \A r \in AnyStream \ {s} : reg'[r] = reg[r]
  BY <1>1 DEF TypeOK
<1>4. TypeOK'
  BY <1>1 DEF TypeOK
<1>5. Phases' /\ Order' /\ Starts'
  BY <1>1, <1>2 DEF Phases, Order, Starts, Open, Over
<1>6. Threads'
  <2>1. reg'[s] <= started[s]
    <3>1. started[s] \in 0..3
      BY DEF TypeOK
    <3> QED
      BY <1>3, <3>1
  <2>2. ASSUME NEW r \in AnyStream \ {s} PROVE reg'[r] <= started[r]
    BY <1>3, <2>2 DEF Threads
  <2> QED
    BY <1>1, <2>1, <2>2 DEF Threads
<1>7. Bodies' /\ Flow'
  BY <1>1 DEF Bodies, Flow, Seen, Over, CutOnlyByOverlap
<1>8. NoThreadForgotten'
  <2>1. ASSUME NEW u \in Thread, pc'[u] \in Reading
        PROVE  reg'[u[1]] = u[2] \/ close' \/ Has(queue'[u], Last)
    <3>1. u = <<u[1], u[2]>> /\ u[1] \in AnyStream /\ "done" \notin Reading
      BY StreamThreads DEF Reading
    <3>2. reg[u[1]] = u[2] => u[1] # s
      BY <1>1, <2>1, <3>1
    <3> QED
      BY <1>1, <1>3, <2>1, <3>1, <3>2, Remembered
  <2> QED
    BY <1>4, <2>1, Remember
<1> QED
  BY <1>4, <1>5, <1>6, <1>7, <1>8

LEMMA ConnectionThreadPreserves == ASSUME IInv, ConnectionThread PROVE IInv'
<1>1. ASSUME DispatchNext PROVE IInv'
  <2> DEFINE f == Head(frames)
  <2>1. f \in Received
    BY <1>1, FramesType DEF DispatchNext, IInv
  <2>2. f = <<f[1], f[2]>>
    BY <2>1 DEF Received
  <2> QED
    BY <1>1, <2>2, TerminatedPreserves, DispatchPreserves
<1>2. ASSUME NEW s \in AnyStream, PutNone(s) \/ Join(s) PROVE IInv'
  BY <1>2, PutNonePreserves, JoinPreserves
<1> QED
  BY <1>1, <1>2, ConnectionPreserves DEF ConnectionThread

-----------------------------------------------------------------------------
(* The stream threads                                                      *)

\* A thread t that reads takes something of its queue, or drops it when it
\* goes on to write or ends; it loses DATA only in the latter case.
LEMMA ReadPreserves ==
  ASSUME IInv, NEW t \in Thread, pc[t] \in Reading,
         NEW p \in {"idle", "request", "headers", "done"}, NEW q \in Seq(Frame), NEW g \in Nat,
         UNCHANGED <<peer, sent, body, others, conn, close, synced, frames, joining>>,
         UNCHANGED <<reg, started, size, stuck, window, answer, overlap>>,
         left' \in [Thread -> 0..MaxBody],
         pc' = [pc EXCEPT ![t] = p],
         queue' = [queue EXCEPT ![t] = q],
         got' = [got EXCEPT ![t] = g],
         p \notin Reading => q = <<>>,
         \A E \in {Part, Finish} : Has(q, E) => Has(queue[t], E),
         p \in Reading /\ Has(queue[t], Last) => Has(q, Last),
         After(queue[t], Finish, Part) => After(q, Finish, Part),
         p = "headers" => Has(queue[t], Finish),
         ~Has(queue[t], Part) => g = got[t],
         g + Occ(q, Datum) <= got[t] + Occ(queue[t], Datum),
         p # "done" => g + Occ(q, Datum) = got[t] + Occ(queue[t], Datum)
  PROVE  IInv'
<1> USE DEF IInv
<1>1. /\ pc'[t] = p /\ queue'[t] = q /\ got'[t] = g
      /\ \A u \in Thread \ {t} : pc'[u] = pc[u] /\ queue'[u] = queue[u] /\ got'[u] = got[u]
  BY DEF TypeOK
<1>2. /\ "idle" \in Reading /\ "request" \in Reading
      /\ "headers" \notin Reading /\ "done" \notin Reading
      /\ "headers" \in Writing /\ "idle" \notin Writing /\ "request" \notin Writing
      /\ "done" \notin Writing /\ p # "none" /\ pc[t] \notin {"none", "done"}
  BY DEF Reading, Writing
<1>3. t[1] = Zero \/ t[2] # 1 => ~Has(q, Part) /\ p \notin Writing /\ g = 0
  <2>1. t[1] = Zero \/ t[2] # 1 => ~Has(queue[t], Part) /\ got[t] = 0
    BY DEF Threads
  <2>2. Has(queue[t], Finish) => Has(queue[t], Part)
    <3>1. Finish \subseteq Part
      BY DEF Finish, Part
    <3> QED
      BY <3>1, HasMore
  <2> QED
    BY <1>2, <2>1, <2>2
<1>4. ASSUME NEW s \in Stream
      PROVE  /\ Occ(queue[<<s, 1>>], Datum) \in Nat /\ Occ(queue'[<<s, 1>>], Datum) \in Nat
             /\ Occ(frames, Of(s, Datum)) \in Nat
             /\ got[<<s, 1>>] \in Nat /\ got'[<<s, 1>>] \in Nat /\ body[s] \in 0..MaxData
             /\ Seen(s) = got[<<s, 1>>] + Occ(queue[<<s, 1>>], Datum) + Occ(frames, Of(s, Datum))
             /\ Seen(s)' = got'[<<s, 1>>] + Occ(queue'[<<s, 1>>], Datum)
                             + Occ(frames, Of(s, Datum))
             /\ Seen(s) \in Nat /\ Seen(s)' \in Nat
  <2>1. /\ <<s, 1>> \in Thread /\ frames \in Seq(Received)
        /\ queue[<<s, 1>>] \in Seq(Frame) /\ queue'[<<s, 1>>] \in Seq(Frame)
    BY <1>1, StreamThreads, FramesType DEF TypeOK
  <2>2. /\ Occ(queue[<<s, 1>>], Datum) \in Nat /\ Occ(queue'[<<s, 1>>], Datum) \in Nat
        /\ Occ(frames, Of(s, Datum)) \in Nat
    BY <2>1, OccType
  <2>3. got[<<s, 1>>] \in Nat /\ got'[<<s, 1>>] \in Nat /\ body[s] \in 0..MaxData
    BY <1>1, <2>1, NumbersAssumption DEF TypeOK
  <2>4. /\ Seen(s) = got[<<s, 1>>] + Occ(queue[<<s, 1>>], Datum) + Occ(frames, Of(s, Datum))
        /\ Seen(s)' = got'[<<s, 1>>] + Occ(queue'[<<s, 1>>], Datum)
                        + Occ(frames, Of(s, Datum))
    BY DEF Seen
  <2>5. Seen(s) \in Nat /\ Seen(s)' \in Nat
    BY <2>2, <2>3, <2>4, SMTT(30)
  <2> QED
    BY <2>2, <2>3, <2>4, <2>5
<1>5. ASSUME NEW s \in Stream
      PROVE  /\ Seen(s)' <= body[s]
             /\ pc'[<<s, 1>>] # "done" => Seen(s)' = body[s]
  <2>1. Seen(s) <= body[s] /\ (pc[<<s, 1>>] # "done" => Seen(s) = body[s])
    BY DEF Bodies
  <2>2. CASE <<s, 1>> = t
    <3>1. Seen(s)' <= Seen(s) /\ (p # "done" => Seen(s)' = Seen(s))
      BY <1>1, <1>4, <2>2
    <3>2. Seen(s) \in Nat /\ Seen(s)' \in Nat /\ body[s] \in 0..MaxData
      BY <1>4
    <3> QED
      BY <1>1, <1>2, <2>1, <2>2, <3>1, <3>2
  <2>3. CASE <<s, 1>> # t
    <3>1. /\ got'[<<s, 1>>] = got[<<s, 1>>] /\ queue'[<<s, 1>>] = queue[<<s, 1>>]
          /\ pc'[<<s, 1>>] = pc[<<s, 1>>]
      BY <1>1, <2>3, StreamThreads
    <3>2. Seen(s)' = Seen(s)
      BY <3>1 DEF Seen
    <3> QED
      BY <2>1, <3>1, <3>2
  <2> QED
    BY <2>2, <2>3
<1>6. TypeOK'
  <2>1. g \in 0..MaxData
    <3>1. CASE t[1] = Zero \/ t[2] # 1
      BY <1>3, <3>1, NumbersAssumption
    <3>2. CASE t[1] # Zero /\ t[2] = 1
      <4>1. t[1] \in Stream /\ t = <<t[1], 1>>
        BY <3>2, StreamThreads DEF AnyStream
      <4>2. g <= Seen(t[1])'
        BY <1>1, <1>4, <4>1
      <4>3. Seen(t[1])' <= body[t[1]] /\ Seen(t[1])' \in Nat /\ body[t[1]] \in 0..MaxData
        BY <1>4, <1>5, <4>1
      <4> QED
        BY <4>2, <4>3, NumbersAssumption
    <3> QED
      BY <3>1, <3>2
  <2>2. got' \in [Thread -> 0..MaxData]
    BY <2>1 DEF TypeOK
  <2>3. queue' \in [Thread -> Seq(Frame)]
    BY DEF TypeOK
  <2>4. pc' \in [Thread -> {"none", "done"} \union Reading \union Writing]
    BY <1>2 DEF TypeOK
  <2> QED
    BY <2>2, <2>3, <2>4 DEF TypeOK
<1>7. Phases' /\ Order' /\ Starts'
  BY DEF Phases, Order, Starts, Open, Over, Early
<1>8. Threads'
  <2>1. t[2] > started[t[1]] <=> p = "none"
    BY <1>2 DEF Threads
  <2>2. ASSUME NEW u \in Thread
        PROVE  /\ u[2] > started[u[1]] <=> pc'[u] = "none"
               /\ pc'[u] \notin Reading => queue'[u] = <<>>
               /\ u[1] = Zero \/ u[2] # 1 =>
                    ~Has(queue'[u], Part) /\ pc'[u] \notin Writing /\ got'[u] = 0
               /\ pc'[u] = "none" => got'[u] = 0
    <3>1. CASE u = t
      BY <1>1, <1>2, <1>3, <2>1, <3>1
    <3>2. CASE u # t
      BY <1>1, <3>2 DEF Threads
    <3> QED
      BY <3>1, <3>2
  <2> QED
    BY <2>2 DEF Threads
<1>9. Bodies'
  <2>1. ASSUME NEW s \in Stream
        PROVE  /\ After(queue'[<<s, 1>>], Finish, Part)
               /\ Has(queue'[<<s, 1>>], Finish) \/ pc'[<<s, 1>>] \in Writing =>
                    Over(s) /\ ~Has(frames, Of(s, Part))
    <3>1. CASE <<s, 1>> = t
      <4>1. Has(queue'[t], Finish) \/ pc'[t] \in Writing => Has(queue[t], Finish)
        BY <1>1, <1>2
      <4> QED
        BY <1>1, <3>1, <4>1 DEF Bodies
    <3>2. CASE <<s, 1>> # t
      BY <1>1, <3>2, StreamThreads DEF Bodies
    <3> QED
      BY <3>1, <3>2
  <2> QED
    BY <1>5, <2>1 DEF Bodies, Over
<1>10. Flow'
  <2>1. \A u \in Thread : pc'[u] \in {"size", "data"} => pc[u] = pc'[u]
    BY <1>1
  <2> QED
    BY <2>1 DEF Flow, CutOnlyByOverlap
<1>11. NoThreadForgotten'
  <2>1. ASSUME NEW u \in Thread, pc'[u] \in Reading
        PROVE  reg'[u[1]] = u[2] \/ close' \/ Has(queue'[u], Last)
    BY <1>1, <2>1, Remembered
  <2> QED
    BY <1>6, <2>1, Remember
<1> QED
  BY <1>6, <1>7, <1>8, <1>9, <1>10, <1>11

LEMMA Taken ==
  ASSUME IInv, NEW t \in Thread, queue[t] # <<>>, NEW f, f = Head(queue[t])
  PROVE  /\ f \in Frame /\ Tail(queue[t]) \in Seq(Frame)
         /\ \A E : Has(queue[t], E) <=> f \in E \/ Has(Tail(queue[t]), E)
         /\ After(queue[t], Finish, Part) => After(Tail(queue[t]), Finish, Part)
         /\ Occ(queue[t], Datum) = Occ(Tail(queue[t]), Datum) + (IF f \in Datum THEN 1 ELSE 0)
         /\ Occ(Tail(queue[t]), Datum) \in Nat
         /\ f \in Finish => Occ(Tail(queue[t]), Datum) = 0
<1>1. queue[t] \in Seq(Frame)
  BY DEF IInv, TypeOK
<1>2. f \in Frame /\ Tail(queue[t]) \in Seq(Frame)
  BY <1>1
<1>3. \A E : Has(queue[t], E) <=> f \in E \/ Has(Tail(queue[t]), E)
  BY <1>1, HasTail
<1>4. After(queue[t], Finish, Part) <=>
        After(Tail(queue[t]), Finish, Part) /\ (f \in Finish => ~Has(Tail(queue[t]), Part))
  BY <1>1, AfterTail
<1>5. Occ(queue[t], Datum) = Occ(Tail(queue[t]), Datum) + (IF f \in Datum THEN 1 ELSE 0)
  BY <1>1, OccTail
<1>6. ASSUME f \in Finish PROVE ~Has(Tail(queue[t]), Datum)
  <2>1. Has(queue[t], Part)
    BY <1>3, <1>6 DEF Finish, Part
  <2>2. t[1] # Zero /\ t[2] = 1
    BY <2>1 DEF IInv, Threads
  <2>3. t[1] \in Stream /\ t = <<t[1], 1>>
    BY <2>2, StreamThreads DEF AnyStream
  <2>4. After(queue[t], Finish, Part)
    BY <2>3 DEF IInv, Bodies
  <2>5. ~Has(Tail(queue[t]), Part) /\ Datum \subseteq Part
    BY <1>4, <1>6, <2>4 DEF Datum, Part
  <2> QED
    BY <2>5, HasMore
<1> QED
  BY <1>2, <1>3, <1>4, <1>5, <1>6, OccType

LEMMA GetPreserves ==
  ASSUME IInv, NEW t \in Thread, pc[t] \in Reading, NEW f,
         NEW p \in {"idle", "request", "headers", "done"}, Get(t, f, p),
         left' \in [Thread -> 0..MaxBody],
         NEW g \in Nat, got' = [got EXCEPT ![t] = g],
         f \notin Datum => g = got[t],
         f \in Datum => g = got[t] + 1,
         p \in Reading => f \in {"req", "data", "other"},
         p = "headers" => f \in Finish
  PROVE  IInv'
<1> DEFINE q == IF p \in Reading THEN Tail(queue[t]) ELSE <<>>
<1>1. /\ queue[t] # <<>> /\ f = Head(queue[t])
      /\ queue' = [queue EXCEPT ![t] = q]
      /\ pc' = [pc EXCEPT ![t] = p]
      /\ UNCHANGED <<peer, sent, body, others, conn, close, synced, frames, joining>>
      /\ UNCHANGED <<reg, started, size, stuck, window, answer, overlap>>
  BY DEF Get, client, receiver
<1>2. /\ f \in Frame /\ Tail(queue[t]) \in Seq(Frame)
      /\ \A E : Has(queue[t], E) <=> f \in E \/ Has(Tail(queue[t]), E)
      /\ After(queue[t], Finish, Part) => After(Tail(queue[t]), Finish, Part)
      /\ Occ(Tail(queue[t]), Datum) \in Nat
      /\ f \in Finish => Occ(Tail(queue[t]), Datum) = 0
  BY <1>1, Taken
<1>3. Occ(queue[t], Datum) = Occ(Tail(queue[t]), Datum) + (IF f \in Datum THEN 1 ELSE 0)
  BY <1>1, Taken
<1>4. got[t] \in Nat /\ Occ(<<>>, Datum) = 0
  BY NumbersAssumption, EmptyQueue DEF IInv, TypeOK
<1>5. /\ q \in Seq(Frame)
      /\ p \notin Reading => q = <<>>
      /\ \A E \in {Part, Finish} : Has(q, E) => Has(queue[t], E)
      /\ After(queue[t], Finish, Part) => After(q, Finish, Part)
  BY <1>2, EmptyQueue
<1>6. p \in Reading /\ Has(queue[t], Last) => Has(q, Last)
  BY <1>2 DEF Last
<1>7. p = "headers" => Has(queue[t], Finish)
  BY <1>2
<1>8. ~Has(queue[t], Part) => g = got[t]
  <2>1. f \in Datum => f \in Part
    BY DEF Datum, Part
  <2> QED
    BY <1>2, <2>1
<1>9. g + Occ(Tail(queue[t]), Datum) = got[t] + Occ(queue[t], Datum)
  BY <1>2, <1>3, <1>4
<1>10. /\ g + Occ(q, Datum) <= got[t] + Occ(queue[t], Datum)
       /\ p # "done" => g + Occ(q, Datum) = got[t] + Occ(queue[t], Datum)
  <2>1. CASE p \in Reading
    <3>1. g + Occ(Tail(queue[t]), Datum) \in Nat
      BY <1>2
    <3> QED
      BY <1>9, <2>1, <3>1
  <2>2. CASE p \notin Reading
    <3>1. p = "headers" \/ p = "done"
      BY <2>2 DEF Reading
    <3>2. Occ(q, Datum) = 0
      BY <1>4, <2>2
    <3> HIDE DEF q
    <3>3. g + 0 <= g + Occ(Tail(queue[t]), Datum)
      BY <1>2
    <3>4. p = "headers" => g + 0 = g + Occ(Tail(queue[t]), Datum)
      BY <1>2
    <3> QED
      BY <1>9, <3>1, <3>2, <3>3, <3>4
  <2> QED
    BY <2>1, <2>2
<1> HIDE DEF q
<1> QED
  BY <1>1, <1>5, <1>6, <1>7, <1>8, <1>10, ReadPreserves, ZenonT(60)

LEMMA RespondType ==
  ASSUME TypeOK, NEW t \in Thread, NEW p, Respond(t, p)
  PROVE  left' \in [Thread -> 0..MaxBody]
<1>1. PICK n \in IF p = "headers" THEN {0, MaxBody} ELSE {0} : left' = [left EXCEPT ![t] = n]
  BY DEF Respond
<1>2. n \in 0..MaxBody
  BY NumbersAssumption
<1> QED
  BY <1>1, <1>2 DEF TypeOK

LEMMA ReaderPreserves == ASSUME IInv, NEW t \in Thread, pc[t] \in Reading, Reader(t) PROVE IInv'
<1>1. /\ got \in [Thread -> 0..MaxData] /\ left \in [Thread -> 0..MaxBody]
      /\ got[t] \in Nat /\ got[t] + 1 \in Nat
      /\ got = [got EXCEPT ![t] = got[t]]
  BY NumbersAssumption DEF IInv, TypeOK
<1>2. /\ \A f : f \in {"reqEnd", "dataEnd"} => AfterFrame(f) = "headers"
      /\ \A f : f \notin {"reqEnd", "dataEnd"} => AfterFrame(f) \in {"request", "done"}
  BY DEF AfterFrame, Loop
<1>3. "headers" \notin Reading /\ "done" \notin Reading /\ pc[t] \in {"idle", "request"}
  BY DEF Reading
<1>4. CASE GetRequest(t)
  <2>1. PICK f \in {"req", "reqEnd"} : Get(t, f, AfterFrame(f)) /\ Respond(t, AfterFrame(f))
    BY <1>4 DEF GetRequest
  <2>2. got' = [got EXCEPT ![t] = got[t]]
    BY <1>1, <1>4 DEF GetRequest
  <2>3. /\ f \notin Datum
        /\ AfterFrame(f) \in {"idle", "request", "headers", "done"}
        /\ AfterFrame(f) \in Reading => f = "req"
        /\ AfterFrame(f) = "headers" => f \in Finish
    BY <1>2, <1>3 DEF Datum, Finish
  <2>4. left' \in [Thread -> 0..MaxBody]
    BY <2>1, RespondType DEF IInv
  <2> QED
    BY <1>1, <2>1, <2>2, <2>3, <2>4, GetPreserves
<1>5. CASE GetData(t)
  <2>1. PICK f \in {"data", "dataEnd"} : Get(t, f, AfterFrame(f)) /\ Respond(t, AfterFrame(f))
    BY <1>5 DEF GetData
  <2>2. got' = [got EXCEPT ![t] = got[t] + 1]
    BY <1>5 DEF GetData
  <2>3. /\ f \in Datum
        /\ AfterFrame(f) \in {"idle", "request", "headers", "done"}
        /\ AfterFrame(f) \in Reading => f = "data"
        /\ AfterFrame(f) = "headers" => f \in Finish
    BY <1>2, <1>3 DEF Datum, Finish
  <2>4. left' \in [Thread -> 0..MaxBody]
    BY <2>1, RespondType DEF IInv
  <2> QED
    BY <1>1, <2>1, <2>2, <2>3, <2>4, GetPreserves
<1>6. CASE GetOther(t)
  <2>1. /\ Get(t, "other", Loop(pc[t])) /\ UNCHANGED <<got, left>>
        /\ Loop(pc[t]) \in {"idle", "request", "headers", "done"} /\ Loop(pc[t]) # "headers"
        /\ "other" \notin Datum
    BY <1>3, <1>6 DEF GetOther, Loop, Datum
  <2> QED
    BY <1>1, <2>1, GetPreserves
<1>7. CASE GetEnd(t)
  <2>1. PICK f \in {"ended", "rst", "goaway", "none"} : Get(t, f, "done")
    BY <1>7 DEF GetEnd
  <2>2. UNCHANGED <<got, left>> /\ f \notin Datum
    BY <1>7 DEF GetEnd, Datum
  <2> QED
    BY <1>1, <1>3, <2>1, <2>2, GetPreserves
<1>8. CASE SeesClose(t)
  <2>1. /\ pc' = [pc EXCEPT ![t] = "done"] /\ queue' = [queue EXCEPT ![t] = <<>>]
        /\ UNCHANGED <<peer, sent, body, others, conn, close, synced, frames, joining>>
        /\ UNCHANGED <<reg, started, got, left, size, stuck, window, answer, overlap>>
    BY <1>8 DEF SeesClose, client, receiver, writers
  <2>2. <<>> \in Seq(Frame) /\ \A E : ~Has(<<>>, E)
    BY EmptyQueue
  <2>3. After(<<>>, Finish, Part) /\ got[t] + Occ(<<>>, Datum) <= got[t] + Occ(queue[t], Datum)
    <3>1. Occ(queue[t], Datum) \in Nat
      BY OccType DEF IInv, TypeOK
    <3>2. Occ(<<>>, Datum) = 0
      BY EmptyQueue
    <3> QED
      BY <1>1, <3>1, <3>2, EmptyQueue
  <2>4. left' \in [Thread -> 0..MaxBody] /\ got' = [got EXCEPT ![t] = got[t]]
    BY <1>1, <2>1
  <2> QED
    BY <1>1, <1>3, <2>1, <2>2, <2>3, <2>4, ReadPreserves
<1> QED
  BY <1>4, <1>5, <1>6, <1>7, <1>8 DEF Reader

\* A thread that writes goes on to write or ends: of the invariant, only Flow is
\* about the steps of a response.
LEMMA WritePreserves ==
  ASSUME IInv, NEW t \in Thread, pc[t] \in Writing, NEW p, NEW q \in Writing \union {"done"},
         NEW n \in 0..MaxBody, Write(t, p, q, n),
         window' \in 0..Window, size' \in [Thread -> -1..MaxFrameSize],
         answer' \in [Stream -> {"none", "over", "cut"}], overlap' \in BOOLEAN,
         Flow'
  PROVE  IInv'
<1> USE DEF IInv
<1>1. /\ pc' = [pc EXCEPT ![t] = q] /\ left' = [left EXCEPT ![t] = n]
      /\ UNCHANGED <<peer, sent, body, others, conn, close, synced, frames, joining>>
      /\ UNCHANGED <<reg, started, queue, got, stuck>>
  BY DEF Write, client, receiver
<1>2. pc'[t] = q /\ \A u \in Thread \ {t} : pc'[u] = pc[u]
  BY <1>1 DEF TypeOK
<1>3. pc[t] \notin Reading /\ pc[t] # "none" /\ pc[t] # "done" /\ q \notin Reading /\ q # "none"
  BY DEF Reading, Writing
<1>4. TypeOK'
  <2>1. pc' \in [Thread -> {"none", "done"} \union Reading \union Writing]
    BY <1>1 DEF TypeOK
  <2>2. left' \in [Thread -> 0..MaxBody]
    BY <1>1 DEF TypeOK
  <2> QED
    BY <1>1, <2>1, <2>2 DEF TypeOK
<1>5. Phases' /\ Order' /\ Starts'
  BY <1>1 DEF Phases, Order, Starts, Open, Over, Early
<1>6. Threads'
  <2>1. ASSUME NEW u \in Thread
        PROVE  /\ u[2] > started[u[1]] <=> pc'[u] = "none"
               /\ pc'[u] \notin Reading => queue[u] = <<>>
               /\ u[1] = Zero \/ u[2] # 1 =>
                    ~Has(queue[u], Part) /\ pc'[u] \notin Writing /\ got[u] = 0
               /\ pc'[u] = "none" => got[u] = 0
    <3>1. CASE u = t
      BY <1>2, <1>3, <3>1 DEF Threads
    <3>2. CASE u # t
      BY <1>2, <3>2 DEF Threads
    <3> QED
      BY <3>1, <3>2
  <2> QED
    BY <1>1, <2>1 DEF Threads
<1>7. Bodies'
  <2>1. ASSUME NEW s \in Stream
        PROVE  /\ Seen(s)' = Seen(s)
               /\ pc'[<<s, 1>>] \in Writing => pc[<<s, 1>>] \in Writing
               /\ pc'[<<s, 1>>] # "done" => pc[<<s, 1>>] # "done"
    BY <1>1, <1>2, <1>3, StreamThreads DEF Seen
  <2> QED
    BY <1>1, <2>1 DEF Bodies, Over
<1>8. NoThreadForgotten'
  <2>1. ASSUME NEW u \in Thread, pc'[u] \in Reading PROVE pc[u] \in Reading
    BY <1>2, <1>3, <2>1
  <2> QED
    BY <1>1, <2>1 DEF NoThreadForgotten
<1> QED
  BY <1>4, <1>5, <1>6, <1>7, <1>8

\* The last step of a response, cut or not.
LEMMA LastWritePreserves ==
  ASSUME IInv, NEW t \in Thread, NEW p \in Writing, NEW a \in {"over", "cut"}, LastWrite(t, p, a),
         window' \in 0..Window, overlap \/ window' > 0,
         \A u \in Thread \ {t} : ~overlap /\ pc[u] = "data" => window' = window,
         a = "cut" => overlap
  PROVE  IInv'
<1>1. /\ Write(t, p, "done", 0)
      /\ size' = [size EXCEPT ![t] = 0]
      /\ answer' = [answer EXCEPT ![t[1]] = a]
      /\ UNCHANGED overlap
  BY DEF LastWrite
<1>2. pc[t] = p /\ pc' = [pc EXCEPT ![t] = "done"]
  BY <1>1 DEF Write
<1>3. /\ size \in [Thread -> -1..MaxFrameSize] /\ answer \in [Stream -> {"none", "over", "cut"}]
      /\ overlap \in BOOLEAN /\ pc \in [Thread -> {"none", "done"} \union Reading \union Writing]
  BY DEF IInv, TypeOK
<1>4. /\ size' \in [Thread -> -1..MaxFrameSize]
      /\ answer' \in [Stream -> {"none", "over", "cut"}]
      /\ overlap' \in BOOLEAN
      /\ 0 \in 0..MaxBody
  <2>1. 0 \in -1..MaxFrameSize /\ 0 \in 0..MaxBody
    BY NumbersAssumption
  <2> QED
    BY <1>1, <1>3, <2>1
<1>5. \A u \in Thread : pc'[u] \in {"size", "data"} => u # t /\ pc[u] = pc'[u] /\ size'[u] = size[u]
  BY <1>1, <1>2, <1>3
<1>6. Flow'
  <2>1. CutOnlyByOverlap'
    BY <1>1, <1>3 DEF IInv, Flow, CutOnlyByOverlap
  <2> QED
    BY <1>1, <1>5, <2>1 DEF IInv, Flow
<1> QED
  BY <1>1, <1>2, <1>4, <1>6, WritePreserves

\* A chunk is no longer than what is left and, unless responses have overlapped,
\* shorter than the window.
LEMMA ChunkBounds ==
  ASSUME IInv, NEW t \in Thread, pc[t] = "data"
  PROVE  /\ Chunk(t) \in Nat /\ Chunk(t) <= left[t]
         /\ left[t] > size[t] => left[t] - Chunk(t) \in 0..MaxBody
         /\ ~overlap => 0 <= size[t] /\ Chunk(t) < window
<1>1. left[t] \in 0..MaxBody /\ size[t] \in -1..MaxFrameSize /\ window \in 0..Window
  BY DEF IInv, TypeOK
<1>2. ~overlap => 0 <= size[t] /\ size[t] < window
  BY DEF IInv, Flow
<1> QED
  BY <1>1, <1>2, NumbersAssumption DEF Chunk

LEMMA WriterPreserves == ASSUME IInv, NEW t \in Thread, pc[t] \in Writing, Writer(t) PROVE IInv'
<1>1. /\ window \in 0..Window /\ Window \in Nat /\ MaxFrameSize \in Nat \ {0}
      /\ size \in [Thread -> -1..MaxFrameSize] /\ left[t] \in 0..MaxBody
      /\ answer \in [Stream -> {"none", "over", "cut"}] /\ overlap \in BOOLEAN
      /\ pc \in [Thread -> {"none", "done"} \union Reading \union Writing]
  BY NumbersAssumption DEF IInv, TypeOK
<1>2. {"headers", "size", "data", "end"} \subseteq Writing
  BY DEF Writing
<1>3. CASE WriteHeaders(t)
  <2> DEFINE q == IF left[t] > 0 THEN "size" ELSE "end"
  <2>1. /\ Write(t, "headers", q, left[t])
        /\ overlap' = (overlap \/ \E u \in Thread : pc[u] \in {"size", "data"})
        /\ UNCHANGED <<size, window, answer>>
    BY <1>3 DEF WriteHeaders
  <2>2. pc' = [pc EXCEPT ![t] = q] /\ q \in Writing /\ q # "data"
    BY <1>2, <2>1 DEF Write
  <2> HIDE DEF q
  <2>3. \A u \in Thread \ {t} : pc'[u] = pc[u]
    BY <1>1, <2>2
  <2>4. Flow'
    <3>1. CutOnlyByOverlap'
      BY <2>1 DEF IInv, Flow, CutOnlyByOverlap
    <3>2. ASSUME ~overlap' PROVE ~overlap /\ \A u \in Thread : pc[u] \notin {"size", "data"}
      BY <2>1, <3>2
    <3>3. ASSUME ~overlap', NEW u \in Thread, pc'[u] \in {"size", "data"}
          PROVE  u = t /\ pc'[u] # "data"
      BY <1>1, <2>2, <2>3, <3>2, <3>3
    <3> QED
      BY <2>1, <3>1, <3>2, <3>3 DEF IInv, Flow
  <2>5. overlap' \in BOOLEAN
    BY <1>1, <2>1
  <2> QED
    BY <1>1, <2>1, <2>2, <2>4, <2>5, WritePreserves
<1>4. CASE GetMaxPayloadSize(t)
  <2> DEFINE m == (IF window < MaxFrameSize THEN window ELSE MaxFrameSize) - 1
  <2>1. /\ Write(t, "size", "data", left[t])
        /\ size' = [size EXCEPT ![t] = m]
        /\ UNCHANGED <<window, answer, overlap>>
    BY <1>4 DEF GetMaxPayloadSize, Size
  <2>2. m \in -1..MaxFrameSize /\ m < window /\ (window > 0 => 0 <= m)
    BY <1>1
  <2> HIDE DEF m
  <2>3. pc[t] = "size" /\ pc' = [pc EXCEPT ![t] = "data"]
    BY <2>1 DEF Write
  <2>4. /\ \A u \in Thread \ {t} : pc'[u] = pc[u] /\ size'[u] = size[u]
        /\ pc'[t] = "data" /\ size'[t] = m
        /\ size' \in [Thread -> -1..MaxFrameSize]
    BY <1>1, <2>1, <2>2, <2>3
  <2>5. Flow'
    <3>1. CutOnlyByOverlap'
      BY <2>1 DEF IInv, Flow, CutOnlyByOverlap
    <3>2. \A u \in Thread : pc'[u] \in {"size", "data"} => pc[u] \in {"size", "data"}
      BY <2>3, <2>4
    <3>3. ASSUME ~overlap PROVE window > 0 /\ \A u \in Thread \ {t} : pc[u] # "data"
      BY <2>3, <3>3 DEF IInv, Flow
    <3>4. ASSUME ~overlap, NEW u \in Thread, pc'[u] = "data"
          PROVE  0 <= size'[u] /\ size'[u] < window
      BY <2>2, <2>4, <3>3, <3>4
    <3>5. ASSUME ~overlap, NEW u \in Thread, NEW v \in Thread,
                 pc'[u] \in {"size", "data"}, pc'[v] \in {"size", "data"}
          PROVE  u = v
      BY <3>2, <3>5 DEF IInv, Flow
    <3> QED
      BY <2>1, <3>1, <3>3, <3>4, <3>5 DEF Flow
  <2> QED
    BY <1>1, <1>2, <2>1, <2>4, <2>5, WritePreserves
<1>5. CASE WriteDataFrame(t)
  <2>1. Chunk(t) <= window /\ window' = window - Chunk(t) /\ pc[t] = "data"
    BY <1>5 DEF WriteDataFrame, SendChunk, LastWrite, Write
  <2>2. /\ Chunk(t) \in Nat
        /\ left[t] > size[t] => left[t] - Chunk(t) \in 0..MaxBody
        /\ ~overlap => Chunk(t) < window
    BY <2>1, ChunkBounds
  <2>3. window' \in 0..Window /\ (overlap \/ window' > 0)
    BY <1>1, <2>1, <2>2
  <2>4. ASSUME ~overlap PROVE \A u \in Thread \ {t} : pc[u] \notin {"size", "data"}
    BY <2>1, <2>4 DEF IInv, Flow
  <2>5. CASE left[t] <= size[t]
    <3>1. LastWrite(t, "data", "over")
      BY <1>1, <1>5, <2>5 DEF WriteDataFrame, SendChunk
    <3> QED
      BY <1>2, <2>3, <2>4, <3>1, LastWritePreserves
  <2>6. CASE ~(left[t] <= size[t])
    <3>1. /\ left[t] > size[t]
          /\ Write(t, "data", "size", left[t] - Chunk(t))
          /\ size' = [size EXCEPT ![t] = 0]
          /\ UNCHANGED <<answer, overlap>>
      BY <1>5, <2>6 DEF WriteDataFrame, SendChunk
    <3>2. pc' = [pc EXCEPT ![t] = "size"]
      BY <3>1 DEF Write
    <3>3. /\ size' \in [Thread -> -1..MaxFrameSize]
          /\ pc'[t] = "size" /\ \A u \in Thread \ {t} : pc'[u] = pc[u]
      BY <1>1, <3>1, <3>2
    <3>4. Flow'
      <4>1. CutOnlyByOverlap'
        BY <3>1 DEF IInv, Flow, CutOnlyByOverlap
      <4>2. ASSUME ~overlap, NEW u \in Thread, pc'[u] \in {"size", "data"}
            PROVE  u = t /\ pc'[u] # "data"
        BY <2>4, <3>3, <4>2
      <4> QED
        BY <2>3, <3>1, <4>1, <4>2 DEF Flow
    <3> QED
      BY <1>1, <1>2, <2>2, <2>3, <3>1, <3>3, <3>4, WritePreserves
  <2> QED
    BY <2>5, <2>6
<1>6. ASSUME NEW p \in Writing, NEW a \in {"over", "cut"}, LastWrite(t, p, a), UNCHANGED window,
             a = "cut" => overlap
      PROVE  IInv'
  <2>1. overlap \/ window > 0
    BY DEF IInv, Flow
  <2> QED
    BY <1>1, <1>6, <2>1, LastWritePreserves
<1>7. CASE FlowControlError(t)
  <2>1. Chunk(t) > window /\ LastWrite(t, "data", "cut") /\ UNCHANGED window /\ pc[t] = "data"
    BY <1>7 DEF FlowControlError, LastWrite, Write
  <2>2. overlap
    <3>1. Chunk(t) \in Nat /\ (~overlap => Chunk(t) < window)
      BY <2>1, ChunkBounds
    <3> QED
      BY <1>1, <2>1, <3>1
  <2> QED
    BY <1>2, <1>6, <2>1, <2>2
<1>8. CASE EndStream(t)
  BY <1>2, <1>6, <1>8 DEF EndStream
<1>9. CASE WriteFails(t)
  BY <1>6, <1>9 DEF WriteFails
<1> QED
  BY <1>3, <1>4, <1>5, <1>7, <1>8, <1>9 DEF Writer

-----------------------------------------------------------------------------
(* Theorems                                                                *)

LEMMA NextPreserves == ASSUME IInv, [Next]_vars PROVE IInv'
<1>1. CASE UNCHANGED vars
  <2>1. /\ UNCHANGED <<peer, sent, body, others, conn, close, synced, frames, joining>>
        /\ UNCHANGED <<reg, started, pc, queue, got>>
        /\ UNCHANGED <<left, size, stuck, window, answer, overlap>>
    BY <1>1 DEF vars, client, receiver, threads, writers
  <2>2. TypeOK' /\ Phases' /\ Order' /\ Starts'
    BY <2>1 DEF IInv, TypeOK, Phases, Order, Starts, Open, Over, Early
  <2>3. Threads' /\ Bodies' /\ Flow' /\ NoThreadForgotten'
    BY <2>1 DEF IInv, Threads, Bodies, Seen, Over, Flow, CutOnlyByOverlap, NoThreadForgotten
  <2> QED
    BY <2>2, <2>3 DEF IInv
<1>2. CASE Send
  <2>1. /\ UNCHANGED <<peer, sent, body, others, conn, close, synced, frames, joining>>
        /\ UNCHANGED <<reg, started, pc, queue, got>>
        /\ UNCHANGED <<left, size, window, answer, overlap>> /\ stuck' = ~stuck
    BY <1>2 DEF Send, client, receiver, threads
  <2>2. TypeOK' /\ Phases' /\ Order' /\ Starts'
    BY <2>1 DEF IInv, TypeOK, Phases, Order, Starts, Open, Over, Early
  <2>3. Threads' /\ Bodies' /\ Flow' /\ NoThreadForgotten'
    BY <2>1 DEF IInv, Threads, Bodies, Seen, Over, Flow, CutOnlyByOverlap, NoThreadForgotten
  <2> QED
    BY <2>2, <2>3 DEF IInv
<1>3. ASSUME NEW t \in Thread, StreamThread(t) PROVE IInv'
  BY <1>3, ReaderPreserves, WriterPreserves DEF StreamThread
<1> QED
  BY <1>1, <1>2, <1>3, ClientPreserves, ConnectionThreadPreserves DEF Next

LEMMA Invariance == Spec => []IInv
<1>1. IInv /\ [Next]_vars => IInv'
  BY NextPreserves
<1> QED
  BY <1>1, InitEstablishes, PTL DEF Spec

\* Types, among them that no stream needs a fourth thread and that the window is
\* never exceeded (Dispatch, WriteDataFrame).
THEOREM TypeCorrect == Spec => []TypeOK
<1>1. IInv => TypeOK
  BY DEF IInv
<1> QED
  BY <1>1, Invariance, PTL

\* A thread that waits for frames is still to be joined, or has in its queue the
\* frame after which it ends (_stream_thread, handle_one_request).
THEOREM ThreadsRemembered == Spec => []NoThreadForgotten
<1>1. IInv => NoThreadForgotten
  BY DEF IInv
<1> QED
  BY <1>1, Invariance, PTL

\* A response is written by the first thread of the stream only, after it has
\* handled all DATA the client has sent (_stream_thread, finish_handling).
THEOREM RequestsWhole == Spec => []WholeRequest
<1>1. IInv => WholeRequest
  <2> SUFFICES ASSUME IInv, NEW s \in Stream, NEW j \in 1..3, NEW k \in 1..3,
                      pc[<<s, j>>] \in Writing, pc[<<s, k>>] \in Writing
               PROVE  j = k /\ got[<<s, j>>] = body[s] /\ sent[s] # "open"
    BY DEF WholeRequest
  <2>1. <<s, j>> \in Thread /\ <<s, k>> \in Thread /\ s # Zero
    BY StreamThreads
  <2>2. j = 1 /\ k = 1
    <3>1. ASSUME NEW i \in 1..3, <<s, i>> \in Thread, pc[<<s, i>>] \in Writing PROVE i = 1
      BY <3>1 DEF IInv, Threads
    <3> QED
      BY <2>1, <3>1
  <2>3. queue[<<s, 1>>] = <<>> /\ pc[<<s, 1>>] # "done"
    BY <2>1, <2>2 DEF IInv, Threads, Reading, Writing
  <2>4. Over(s) /\ ~Has(frames, Of(s, Part)) /\ Seen(s) = body[s]
    BY <2>2, <2>3 DEF IInv, Bodies
  <2>5. Datum \subseteq Part /\ Of(s, Datum) \subseteq Of(s, Part)
    BY DEF Datum, Part, Of
  <2>6. Occ(frames, Of(s, Datum)) = 0 /\ Occ(queue[<<s, 1>>], Datum) = 0
    <3>1. frames \in Seq(Received)
      BY FramesType DEF IInv
    <3>2. ~Has(frames, Of(s, Datum))
      BY <2>4, <2>5, HasMore
    <3> QED
      BY <2>3, <3>1, <3>2, OccType, EmptyQueue
  <2>7. got[<<s, 1>>] \in Nat
    BY <2>1, <2>2, NumbersAssumption DEF IInv, TypeOK
  <2>8. got[<<s, 1>>] = body[s]
    BY <2>4, <2>6, <2>7 DEF Seen
  <2> QED
    BY <2>2, <2>4, <2>8 DEF Over
<1> QED
  BY <1>1, Invariance, PTL

\* A response that is written alone is never cut by flow control, although
\* payload_size is used in a later step than it is read (write_data).
THEOREM CutsNeedOverlap == Spec => []CutOnlyByOverlap
<1>1. IInv => CutOnlyByOverlap
  BY DEF IInv, Flow
<1> QED
  BY <1>1, Invariance, PTL

=============================================================================
