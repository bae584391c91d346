-------------------------- MODULE PageRunnerProofs --------------------------
(***************************************************************************)
(* Proofs about PageRunner, for a list of URLs of any length.              *)
(*                                                                         *)
(* That a late test costs at most one other test is shown by counting: each *)
(* window ended by a stale message can be charged to one stale message     *)
(* handled, and a stale message comes from a window that was itself ended  *)
(* by its timeout or by a stale message.                                   *)
(***************************************************************************)
EXTENDS PageRunner, FiniteSetTheorems, TLAPS

InTime == EndedBy("message")
Late == EndedBy("timeout")
Early == EndedBy("stale")

\* The windows whose message came too late and was handled all the same.
Stale == (Late \union Early) \intersect handled

\* The windows opened and closed so far are those of the URLs counted, and the
\* only one that may be open is openWindow.
WindowShape ==
  /\ counter >= 1
  /\ openWindow \in {0, counter}
  /\ timers \subseteq {counter}
  /\ \A i \in Window :
       /\ i > counter => phase[i] = "none"
       /\ phase[i] = "none" => shut[i] = "open"
       /\ ended[i] = "no" <=> shut[i] = "open"
       /\ phase[i] # "none" /\ shut[i] = "open" => i = openWindow
       /\ i = openWindow => phase[i] # "none"

\* A page posts one message; only the message of the window that is open ends
\* it in time.
MessageShape ==
  /\ inbox \intersect handled = {}
  /\ \A i \in inbox \union handled : phase[i] = "done"
  /\ InTime \subseteq handled

Charged == Cardinality(Early) <= Cardinality(Stale)

IInv == TypeOK /\ WindowShape /\ MessageShape /\ Charged

LEMMA Finite == IsFiniteSet(Late) /\ IsFiniteSet(Early) /\ IsFiniteSet(Stale)
<1>1. IsFiniteSet(Window)
  BY NumUrlsAssumption, FS_Interval DEF Window
<1>2. Late \subseteq Window /\ Early \subseteq Window /\ Stale \subseteq Window
  BY DEF Late, Early, Stale, EndedBy
<1> QED
  BY <1>1, <1>2, FS_Subset

LEMMA FiniteNext == IsFiniteSet(Early') /\ IsFiniteSet(Stale')
<1>1. IsFiniteSet(Window)
  BY NumUrlsAssumption, FS_Interval DEF Window
<1>2. Early' \subseteq Window /\ Stale' \subseteq Window
  BY DEF Late, Early, Stale, EndedBy
<1> QED
  BY <1>1, <1>2, FS_Subset

-----------------------------------------------------------------------------
(* IInv is inductive                                                       *)

LEMMA InitEstablishes == Init => IInv
<1> SUFFICES ASSUME Init PROVE IInv
  OBVIOUS
<1> USE NumUrlsAssumption
<1>1. Early = {} /\ Stale = {} /\ InTime = {}
  BY DEF Init, EndedBy, Early, Stale, InTime
<1>2. Charged
  BY <1>1, FS_EmptySet DEF Charged
<1>3. TypeOK
  BY DEF Init, TypeOK, Window
<1>4. WindowShape
  BY DEF Init, WindowShape, Window
<1>5. MessageShape
  BY <1>1 DEF Init, MessageShape
<1> QED
  BY <1>2, <1>3, <1>4, <1>5 DEF IInv

\* Charged is disturbed only if a window is ended by a stale message.
LEMMA ChargedKept ==
  ASSUME Charged, Early' = Early, Stale \subseteq Stale'
  PROVE  Charged'
<1>1. Cardinality(Stale) <= Cardinality(Stale')
  BY FiniteNext, FS_Subset
<1>2. Cardinality(Stale) \in Nat /\ Cardinality(Stale') \in Nat /\ Cardinality(Early) \in Nat
  BY Finite, FiniteNext, FS_CardinalityType
<1> QED
  BY <1>1, <1>2 DEF Charged

\* The stale message that ends one window is charged for it.
LEMMA ChargedPaid ==
  ASSUME Charged, NEW i, NEW j,
         i \notin Stale, Stale \union {i} \subseteq Stale', Early' = Early \union {j}
  PROVE  Charged'
<1>1. Cardinality(Stale \union {i}) = Cardinality(Stale) + 1
  BY Finite, FS_AddElement
<1>2. Cardinality(Stale \union {i}) <= Cardinality(Stale')
  BY FiniteNext, FS_Subset
<1>3. Cardinality(Early') = Cardinality(Early) \/ Cardinality(Early') = Cardinality(Early) + 1
  BY Finite, FS_AddElement
<1>4. /\ Cardinality(Stale) \in Nat
      /\ Cardinality(Stale') \in Nat
      /\ Cardinality(Early) \in Nat
  BY Finite, FiniteNext, FS_CardinalityType
<1> QED
  BY <1>1, <1>2, <1>3, <1>4 DEF Charged

\* What openNextWindow does, whatever its cause, to the windows and timeouts.
LEMMA OpenNextShape ==
  ASSUME TypeOK, WindowShape, NEW cause \in {"message", "timeout", "stale"},
         OpenNextWindow(cause, {})
  PROVE  /\ counter' \in 0..NumUrls /\ openWindow' \in 0..NumUrls
         /\ timers' \subseteq Window /\ finished' \in Nat
         /\ phase' \in [Window -> {"none", "testing", "saving", "saved", "done"}]
         /\ shut' \in [Window -> {"open", "closing", "gone"}]
         /\ ended' \in [Window -> {"no", "message", "timeout", "stale"}]
         /\ WindowShape'
         /\ \A i \in Window : phase[i] # "none" => phase'[i] = phase[i]
<1> USE NumUrlsAssumption DEF Window
<1>0. /\ openWindow # 0 => openWindow \in Window
      /\ shut \in [Window -> {"open", "closing", "gone"}]
      /\ ended \in [Window -> {"no", "message", "timeout", "stale"}]
  <2>1. openWindow \in 0..NumUrls
    BY DEF TypeOK
  <2> QED
    BY <2>1 DEF TypeOK
<1>1. \A i \in Window : /\ phase[i] = "none" => shut[i] = "open" /\ i # openWindow
                        /\ ended[i] = "no" <=> shut[i] = "open"
                        /\ i > counter => phase[i] = "none"
                        /\ phase[i] # "none" /\ shut[i] = "open" => i = openWindow
  BY DEF WindowShape
<1>2. /\ shut' \in [Window -> {"open", "closing", "gone"}]
      /\ ended' \in [Window -> {"no", "message", "timeout", "stale"}]
      /\ \A i \in Window : i # openWindow => shut'[i] = shut[i] /\ ended'[i] = ended[i]
      /\ openWindow # 0 => shut'[openWindow] # "open" /\ ended'[openWindow] # "no"
  <2>1. CASE openWindow # 0 /\ shut[openWindow] = "open"
    <3>1. /\ shut' = [shut EXCEPT ![openWindow] = "closing"]
          /\ ended' = [ended EXCEPT ![openWindow] = cause]
      BY <2>1 DEF OpenNextWindow, CloseCurrentWindow
    <3> QED
      BY <1>0, <2>1, <3>1
  <2>2. CASE ~(openWindow # 0 /\ shut[openWindow] = "open")
    <3>1. shut' = shut /\ ended' = ended
      BY <2>2 DEF OpenNextWindow, CloseCurrentWindow
    <3> QED
      BY <1>0, <1>1, <2>2, <3>1
  <2> QED
    BY <2>1, <2>2
<1>3. \A i \in Window : /\ phase[i] # "none" => shut'[i] # "open"
                        /\ phase[i] = "none" => shut'[i] = "open"
                        /\ ended'[i] = "no" <=> shut'[i] = "open"
  BY <1>1, <1>2
<1>4. CASE counter < NumUrls
  <2>1. counter + 1 \in Window /\ phase[counter + 1] = "none"
    BY <1>1, <1>4 DEF TypeOK
  <2>2. counter' = counter + 1 /\ timers' = {counter + 1} /\ finished' = finished
    BY <1>4 DEF OpenNextWindow, OpenOrFinish, TypeOK
  <2>3. \/ openWindow' = counter + 1 /\ phase' = [phase EXCEPT ![counter + 1] = "testing"]
        \/ openWindow' = 0 /\ phase' = phase
    BY <1>4 DEF OpenNextWindow, OpenOrFinish, TypeOK
  <2>4. phase' \in [Window -> {"none", "testing", "saving", "saved", "done"}]
    BY <2>1, <2>3 DEF TypeOK
  <2>5. counter \in Nat /\ counter >= 1
    BY DEF TypeOK, WindowShape
  <2>6. ASSUME NEW i \in Window
        PROVE  /\ i > counter' => phase'[i] = "none"
               /\ phase'[i] = "none" => shut'[i] = "open"
               /\ ended'[i] = "no" <=> shut'[i] = "open"
               /\ phase'[i] # "none" /\ shut'[i] = "open" => i = openWindow'
               /\ i = openWindow' => phase'[i] # "none"
               /\ phase[i] # "none" => phase'[i] = phase[i]
    <3>1. /\ i # counter + 1 => phase'[i] = phase[i]
          /\ phase'[counter + 1] = "testing" \/ phase'[counter + 1] = "none"
          /\ phase'[counter + 1] = "testing" <=> openWindow' = counter + 1
          /\ openWindow' \in {0, counter + 1}
      BY <2>1, <2>3, <2>5 DEF TypeOK
    <3> QED
      BY <1>1, <1>3, <2>1, <2>2, <2>5, <3>1
  <2> QED
    BY <1>2, <1>4, <2>1, <2>2, <2>3, <2>4, <2>5, <2>6 DEF TypeOK, WindowShape
<1>5. CASE counter = NumUrls
  <2>1. /\ counter' = counter /\ openWindow' = openWindow /\ phase' = phase
        /\ timers' = {} /\ finished' = finished + 1
    BY <1>5 DEF OpenNextWindow, OpenOrFinish
  <2>2. WindowShape'
    BY <1>1, <1>2, <1>3, <2>1 DEF WindowShape, TypeOK
  <2> QED
    BY <1>2, <2>1, <2>2 DEF TypeOK
<1>6. counter < NumUrls \/ counter = NumUrls
  BY DEF TypeOK
<1> QED
  BY <1>4, <1>5, <1>6

LEMMA TimeoutPreserves == ASSUME IInv, NEW t \in Window, Timeout(t) PROVE IInv'
<1> USE NumUrlsAssumption
<1>1. TypeOK /\ WindowShape /\ MessageShape /\ Charged
  BY DEF IInv
<1>2. t = counter /\ timers \ {t} = {}
  BY <1>1 DEF Timeout, WindowShape
<1>3. OpenNextWindow("timeout", {}) /\ UNCHANGED <<inbox, handled>>
  BY <1>2 DEF Timeout
<1>4. /\ counter' \in 0..NumUrls /\ openWindow' \in 0..NumUrls
      /\ timers' \subseteq Window /\ finished' \in Nat
      /\ phase' \in [Window -> {"none", "testing", "saving", "saved", "done"}]
      /\ shut' \in [Window -> {"open", "closing", "gone"}]
      /\ ended' \in [Window -> {"no", "message", "timeout", "stale"}]
      /\ WindowShape'
      /\ \A i \in Window : phase[i] # "none" => phase'[i] = phase[i]
  BY <1>1, <1>3, OpenNextShape
<1>5. TypeOK'
  BY <1>1, <1>3, <1>4 DEF TypeOK
<1>6. /\ Early' = Early
      /\ InTime' = InTime
      /\ Late \subseteq Late'
  <2>1. CASE openWindow # 0 /\ shut[openWindow] = "open"
    <3>1. ended' = [ended EXCEPT ![openWindow] = "timeout"]
      BY <1>3, <2>1 DEF OpenNextWindow, CloseCurrentWindow
    <3>2. ended[openWindow] = "no" /\ openWindow \in Window
      BY <1>1, <2>1 DEF WindowShape, TypeOK, Window
    <3>3. \A i \in Window : \/ i # openWindow /\ ended'[i] = ended[i]
                            \/ i = openWindow /\ ended'[i] = "timeout" /\ ended[i] = "no"
      BY <1>1, <3>1, <3>2 DEF TypeOK
    <3> QED
      BY <3>3 DEF Early, InTime, Late, EndedBy
  <2>2. CASE ~(openWindow # 0 /\ shut[openWindow] = "open")
    <3>1. ended' = ended
      BY <1>3, <2>2 DEF OpenNextWindow, CloseCurrentWindow
    <3> QED
      BY <3>1 DEF Early, InTime, Late, EndedBy
  <2> QED
    BY <2>1, <2>2
<1>7. Charged'
  <2>1. Stale \subseteq Stale'
    BY <1>3, <1>6 DEF Stale
  <2> QED
    BY <1>1, <1>6, <2>1, ChargedKept
<1>8. MessageShape'
  BY <1>1, <1>3, <1>4, <1>6 DEF MessageShape, TypeOK
<1> QED
  BY <1>4, <1>5, <1>7, <1>8 DEF IInv

LEMMA MessagePreserves == ASSUME IInv, NEW i \in Window, HandleMessage(i) PROVE IInv'
<1> USE NumUrlsAssumption
<1> DEFINE cause == IF i = openWindow THEN "message" ELSE "stale"
<1>1. TypeOK /\ WindowShape /\ MessageShape /\ Charged
  BY DEF IInv
<1>2. /\ i \in inbox /\ inbox' = inbox \ {i}
      /\ handled' = handled \union {i}
  BY DEF HandleMessage
<1>3. OpenNextWindow(cause, {})
  <2>1. timers \ {counter} = {}
    BY <1>1 DEF WindowShape
  <2> QED
    BY <2>1 DEF HandleMessage
<1>4. cause \in {"message", "timeout", "stale"}
  OBVIOUS
<1>5. /\ counter' \in 0..NumUrls /\ openWindow' \in 0..NumUrls
      /\ timers' \subseteq Window /\ finished' \in Nat
      /\ phase' \in [Window -> {"none", "testing", "saving", "saved", "done"}]
      /\ shut' \in [Window -> {"open", "closing", "gone"}]
      /\ ended' \in [Window -> {"no", "message", "timeout", "stale"}]
      /\ WindowShape'
      /\ \A k \in Window : phase[k] # "none" => phase'[k] = phase[k]
  <2> HIDE DEF cause
  <2> QED
    BY <1>1, <1>3, <1>4, OpenNextShape
<1>6. TypeOK'
  BY <1>1, <1>2, <1>5 DEF TypeOK
<1>7. i \notin handled /\ phase[i] = "done" /\ i \notin InTime
  BY <1>1, <1>2 DEF MessageShape
<1>8. CASE openWindow # 0 /\ shut[openWindow] = "open"
  <2>1. ended' = [ended EXCEPT ![openWindow] = cause]
    BY <1>3, <1>8 DEF OpenNextWindow, CloseCurrentWindow
  <2>2. ended[openWindow] = "no" /\ openWindow \in Window
    BY <1>1, <1>8 DEF WindowShape, TypeOK, Window
  <2>3. \A k \in Window : \/ k # openWindow /\ ended'[k] = ended[k]
                          \/ k = openWindow /\ ended'[k] = cause /\ ended[k] = "no"
    BY <1>1, <2>1, <2>2 DEF TypeOK
  <2>4. CASE i = openWindow
    <3>1. /\ Early' = Early
          /\ InTime' = InTime \union {i}
          /\ Late' = Late
      BY <2>2, <2>3, <2>4 DEF Early, InTime, Late, EndedBy
    <3>2. Charged'
      <4>1. Stale \subseteq Stale'
        BY <1>2, <3>1 DEF Stale
      <4> QED
        BY <1>1, <3>1, <4>1, ChargedKept
    <3>3. MessageShape'
      BY <1>1, <1>2, <1>5, <3>1 DEF MessageShape, TypeOK
    <3> QED
      BY <1>5, <1>6, <3>2, <3>3 DEF IInv
  <2>5. CASE i # openWindow
    <3>1. /\ Early' = Early \union {openWindow}
          /\ InTime' = InTime
          /\ Late' = Late
      BY <2>2, <2>3, <2>5 DEF Early, InTime, Late, EndedBy
    <3>2. i \in Late \union Early
      <4>1. ended[i] # "no"
        BY <1>1, <1>7, <2>5 DEF WindowShape
      <4> QED
        BY <1>1, <1>7, <4>1 DEF TypeOK, InTime, Late, Early, EndedBy
    <3>3. i \notin Stale /\ Stale \union {i} \subseteq Stale'
      BY <1>2, <1>7, <3>1, <3>2 DEF Stale
    <3>4. Charged'
      BY <1>1, <3>1, <3>3, ChargedPaid
    <3>5. MessageShape'
      BY <1>1, <1>2, <1>5, <3>1 DEF MessageShape, TypeOK
    <3> QED
      BY <1>5, <1>6, <3>4, <3>5 DEF IInv
  <2> QED
    BY <2>4, <2>5
<1>9. CASE ~(openWindow # 0 /\ shut[openWindow] = "open")
  <2>1. ended' = ended
    BY <1>3, <1>9 DEF OpenNextWindow, CloseCurrentWindow
  <2>2. /\ Early' = Early
        /\ InTime' = InTime
        /\ Late' = Late
    BY <2>1 DEF Early, InTime, Late, EndedBy
  <2>3. Charged'
    <3>1. Stale \subseteq Stale'
      BY <1>2, <2>2 DEF Stale
    <3> QED
      BY <1>1, <2>2, <3>1, ChargedKept
  <2>4. MessageShape'
    BY <1>1, <1>2, <1>5, <2>2 DEF MessageShape, TypeOK
  <2> QED
    BY <1>5, <1>6, <2>3, <2>4 DEF IInv
<1> QED
  BY <1>8, <1>9

\* The test windows never touch what the runner counts.
LEMMA WindowsPreserve ==
  ASSUME IInv, NEW i \in Window,
         CompleteTests(i) \/ AnswerRequest(i) \/ PostFinished(i) \/ Disappear(i)
  PROVE  IInv'
<1>1. TypeOK /\ WindowShape /\ MessageShape /\ Charged
  BY DEF IInv
<1>2. UNCHANGED <<runner, handled, ended>>
  BY DEF CompleteTests, AnswerRequest, PostFinished, Disappear
<1>3. /\ Early' = Early
      /\ InTime' = InTime
      /\ Late' = Late
      /\ Stale' = Stale
  BY <1>2 DEF Early, InTime, Late, EndedBy, Stale
<1>4. Charged'
  BY <1>1, <1>3, ChargedKept
<1>5. TypeOK' /\ WindowShape'
  <2> USE NumUrlsAssumption DEF TypeOK, WindowShape, runner
  <2>1. CASE CompleteTests(i)
    BY <1>1, <2>1 DEF CompleteTests
  <2>2. CASE AnswerRequest(i)
    BY <1>1, <2>2 DEF AnswerRequest
  <2>3. CASE PostFinished(i)
    BY <1>1, <2>3 DEF PostFinished
  <2>4. CASE Disappear(i)
    BY <1>1, <2>4 DEF Disappear
  <2> QED
    BY <2>1, <2>2, <2>3, <2>4
<1>6. MessageShape'
  <2> USE DEF TypeOK, MessageShape
  <2>1. CASE CompleteTests(i)
    BY <1>1, <1>3, <2>1 DEF CompleteTests
  <2>2. CASE AnswerRequest(i)
    BY <1>1, <1>3, <2>2 DEF AnswerRequest
  <2>3. CASE PostFinished(i)
    BY <1>1, <1>3, <2>3 DEF PostFinished
  <2>4. CASE Disappear(i)
    BY <1>1, <1>3, <2>4 DEF Disappear
  <2> QED
    BY <2>1, <2>2, <2>3, <2>4
<1> QED
  BY <1>4, <1>5, <1>6 DEF IInv

LEMMA NextPreserves == IInv /\ [Next]_vars => IInv'
<1> SUFFICES ASSUME IInv, [Next]_vars PROVE IInv'
  OBVIOUS
<1>1. CASE UNCHANGED vars
  <2>1. Early' = Early /\ InTime' = InTime /\ Late' = Late /\ Stale' = Stale
    BY <1>1 DEF vars, Early, InTime, Late, EndedBy, Stale
  <2>2. Charged'
    BY <2>1, ChargedKept DEF IInv
  <2>3. TypeOK' /\ WindowShape' /\ MessageShape'
    BY <1>1, <2>1 DEF vars, runner, IInv, TypeOK, WindowShape, MessageShape
  <2> QED
    BY <2>2, <2>3 DEF IInv
<1>2. CASE Next
  BY <1>2, TimeoutPreserves, MessagePreserves, WindowsPreserve DEF Next
<1> QED
  BY <1>1, <1>2

-----------------------------------------------------------------------------
(* What follows from it                                                    *)

THEOREM Invariance == Spec => []IInv
<1> QED
  BY InitEstablishes, NextPreserves, PTL DEF Spec

\* Every variable keeps its type; the counter never runs past the URLs.
THEOREM TypeCorrect == Spec => []TypeOK
<1>1. IInv => TypeOK
  BY DEF IInv
<1> QED
  BY <1>1, Invariance, PTL

\* openNextWindow closes what it opened before, and handleMessage clears the
\* timeout that is pending: one test and one timeout at a time.
THEOREM OneTest == Spec => []OneAtATime
<1>1. IInv => OneAtATime
  BY DEF IInv, WindowShape, OneAtATime, Opened
<1> QED
  BY <1>1, Invariance, PTL

\* What handleMessage ends too early is bounded by the tests that were late.
THEOREM LateTestsCost == Spec => []EachLateTestCostsOne
<1>1. IInv => EachLateTestCostsOne
  <2> SUFFICES ASSUME IInv PROVE EachLateTestCostsOne
    OBVIOUS
  <2> DEFINE EarlyHandled == Early \intersect handled
             LateHandled == Late \intersect handled
  <2>1. IsFiniteSet(Early) /\ IsFiniteSet(LateHandled) /\ IsFiniteSet(EarlyHandled)
    BY Finite, FS_Intersection
  <2>2. Cardinality(Early \ handled) = Cardinality(Early) - Cardinality(EarlyHandled)
    BY <2>1, FS_Difference
  <2>3. Cardinality(Stale) <= Cardinality(LateHandled) + Cardinality(EarlyHandled)
    <3>1. Stale = LateHandled \union EarlyHandled
      BY DEF Stale
    <3>2. Cardinality(LateHandled \union EarlyHandled)
            = Cardinality(LateHandled) + Cardinality(EarlyHandled)
              - Cardinality(LateHandled \intersect EarlyHandled)
      BY <2>1, FS_Union
    <3>3. IsFiniteSet(LateHandled \intersect EarlyHandled)
      BY <2>1, FS_Intersection
    <3> HIDE DEF LateHandled, EarlyHandled
    <3>4. /\ Cardinality(LateHandled) \in Nat
          /\ Cardinality(EarlyHandled) \in Nat
          /\ Cardinality(LateHandled \intersect EarlyHandled) \in Nat
      BY <2>1, <3>3, FS_CardinalityType
    <3> QED
      BY <3>1, <3>2, <3>4
  <2>4. Cardinality(Early) <= Cardinality(Stale)
    BY DEF IInv, Charged
  <2>5. Cardinality(Early \ handled) <= Cardinality(LateHandled)
    <3> HIDE DEF LateHandled, EarlyHandled
    <3>1. /\ Cardinality(LateHandled) \in Nat /\ Cardinality(EarlyHandled) \in Nat
          /\ Cardinality(Early) \in Nat /\ Cardinality(Stale) \in Nat
      BY <2>1, Finite, FS_CardinalityType
    <3> QED
      BY <2>2, <2>3, <2>4, <3>1
  <2> QED
    BY <2>5 DEF EachLateTestCostsOne, Early, Late
<1> QED
  BY <1>1, Invariance, PTL
=============================================================================
