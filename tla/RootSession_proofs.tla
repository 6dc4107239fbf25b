-------------------------- MODULE RootSession_proofs --------------------------
(***************************************************************************)
(* Proofs about RootSession, for any number of deaths and taps.            *)
(***************************************************************************)
EXTENDS RootSession, SequenceTheorems, TLAPS

Connection(p) == [what |-> "connected", proc |-> p]
Death(p)      == [what |-> "disconnected", proc |-> p]

(* connection is never cleared, so that one bind is all there is, and one  *)
(* process: these are the stages of its life as the app gets to know them. *)
Unbound   == born = 0 /\ proc = 0 /\ api = 0 /\ callbacks = <<>>
Reported  == proc = 1 /\ api = 0 /\ callbacks = <<Connection(1)>>
DiedFirst == proc = 0 /\ api = 0 /\ callbacks = <<Connection(1), Death(1)>>
Connected == proc = 1 /\ api = 1 /\ callbacks = <<>>
Lost      == proc = 0 /\ api = 1 /\ callbacks = <<Death(1)>>
Cleared   == proc = 0 /\ api = 0 /\ callbacks = <<>>

Stages ==
  \/ Unbound /\ (launching => connection)
  \/ /\ born = 1 /\ connection /\ ~launching
     /\ Reported \/ DiedFirst \/ Connected \/ Lost \/ Cleared

Types ==
  /\ granted \in BOOLEAN /\ asked \in BOOLEAN /\ waiting \in BOOLEAN
  /\ connection \in BOOLEAN /\ launching \in BOOLEAN
  /\ status \in {"Unknown", "HasRoot", "NoRoot"}
  /\ seen \in {"none", "Unknown", "HasRoot", "NoRoot"}
  /\ taps \in 0 .. MaxTaps

IInv == Types /\ Stages

-----------------------------------------------------------------------------
(* What posting to the main thread and taking the next callback make of    *)
(* the short queues that occur.                                            *)
LEMMA Queues ==
  ASSUME NEW a, NEW b
  PROVE  /\ Append(<<>>, a) = <<a>> /\ Append(<<a>>, b) = <<a, b>>
         /\ Head(<<a>>) = a /\ Tail(<<a>>) = <<>>
         /\ Head(<<a, b>>) = a /\ Tail(<<a, b>>) = <<b>>
<1>1. Append(<<>>, a) = <<a>> /\ Append(<<a>>, b) = <<a, b>>
  <2>1. <<>> \in Seq({a, b}) /\ <<a>> \in Seq({a, b}) /\ <<a, b>> \in Seq({a, b})
    OBVIOUS
  <2>2. Append(<<>>, a) \in Seq({a, b}) /\ Append(<<a>>, b) \in Seq({a, b})
    BY <2>1, AppendProperties
  <2>3. Len(Append(<<>>, a)) = 1 /\ Append(<<>>, a)[1] = a
    BY <2>1, AppendProperties
  <2>4. /\ Len(Append(<<a>>, b)) = 2
        /\ Append(<<a>>, b)[1] = a /\ Append(<<a>>, b)[2] = b
    BY <2>1, AppendProperties
  <2>5. Len(<<a>>) = 1 /\ <<a>>[1] = a /\ Len(<<a, b>>) = 2 /\ <<a, b>>[1] = a /\ <<a, b>>[2] = b
    OBVIOUS
  <2>6. \A i \in 1 .. Len(Append(<<>>, a)) : Append(<<>>, a)[i] = <<a>>[i]
    BY <2>3, <2>5
  <2>7. \A i \in 1 .. Len(Append(<<a>>, b)) : Append(<<a>>, b)[i] = <<a, b>>[i]
    BY <2>4, <2>5
  <2>8. Append(<<>>, a) = <<a>>
    BY <2>1, <2>2, <2>3, <2>5, <2>6, SeqEqual
  <2>9. Append(<<a>>, b) = <<a, b>>
    BY <2>1, <2>2, <2>4, <2>5, <2>7, SeqEqual
  <2> QED
    BY <2>8, <2>9
<1>2. Head(<<a>>) = a /\ Head(<<a, b>>) = a
  OBVIOUS
<1>3. Tail(<<a>>) = <<>>
  OBVIOUS
<1>4. Tail(<<a, b>>) = <<b>>
  OBVIOUS
<1> QED
  BY <1>1, <1>2, <1>3, <1>4

LEMMA Events ==
  /\ Connection(1).what = "connected" /\ Connection(1).proc = 1
  /\ Death(1).what = "disconnected" /\ Death(1).proc = 1
  BY DEF Connection, Death

LEMMA Initially == SessionAssumption /\ Init => IInv
<1> SUFFICES ASSUME SessionAssumption, Init PROVE IInv
  OBVIOUS
<1>1. taps \in 0 .. MaxTaps
  BY DEF SessionAssumption, Init
<1>2. Types
  BY <1>1, Zenon DEF Init, Types
<1>3. Stages
  BY DEF Init, Stages, Unbound
<1> QED
  BY <1>2, <1>3 DEF IInv

LEMMA TypesKept == SessionAssumption /\ Types /\ [Next]_vars => Types'
<1> SUFFICES ASSUME SessionAssumption, Types, [Next]_vars PROVE Types'
  OBVIOUS
<1> USE DEF Types, process, SessionAssumption
<1>1. CASE ShellAnswers
  BY <1>1 DEF ShellAnswers
<1>2. CASE StatusCollected
  BY <1>2 DEF StatusCollected, OnStatus, Bind
<1>3. CASE TapBind
  <2>1. taps' \in 0 .. MaxTaps
    BY <1>3 DEF TapBind
  <2>2. connection' \in BOOLEAN /\ launching' \in BOOLEAN
    BY <1>3 DEF TapBind, Bind
  <2>3. asked' \in BOOLEAN /\ waiting' \in BOOLEAN
    BY <1>3 DEF TapBind
  <2> QED
    BY <1>3, <2>1, <2>2, <2>3 DEF TapBind
<1>4. CASE TapCall
  <2>1. taps' \in 0 .. MaxTaps
    BY <1>4 DEF TapCall
  <2>2. connection' \in BOOLEAN /\ launching' \in BOOLEAN
    BY <1>4 DEF TapCall, Bind
  <2>3. asked' \in BOOLEAN /\ waiting' \in BOOLEAN
    BY <1>4 DEF TapCall
  <2> QED
    BY <1>4, <2>1, <2>2, <2>3 DEF TapCall
<1>5. CASE Launch
  BY <1>5 DEF Launch
<1>6. CASE Dies
  BY <1>6 DEF Dies
<1>7. CASE Callback
  BY <1>7 DEF Callback
<1>8. CASE UNCHANGED vars
  BY <1>8 DEF vars
<1> QED
  BY <1>1, <1>2, <1>3, <1>4, <1>5, <1>6, <1>7, <1>8 DEF Next

LEMMA StagesKept == Types /\ Stages /\ [Next]_vars => Stages'
<1> SUFFICES ASSUME Types, Stages, [Next]_vars PROVE Stages'
  OBVIOUS
<1> DEFINE Known == Reported \/ DiedFirst \/ Connected \/ Lost \/ Cleared
<1>a. ASSUME UNCHANGED <<born, proc, api, callbacks>>,
             launching' => connection', connection => connection' /\ launching' = launching
      PROVE  Stages'
  BY <1>a DEF Stages, Types, Unbound, Reported, DiedFirst, Connected, Lost, Cleared
<1>1. CASE ShellAnswers
  BY <1>1 DEF ShellAnswers, process, Stages, Unbound, Reported, DiedFirst, Connected, Lost, Cleared
<1>2. CASE StatusCollected
  <2>1. UNCHANGED <<born, proc, api, callbacks>>
    BY <1>2 DEF StatusCollected, process
  <2>2. (launching' => connection') /\ (connection => connection' /\ launching' = launching)
    BY <1>2 DEF StatusCollected, OnStatus, Bind, Stages, Types
  <2> QED
    BY <1>a, <2>1, <2>2
<1>3. CASE TapBind
  <2>1. UNCHANGED <<born, proc, api, callbacks>>
    BY <1>3 DEF TapBind, process
  <2>2. (launching' => connection') /\ (connection => connection' /\ launching' = launching)
    BY <1>3 DEF TapBind, Bind, Stages, Types
  <2> QED
    BY <1>a, <2>1, <2>2
<1>4. CASE TapCall
  <2>1. UNCHANGED <<born, proc, api, callbacks>>
    BY <1>4 DEF TapCall, process
  <2>2. (launching' => connection') /\ (connection => connection' /\ launching' = launching)
    BY <1>4 DEF TapCall, Bind, Stages, Types
  <2> QED
    BY <1>a, <2>1, <2>2
<1>5. CASE Launch
  <2>1. Unbound /\ connection
    BY <1>5 DEF Launch, Stages
  <2>2. CASE granted
    <3>1. born' = 1 /\ proc' = 1 /\ api' = 0
      BY <1>5, <2>1, <2>2 DEF Launch, Unbound
    <3>2. callbacks' = Append(<<>>, Connection(1))
      BY <1>5, <2>1, <2>2, <3>1 DEF Launch, Unbound, Connection
    <3>3. callbacks' = <<Connection(1)>>
      BY <3>2, Queues
    <3>4. connection' /\ ~launching'
      BY <1>5, <2>1 DEF Launch
    <3> QED
      BY <3>1, <3>3, <3>4 DEF Stages, Reported, Connection
  <2>3. CASE ~granted
    BY <1>5, <2>1, <2>3 DEF Launch, Stages, Unbound
  <2> QED
    BY <2>2, <2>3
<1>6. CASE Dies
  <2>1. born = 1 /\ connection /\ ~launching /\ proc = 1 /\ (Reported \/ Connected)
    BY <1>6 DEF Dies, Stages, Unbound, Reported, DiedFirst, Connected, Lost, Cleared
  <2>2. born' = 1 /\ connection' /\ ~launching' /\ proc' = 0 /\ api' = api
    BY <1>6, <2>1 DEF Dies
  <2>3. callbacks' = Append(callbacks, Death(1))
    BY <1>6, <2>1 DEF Dies, Death
  <2>4. CASE Reported
    <3>1. callbacks' = <<Connection(1), Death(1)>>
      BY <2>3, <2>4, Queues DEF Reported
    <3> QED
      BY <2>2, <2>4, <3>1 DEF Stages, Reported, DiedFirst, Connection, Death
  <2>5. CASE Connected
    <3>1. callbacks' = <<Death(1)>>
      BY <2>3, <2>5, Queues DEF Connected
    <3> QED
      BY <2>2, <2>5, <3>1 DEF Stages, Connected, Lost, Death
  <2> QED
    BY <2>1, <2>4, <2>5
<1>7. CASE Callback
  <2>1. callbacks # <<>> /\ callbacks' = Tail(callbacks)
    BY <1>7 DEF Callback
  <2>2. born = 1 /\ connection /\ ~launching /\ (Reported \/ DiedFirst \/ Lost)
    BY <2>1 DEF Stages, Unbound, Connected, Cleared
  <2>3. born' = 1 /\ connection' /\ ~launching' /\ proc' = proc
    BY <1>7, <2>2 DEF Callback, process
  <2>4. CASE Reported
    <3>1. Head(callbacks) = Connection(1) /\ callbacks' = <<>>
      BY <2>1, <2>4, Queues DEF Reported
    <3>2. api' = 1
      BY <1>7, <3>1, Events DEF Callback
    <3> QED
      BY <2>3, <2>4, <3>1, <3>2 DEF Stages, Reported, Connected
  <2>5. CASE DiedFirst
    <3>1. Head(callbacks) = Connection(1) /\ callbacks' = <<Death(1)>>
      BY <2>1, <2>5, Queues DEF DiedFirst
    <3>2. api' = 1
      BY <1>7, <3>1, Events DEF Callback
    <3> QED
      BY <2>3, <2>5, <3>1, <3>2 DEF Stages, DiedFirst, Lost, Death
  <2>6. CASE Lost
    <3>1. Head(callbacks) = Death(1) /\ callbacks' = <<>>
      BY <2>1, <2>6, Queues DEF Lost
    <3>2. api' = 0
      BY <1>7, <3>1, Events DEF Callback, Disconnected
    <3> QED
      BY <2>3, <2>6, <3>1, <3>2 DEF Stages, Lost, Cleared
  <2> QED
    BY <2>2, <2>4, <2>5, <2>6
<1>8. CASE UNCHANGED vars
  BY <1>8 DEF vars, Stages, Unbound, Reported, DiedFirst, Connected, Lost, Cleared
<1> QED
  BY <1>1, <1>2, <1>3, <1>4, <1>5, <1>6, <1>7, <1>8 DEF Next

(* The stages of the one process hold in every state.                      *)
THEOREM StagesTheorem == ASSUME SessionAssumption PROVE Spec => []IInv
<1>1. Init => IInv
  BY Initially
<1>2. IInv /\ [Next]_vars => IInv'
  BY TypesKept, StagesKept DEF IInv
<1> QED
  BY <1>1, <1>2, PTL DEF Spec

-----------------------------------------------------------------------------
(* The indices and the events of the queue at each stage.                  *)
LEMMA QueueAtStage ==
  ASSUME Stages
  PROVE  \/ callbacks = <<>> /\ DOMAIN callbacks = {}
         \/ /\ DOMAIN callbacks = {1} /\ callbacks[1] \in {Connection(1), Death(1)}
         \/ /\ DOMAIN callbacks = {1, 2}
            /\ callbacks[1] = Connection(1) /\ callbacks[2] = Death(1)
  BY DEF Stages, Unbound, Reported, DiedFirst, Connected, Lost, Cleared

(* The api is the living process's or the news of its death is posted.     *)
THEOREM ApiIsAliveTheorem == ASSUME SessionAssumption PROVE Spec => []ApiIsAlive
<1>1. IInv => ApiIsAlive
  <2> SUFFICES ASSUME Stages, api # 0, api # proc PROVE Posted("disconnected")
    BY DEF IInv, ApiIsAlive
  <2>1. callbacks = <<Death(1)>>
    BY DEF Stages, Unbound, Reported, DiedFirst, Connected, Lost, Cleared
  <2>2. 1 \in DOMAIN callbacks /\ callbacks[1] = Death(1)
    BY <2>1
  <2> QED
    BY <2>2, Events DEF Posted
<1> QED
  BY <1>1, StagesTheorem, PTL

(* The process is reported connected once, and while the api is null.      *)
THEOREM ConnectedOnceTheorem == ASSUME SessionAssumption PROVE Spec => []ConnectedOnce
<1>1. IInv => ConnectedOnce
  <2> SUFFICES ASSUME Stages PROVE ConnectedOnce
    BY DEF IInv
  <2>1. \A i, j \in DOMAIN callbacks :
          callbacks[i].what = "connected" /\ callbacks[j].what = "connected" => i = j
    BY QueueAtStage, Events
  <2>2. CASE Reported \/ DiedFirst
    BY <2>1, <2>2 DEF ConnectedOnce, Reported, DiedFirst
  <2>3. CASE Lost
    <3>1. ~Posted("connected")
      BY <2>3, Events DEF Lost, Posted
    <3> QED
      BY <2>1, <3>1 DEF ConnectedOnce
  <2>4. CASE callbacks = <<>>
    <3>1. ~Posted("connected")
      BY <2>4 DEF Posted
    <3> QED
      BY <2>1, <3>1 DEF ConnectedOnce
  <2> QED
    BY <2>2, <2>3, <2>4 DEF Stages, Unbound, Connected, Cleared
<1> QED
  BY <1>1, StagesTheorem, PTL

(* There is one process at most, however many deaths and taps the model    *)
(* allows, and two callbacks at most are posted.                           *)
THEOREM SessionTypeTheorem == ASSUME SessionAssumption PROVE Spec => []TypeOK
<1>1. IInv => TypeOK
  <2> SUFFICES ASSUME Types, Stages PROVE TypeOK
    BY DEF IInv
  <2>1. {proc, born, api} \subseteq 0 .. MaxDeaths + 1
    BY DEF SessionAssumption, Stages, Unbound, Reported, DiedFirst, Connected, Lost, Cleared
  <2>2. \A a, b : Len(<<>>) <= 2 /\ Len(<<a>>) <= 2 /\ Len(<<a, b>>) <= 2
    OBVIOUS
  <2>3. Len(callbacks) <= 2
    BY <2>2 DEF Stages, Unbound, Reported, DiedFirst, Connected, Lost, Cleared
  <2>4. {granted, asked, connection, launching, waiting} \subseteq BOOLEAN
    BY DEF Types
  <2> QED
    BY <2>1, <2>3, <2>4 DEF Types, TypeOK
<1> QED
  BY <1>1, StagesTheorem, PTL
=============================================================================
