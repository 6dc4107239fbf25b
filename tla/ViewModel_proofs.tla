--------------------------- MODULE ViewModel_proofs ---------------------------
(***************************************************************************)
(* Proofs about ViewModel, for any set of operations and any number of     *)
(* updates and frames.                                                     *)
(***************************************************************************)
EXTENDS ViewModel, TLAPS

Places == {"idle", "begin", "native", "sniffer", "ask", "set", "read", "write", "finally",
           "end", "done"}

Types ==
  /\ TypeOK
  /\ main \in [who : Ops \cup {"none", "collector", "poll"},
               what : {"none", "busy", "done", "other", "asks"}, copy : States]
  /\ pc \in [Ops -> Places]
  /\ drained \in BOOLEAN /\ capture \in BOOLEAN

Quiet == \A o \in Ops : ~InFlight(o)

(* BusyClears speaks of no copy that may still be written. None of an      *)
(* operation can be when none is in progress, and the one of the main      *)
(* thread is not busy either: it was made of a state that was not, or the  *)
(* operation that it is the first or last update of is in progress.        *)
NothingBusy ==
  /\ main.what = "busy" => main.who \in Ops
  /\ Quiet => ~ui.busy /\ ~main.copy.busy

-----------------------------------------------------------------------------
LEMMA Initially == ViewModelAssumption /\ Init => Types /\ NothingBusy
<1> SUFFICES ASSUME ViewModelAssumption, Init PROVE Types /\ NothingBusy
  OBVIOUS
<1>1. Idle.copy = [busy |-> FALSE, running |-> FALSE, total |-> 0] /\ Idle.what = "none"
  BY DEF Idle
<1>2. Idle.copy \in States /\ ~Idle.copy.busy
  BY <1>1 DEF States, ViewModelAssumption
<1>3. TypeOK
  BY <1>2 DEF Init, TypeOK, ViewModelAssumption
<1>4. main \in [who : Ops \cup {"none", "collector", "poll"},
                what : {"none", "busy", "done", "other", "asks"}, copy : States]
  BY <1>2 DEF Init, Idle
<1>5. Types
  BY <1>3, <1>4 DEF Init, Types, Places
<1>6. NothingBusy
  BY <1>1, <1>2 DEF Init, NothingBusy
<1> QED
  BY <1>5, <1>6

LEMMA Reads ==
  ASSUME Types, NEW who \in Ops \cup {"collector"}, NEW what \in {"busy", "done", "other"},
         MainReads(who, what)
  PROVE  /\ main' \in [who : Ops \cup {"none", "collector", "poll"},
                       what : {"none", "busy", "done", "other", "asks"}, copy : States]
         /\ main'.copy = ui /\ main'.what = what /\ main'.who = who
  BY DEF MainReads, Types, TypeOK

LEMMA IdleIsNotBusy == ViewModelAssumption => Idle.copy \in States /\ ~Idle.copy.busy
  BY DEF Idle, States, ViewModelAssumption

LEMMA Inductive ==
  ViewModelAssumption /\ Types /\ NothingBusy /\ [Next]_vars => Types' /\ NothingBusy'
<1> SUFFICES ASSUME ViewModelAssumption, Types, NothingBusy, [Next]_vars
             PROVE  Types' /\ NothingBusy'
  OBVIOUS
<1> USE DEF native, polling, calls
<1>1. ASSUME NEW o \in Ops, Tap(o) PROVE Types' /\ NothingBusy'
  <2>1. MainReads(o, "busy") /\ pc' = [pc EXCEPT ![o] = "begin"]
    BY <1>1 DEF Tap
  <2>2. Types'
    BY <1>1, <2>1, Reads DEF Tap, Types, TypeOK, Places
  <2>3. ~Quiet'
    BY <2>1 DEF Quiet, InFlight, Types
  <2> QED
    BY <2>1, <2>2, <2>3, Reads DEF NothingBusy
<1>2. ASSUME NEW o \in Ops, Native(o) PROVE Types' /\ NothingBusy'
  <2>1. pc[o] = "native" /\ pc'[o] \in {"sniffer", "read"} /\ pc' \in [Ops -> Places]
    BY <1>2 DEF Native, Types, Places
  <2>2. ok' \in [Ops -> BOOLEAN]
    BY <1>2 DEF Native, Types, TypeOK
  <2>3. capture' \in BOOLEAN /\ total' \in 0 .. MaxFrames /\ stored' \in 0 .. total'
    <3>1. total \in 0 .. MaxFrames /\ stored \in 0 .. total /\ capture \in BOOLEAN /\ MaxFrames \in Nat
      BY DEF Types, TypeOK, ViewModelAssumption
    <3>2. CASE o = "start" /\ ~capture /\ Starts
      BY <3>1, <3>2 DEF Starts
    <3>3. CASE o = "stop" /\ capture' = FALSE /\ UNCHANGED <<total, stored>>
      BY <3>1, <3>3
    <3>4. CASE o = "save" /\ stored' = 0 /\ UNCHANGED <<capture, total>>
      BY <3>1, <3>4
    <3>5. CASE UNCHANGED native
      BY <3>1, <3>5
    <3> QED
      BY <1>2, <3>2, <3>3, <3>4, <3>5 DEF Native
  <2>4. Types'
    BY <1>2, <2>1, <2>2, <2>3 DEF Native, Types, TypeOK
  <2>5. ~Quiet'
    BY <2>1 DEF Quiet, InFlight
  <2> QED
    BY <1>2, <2>4, <2>5 DEF Native, NothingBusy
<1>3. ASSUME NEW o \in Ops, Throws(o) \/ Ask(o) \/ IoReads(o) \/ IoWrites(o)
      PROVE  Types' /\ NothingBusy'
  <2>1. pc'[o] \notin {"idle", "done"} /\ pc' \in [Ops -> Places]
    BY <1>3 DEF Throws, Ask, IoReads, IoWrites, Types, Places
  <2>2. copy' \in [Ops -> States]
    <3>1. CASE Ask(o)
      <4>1. copy[o] \in States /\ (ok[o] /\ capture) \in BOOLEAN
        BY DEF Types, TypeOK
      <4>2. [copy[o] EXCEPT !.running = ok[o] /\ capture] \in States
        BY <4>1 DEF States
      <4> QED
        BY <3>1, <4>2 DEF Ask, Types, TypeOK
    <3>2. CASE Throws(o) \/ IoReads(o) \/ IoWrites(o)
      BY <3>2 DEF Throws, IoReads, IoWrites, Types, TypeOK
    <3> QED
      BY <1>3, <3>1, <3>2
  <2>3. ui' \in States
    BY <1>3 DEF Throws, Ask, IoReads, IoWrites, Types, TypeOK
  <2>4. UNCHANGED <<shown, main, ok, told, drained, capture, total, stored>>
    BY <1>3 DEF Throws, Ask, IoReads, IoWrites
  <2>5. Types'
    BY <2>1, <2>2, <2>3, <2>4 DEF Types, TypeOK
  <2>6. ~Quiet'
    BY <2>1 DEF Quiet, InFlight
  <2> QED
    BY <2>4, <2>5, <2>6 DEF NothingBusy
<1>4. ASSUME NEW o \in Ops, Finally(o) PROVE Types' /\ NothingBusy'
  <2>1. MainReads(o, "done") /\ pc' = [pc EXCEPT ![o] = "end"]
    BY <1>4 DEF Finally
  <2>2. Types'
    BY <1>4, <2>1, Reads DEF Finally, Types, TypeOK, Places
  <2>3. ~Quiet'
    BY <2>1 DEF Quiet, InFlight, Types
  <2> QED
    BY <2>1, <2>2, <2>3, Reads DEF NothingBusy
<1>5. CASE Render
  BY <1>5 DEF Render, Types, TypeOK, States, NothingBusy, Quiet, InFlight
<1>6. CASE MainWrites
  <2>1. main' = Idle /\ main' \in [who : Ops \cup {"none", "collector", "poll"},
               what : {"none", "busy", "done", "other", "asks"}, copy : States]
    BY <1>6, IdleIsNotBusy DEF MainWrites, Idle
  <2>2. main.copy \in States
    BY DEF Types, TypeOK
  <2>3. ui' \in States /\ (main.what = "done" => ~ui'.busy) /\ (main.what = "other" => ui' = main.copy)
    BY <1>6, <2>2 DEF MainWrites, States
  <2>4. pc' \in [Ops -> Places]
    BY <1>6 DEF MainWrites, Types, Places
  <2>5. Types'
    BY <1>6, <2>1, <2>3, <2>4 DEF MainWrites, Types, TypeOK
  <2>6. ~main'.copy.busy /\ main'.what = "none"
    BY <2>1, IdleIsNotBusy DEF Idle
  <2>7. CASE main.what = "busy"
    <3>1. main.who \in Ops /\ pc'[main.who] = "native"
      BY <1>6, <2>7 DEF MainWrites, NothingBusy, Types
    <3>2. ~Quiet'
      BY <3>1 DEF Quiet, InFlight
    <3> QED
      BY <2>5, <2>6, <3>2 DEF NothingBusy
  <2>8. CASE main.what = "done"
    BY <2>3, <2>5, <2>6, <2>8 DEF NothingBusy
  <2>9. CASE main.what = "other"
    <3>1. pc' = pc
      BY <1>6, <2>9 DEF MainWrites
    <3> QED
      BY <2>3, <2>5, <2>6, <2>9, <3>1 DEF NothingBusy, Quiet, InFlight
  <2> QED
    BY <1>6, <2>7, <2>8, <2>9 DEF MainWrites
<1>7. CASE OtherUpdate
  <2>1. MainReads("collector", "other")
    BY <1>7 DEF OtherUpdate
  <2>2. Types'
    BY <1>7, <2>1, Reads DEF OtherUpdate, Types, TypeOK
  <2>3. main'.copy = ui /\ main'.what = "other"
    BY <2>1, Reads
  <2>4. UNCHANGED <<ui, pc>>
    BY <1>7 DEF OtherUpdate
  <2> QED
    BY <2>2, <2>3, <2>4 DEF NothingBusy, Quiet, InFlight
<1>8. CASE PollBegin \/ PollDrain
  <2>1. UNCHANGED <<ui, shown, main, pc, copy, ok, told, capture, total>>
    BY <1>8 DEF PollBegin, PollDrain
  <2>2. drained' \in BOOLEAN
    <3>1. (stored > 0) \in BOOLEAN
      OBVIOUS
    <3> QED
      BY <1>8, <3>1, Zenon DEF PollBegin, PollDrain, Types
  <2>3. stored' \in 0 .. total
    <3>1. stored \in 0 .. total /\ total \in Nat
      BY DEF Types, TypeOK
    <3>2. stored' = stored \/ stored' = 0
      BY <1>8 DEF PollBegin, PollDrain
    <3> QED
      BY <3>1, <3>2
  <2>4. Types'
    BY <2>1, <2>2, <2>3 DEF Types, TypeOK
  <2> QED
    BY <2>1, <2>4 DEF NothingBusy, Quiet, InFlight
<1>9. CASE PollTotal
  <2>1. main' \in [who : Ops \cup {"none", "collector", "poll"},
               what : {"none", "busy", "done", "other", "asks"}, copy : States]
    BY <1>9, IdleIsNotBusy DEF PollTotal, Idle
  <2>2. main'.copy = Idle.copy /\ main'.what = "asks"
    BY <1>9 DEF PollTotal, Idle
  <2>3. Types'
    BY <1>9, <2>1 DEF PollTotal, Types, TypeOK
  <2> QED
    BY <1>9, <2>2, <2>3, IdleIsNotBusy DEF PollTotal, NothingBusy, Quiet, InFlight
<1>10. CASE PollRunning
  BY <1>10 DEF PollRunning, Types, TypeOK, NothingBusy, Quiet, InFlight
<1>11. CASE PollReads
  <2>1. CASE main' = Idle
    <3>1. main' \in [who : Ops \cup {"none", "collector", "poll"},
                 what : {"none", "busy", "done", "other", "asks"}, copy : States]
      BY <2>1, IdleIsNotBusy DEF Idle
    <3>2. Types'
      BY <1>11, <3>1 DEF PollReads, Types, TypeOK
    <3>3. ~main'.copy.busy /\ main'.what = "none"
      BY <2>1, IdleIsNotBusy DEF Idle
    <3> QED
      BY <1>11, <3>2, <3>3 DEF PollReads, NothingBusy, Quiet, InFlight
  <2>2. CASE main' # Idle
    <3> DEFINE told2 == [ui EXCEPT !.running = told.running, !.total = told.total]
    <3>1. told2 \in States /\ told2.busy = ui.busy
      BY DEF Types, TypeOK, States
    <3>2. main' = [main EXCEPT !.copy = told2]
      BY <1>11, <2>2 DEF PollReads
    <3>3. /\ main' \in [who : Ops \cup {"none", "collector", "poll"},
                   what : {"none", "busy", "done", "other", "asks"}, copy : States]
          /\ main'.who = main.who /\ main'.what = main.what /\ main'.copy.busy = ui.busy
      BY <3>1, <3>2 DEF Types
    <3>4. Types'
      BY <1>11, <3>3 DEF PollReads, Types, TypeOK
    <3> QED
      BY <1>11, <3>3, <3>4 DEF PollReads, NothingBusy, Quiet, InFlight
  <2> QED
    BY <2>1, <2>2
<1>12. CASE PollWrites
  <2>1. main' \in [who : Ops \cup {"none", "collector", "poll"},
               what : {"none", "busy", "done", "other", "asks"}, copy : States]
    BY <1>12, IdleIsNotBusy DEF PollWrites, Idle
  <2>2. ~main'.copy.busy /\ main'.what = "none"
    BY <1>12, IdleIsNotBusy DEF PollWrites, Idle
  <2>3. Types'
    BY <1>12, <2>1 DEF PollWrites, Types, TypeOK
  <2> QED
    BY <1>12, <2>2, <2>3 DEF PollWrites, NothingBusy, Quiet, InFlight
<1>13. CASE Capture
  <2>1. total' \in 0 .. MaxFrames /\ stored' \in 0 .. total'
    BY <1>13 DEF Capture, Counted, Types, TypeOK, ViewModelAssumption
  <2> QED
    BY <1>13, <2>1 DEF Capture, Types, TypeOK, NothingBusy, Quiet, InFlight
<1>14. CASE UNCHANGED vars
  BY <1>14 DEF vars, Types, TypeOK, NothingBusy, Quiet, InFlight
<1> QED
  BY <1>1, <1>2, <1>3, <1>4, <1>5, <1>6, <1>7, <1>8, <1>9, <1>10, <1>11, <1>12, <1>13, <1>14
     DEF Next, Thread, Poll

(* The variables keep their types, and nothing busy is left behind.        *)
THEOREM NothingBusyTheorem ==
  ASSUME ViewModelAssumption PROVE Spec => [](Types /\ NothingBusy)
<1> QED
  BY Initially, Inductive, PTL DEF Spec

-----------------------------------------------------------------------------
(* Whatever updates are lost, the state is not busy when no operation is   *)
(* in progress.                                                            *)
THEOREM BusyClearsTheorem == ASSUME ViewModelAssumption PROVE Spec => []BusyClears
<1>1. NothingBusy => BusyClears
  BY DEF NothingBusy, BusyClears, Quiet
<1> QED
  BY <1>1, NothingBusyTheorem, PTL

(* The copies are states, and what is stored has been counted.             *)
THEOREM ViewTypeTheorem == ASSUME ViewModelAssumption PROVE Spec => []TypeOK
<1>1. Types => TypeOK
  BY DEF Types
<1> QED
  BY <1>1, NothingBusyTheorem, PTL
=============================================================================
