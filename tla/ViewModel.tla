------------------------------ MODULE ViewModel ------------------------------
(***************************************************************************)
(* The UI state of MainViewModel.kt as its coroutines update it: each      *)
(* update reads the state, copies it with some fields changed and writes   *)
(* the copy. Coroutines of the main thread do that one after the other,    *)
(* but the body of an operation (withApi) runs on an IO thread, and so do  *)
(* its updates: an update of another thread in between is lost. The fields *)
(* here are busy, and those of the sniffer; an update of any other field   *)
(* (log, diagOpen, snapshots) writes these back as it read them.           *)
(***************************************************************************)
EXTENDS Naturals

CONSTANTS Gated,      \* operations whose button is enabled only when not busy
          Free,       \* those that can be started at any time
          MayThrow,   \* calls of the root process may throw
          MaxFrames,  \* bound on frames captured
          MaxOther    \* bound on updates of other fields by the main thread

(* The operations are calls of startSniffer, stopSniffer, and any others.  *)
Ops == Gated \cup Free

ViewModelAssumption ==
  /\ Gated \subseteq {"start", "stop", "apply", "save"} /\ Free \subseteq {"open"}
  /\ MayThrow \in BOOLEAN /\ MaxFrames \in Nat /\ MaxOther \in Nat

VARIABLES
  ui,       \* _ui.value: busy, running and total
  shown,    \* busy and running as the screen shows them
  main,     \* update in progress on the main thread: its place, its copy
  pc, copy, \* of the operations: place in withApi, and the copy it made
  ok,       \* what the call of the root process returned to an operation
  poll, drained, told,
            \* pollSniffer: its place, whether it has frames, what it was told
  capture, total, stored,
            \* the native sniffer runs; frames it has seen, and not drained
  others    \* updates of other fields so far

vars == <<ui, shown, main, pc, copy, ok, poll, drained, told, capture, total, stored, others>>
native  == <<capture, total, stored>>
polling == <<poll, drained, told>>
calls   == <<pc, copy, ok>>

Idle == [who |-> "none", what |-> "none", copy |-> [busy |-> FALSE, running |-> FALSE, total |-> 0]]

Init ==
  /\ ui = Idle.copy /\ shown = [busy |-> FALSE, running |-> FALSE]
  /\ main = Idle
  /\ pc = [o \in Ops |-> "idle"]
  /\ copy = [o \in Ops |-> Idle.copy]
  /\ ok = [o \in Ops |-> FALSE]
  /\ poll = "idle" /\ drained = FALSE /\ told = [total |-> 0, running |-> FALSE]
  /\ capture = FALSE /\ total = 0 /\ stored = 0 /\ others = 0

-----------------------------------------------------------------------------
(* The screen shows the state as it was collected last.                    *)
Render ==
  /\ main = Idle /\ shown # [busy |-> ui.busy, running |-> ui.running]
  /\ shown' = [busy |-> ui.busy, running |-> ui.running]
  /\ UNCHANGED <<ui, main, calls, polling, native, others>>

(* The main thread begins an update; the copy is made of the state now.    *)
MainReads(who, what) ==
  /\ main = Idle
  /\ main' = [who |-> who, what |-> what, copy |-> ui]

Enabled(o) ==
  /\ o \in Gated => ~shown.busy
  /\ o = "start" => ~shown.running
  /\ o = "stop"  => shown.running

(* A tap: withApi begins on the main thread. Each operation is tapped      *)
(* once.                                                                   *)
Tap(o) ==
  /\ pc[o] = "idle" /\ Enabled(o)
  /\ MainReads(o, "busy")
  /\ pc' = [pc EXCEPT ![o] = "begin"]
  /\ UNCHANGED <<ui, shown, copy, ok, polling, native, others>>

(* The write of the update in progress.                                    *)
MainWrites ==
  /\ main.what \in {"busy", "done", "other"}
  /\ ui' = IF main.what = "other" THEN main.copy
           ELSE [main.copy EXCEPT !.busy = (main.what = "busy")]
  /\ pc' = CASE main.what = "busy" -> [pc EXCEPT ![main.who] = "native"]
             [] main.what = "done" -> [pc EXCEPT ![main.who] = "done"]
             [] OTHER              -> pc
  /\ main' = Idle
  /\ UNCHANGED <<shown, copy, ok, polling, native, others>>

(* A status, an api, snapshots or a line of the log.                       *)
OtherUpdate ==
  /\ others < MaxOther /\ others' = others + 1
  /\ MainReads("collector", "other")
  /\ UNCHANGED <<ui, shown, calls, polling, native>>

-----------------------------------------------------------------------------
(* The body of an operation, on an IO thread                               *)

(* A start of the native sniffer empties the store.                        *)
Starts == capture' = TRUE /\ total' = 0 /\ stored' = 0

(* The call of the root process; a start that fails, or finds the sniffer  *)
(* running, changes nothing.                                               *)
Native(o) ==
  /\ pc[o] = "native"
  /\ pc' = [pc EXCEPT ![o] = IF o \in {"start", "stop"} THEN "sniffer" ELSE "read"]
  /\ \/ o = "start" /\ ~capture /\ Starts
     \/ o = "stop" /\ capture' = FALSE /\ UNCHANGED <<total, stored>>
     \/ o = "save" /\ stored' = 0 /\ UNCHANGED <<capture, total>>
     \/ o \in {"start", "apply", "open"} /\ UNCHANGED native
  /\ ok' = [ok EXCEPT ![o] = o = "stop" \/ (o = "start" /\ ~capture /\ capture')]
  /\ UNCHANGED <<ui, shown, main, copy, polling, others>>

(* The call throws, before or after it took effect: the rest of the body   *)
(* is skipped.                                                             *)
Throws(o) ==
  /\ MayThrow /\ pc[o] \in {"native", "sniffer", "ask"}
  /\ pc' = [pc EXCEPT ![o] = "finally"]
  /\ UNCHANGED <<ui, shown, main, copy, ok, polling, native, others>>

(* An update reads the state, which is what its copy is made of ...        *)
IoReads(o) ==
  /\ pc[o] \in {"sniffer", "read"}
  /\ copy' = [copy EXCEPT ![o] = ui]
  /\ pc' = [pc EXCEPT ![o] = IF pc[o] = "sniffer" THEN "ask" ELSE "write"]
  /\ UNCHANGED <<ui, shown, main, ok, polling, native, others>>

(* ... before the root process is asked what else the copy is to say.      *)
Ask(o) ==
  /\ pc[o] = "ask"
  /\ copy' = [copy EXCEPT ![o].running = ok[o] /\ capture]
  /\ pc' = [pc EXCEPT ![o] = "set"]
  /\ UNCHANGED <<ui, shown, main, ok, polling, native, others>>

(* After the sniffer's fields come the log and diagOpen.                   *)
IoWrites(o) ==
  /\ pc[o] \in {"set", "write"}
  /\ ui' = copy[o]
  /\ pc' = [pc EXCEPT ![o] = IF pc[o] = "set" THEN "read" ELSE "finally"]
  /\ UNCHANGED <<shown, main, copy, ok, polling, native, others>>

(* Faulty: an operation may end without its finally.                       *)
FinallySkipped(o) ==
  /\ pc[o] = "finally" /\ pc' = [pc EXCEPT ![o] = "done"]
  /\ UNCHANGED <<ui, shown, main, copy, ok, polling, native, others>>

(* On the main thread again.                                               *)
Finally(o) ==
  /\ pc[o] = "finally" /\ MainReads(o, "done")
  /\ pc' = [pc EXCEPT ![o] = "end"]
  /\ UNCHANGED <<ui, shown, copy, ok, polling, native, others>>

-----------------------------------------------------------------------------
(* pollSniffer, every 1.5 s while the state says that the sniffer runs     *)
PollBegin ==
  /\ poll = "idle" /\ main = Idle /\ ui.running
  /\ poll' = "drain"
  /\ UNCHANGED <<ui, shown, main, calls, drained, told, native, others>>

PollDrain ==
  /\ poll = "drain" /\ poll' = "ask"
  /\ drained' = (stored > 0) /\ stored' = 0
  /\ UNCHANGED <<ui, shown, main, calls, told, capture, total, others>>

(* Back on the main thread, which waits for the answers.                   *)
PollTotal ==
  /\ poll = "ask" /\ main = Idle
  /\ main' = [Idle EXCEPT !.who = "poll", !.what = "asks"]
  /\ told' = [told EXCEPT !.total = total] /\ poll' = "running"
  /\ UNCHANGED <<ui, shown, calls, drained, native, others>>

PollRunning ==
  /\ poll = "running"
  /\ told' = [told EXCEPT !.running = capture] /\ poll' = "update"
  /\ UNCHANGED <<ui, shown, main, calls, drained, native, others>>

PollReads ==
  /\ poll = "update"
  /\ IF drained \/ told.total # ui.total
     THEN /\ main' = [main EXCEPT !.copy = [ui EXCEPT !.running = told.running, !.total = told.total]]
          /\ poll' = "write"
     ELSE main' = Idle /\ poll' = "idle"
  /\ UNCHANGED <<ui, shown, calls, drained, told, native, others>>

PollWrites ==
  /\ poll = "write" /\ poll' = "idle"
  /\ ui' = main.copy /\ main' = Idle
  /\ UNCHANGED <<shown, calls, drained, told, native, others>>

Counted == stored' = stored + 1 /\ total' = total + 1

Capture ==
  /\ capture /\ total < MaxFrames
  /\ Counted
  /\ UNCHANGED <<ui, shown, main, calls, polling, capture, others>>

Thread(o) == Native(o) \/ Throws(o) \/ Ask(o) \/ IoReads(o) \/ IoWrites(o) \/ Finally(o)
Poll == PollBegin \/ PollDrain \/ PollTotal \/ PollRunning \/ PollReads \/ PollWrites

Next ==
  \/ \E o \in Ops : Tap(o) \/ Thread(o)
  \/ Render \/ MainWrites \/ OtherUpdate \/ Poll \/ Capture

Spec == Init /\ [][Next]_vars

(* Threads go on; each of them gets the main thread in its turn, however   *)
(* often another has it. The user and the modem need not do anything.      *)
FairSpec ==
  /\ Spec
  /\ \A o \in Ops : SF_vars(Thread(o))
  /\ SF_vars(Poll) /\ WF_vars(MainWrites) /\ SF_vars(Render)

-----------------------------------------------------------------------------
States == [busy : BOOLEAN, running : BOOLEAN, total : 0 .. MaxFrames]
InFlight(o) == pc[o] \notin {"idle", "done"}

TypeOK ==
  /\ ui \in States /\ shown \in [busy : BOOLEAN, running : BOOLEAN]
  /\ main.copy \in States /\ copy \in [Ops -> States] /\ ok \in [Ops -> BOOLEAN]
  /\ told \in [total : 0 .. MaxFrames, running : BOOLEAN]
  /\ stored \in 0 .. total /\ total \in 0 .. MaxFrames

(* Whatever updates are lost, and however the operations overlap, the      *)
(* state is not busy when none is in progress: the last to end clears it   *)
(* on the main thread, and no copy made before can be written after that.  *)
BusyClears == main = Idle /\ (\A o \in Ops : ~InFlight(o)) => ~ui.busy

(* The buttons come back.                                                  *)
ButtonsReturn == []<>(~shown.busy)

(* MainScreen.kt:660: the sniffer is shown as idle or waiting for frames,  *)
(* which in the end is what it is: after a stop ...                        *)
StopIsShown == <>[](~capture) => <>[](~shown.running)

(* ... and after a start.                                                  *)
StartIsShown == <>[]capture => <>[](shown.running)
=============================================================================
