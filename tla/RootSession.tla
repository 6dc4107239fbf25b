----------------------------- MODULE RootSession -----------------------------
(***************************************************************************)
(* The binding of the app to its root process: RootClient.kt, the parts of *)
(* MainViewModel.kt that call it, and the life of the process, which may   *)
(* end at any time with all that the native code keeps in it. All of this  *)
(* runs on the main thread; libsu, which starts the process and posts the  *)
(* two callbacks, is taken by what it does for the app.                    *)
(***************************************************************************)
EXTENDS Naturals, Sequences

CONSTANTS MaxDeaths,   \* bound on deaths of the root process
          MaxTaps      \* bound on taps of the user

SessionAssumption == MaxDeaths \in Nat /\ MaxTaps \in Nat

VARIABLES
  granted,      \* what the user says to the root prompt
  asked,        \* checkRoot waits for the shell
  status,       \* RootClient.status
  seen,         \* the status that the view model collected last
  connection,   \* RootClient.connection # null
  launching,    \* libsu starts the process
  proc,         \* number of the living root process, or 0
  born,         \* processes so far
  callbacks,    \* posted to the main thread
  api,          \* process whose binder RootClient.api holds, or 0 for null
  taps,
  waiting       \* the user was told to retry, and is not connected since

vars == <<granted, asked, status, seen, connection, launching, proc, born,
          callbacks, api, taps, waiting>>
process == <<granted, proc, born>>

Init ==
  /\ granted \in BOOLEAN /\ asked = TRUE
  /\ status = "Unknown" /\ seen = "none"
  /\ connection = FALSE /\ launching = FALSE
  /\ proc = 0 /\ born = 0 /\ callbacks = <<>> /\ api = 0
  /\ taps = 0 /\ waiting = FALSE

(* Faulty: a connection object does not keep a second one from being made. *)
BindAgain == connection' = TRUE /\ launching' = TRUE

Bind ==
  IF connection THEN UNCHANGED <<connection, launching>>
  ELSE connection' = TRUE /\ launching' = TRUE

(* checkRoot; a status that does not change is not emitted again.          *)
ShellAnswers ==
  /\ asked /\ asked' = FALSE
  /\ status' = IF granted THEN "HasRoot" ELSE "NoRoot"
  /\ UNCHANGED <<process, seen, connection, launching, callbacks, api, taps, waiting>>

(* Faulty: a root status brings no binding.                                *)
OnStatusIgnored == UNCHANGED <<connection, launching>>

OnStatus ==
  IF status = "HasRoot" /\ api = 0 THEN Bind ELSE UNCHANGED <<connection, launching>>

StatusCollected ==
  /\ seen # status /\ seen' = status
  /\ OnStatus
  /\ UNCHANGED <<process, asked, status, callbacks, api, taps, waiting>>

(* bindRootService, the button "Connect root" or "Reconnect root".         *)
TapBind ==
  /\ taps < MaxTaps /\ taps' = taps + 1
  /\ asked' = TRUE /\ Bind
  /\ waiting' = (api = 0)
  /\ UNCHANGED <<process, status, seen, callbacks, api>>

(* withApi: without an api, bind and tell the user to retry; a call to a   *)
(* process that is dead ends in an exception, of which the user is told.   *)
TapCall ==
  /\ taps < MaxTaps /\ taps' = taps + 1
  /\ IF api = 0 THEN Bind /\ waiting' = TRUE
     ELSE UNCHANGED <<connection, launching, waiting>>
  /\ UNCHANGED <<process, asked, status, seen, callbacks, api>>

(* RootService.bind starts the process if there is root.                   *)
Launch ==
  /\ launching /\ ~asked
  /\ launching' = FALSE
  /\ IF granted
     THEN IF proc # 0 THEN UNCHANGED <<proc, born>> ELSE born' = born + 1 /\ proc' = born + 1
     ELSE UNCHANGED <<proc, born>>
  /\ callbacks' = IF granted THEN Append(callbacks, [what |-> "connected", proc |-> proc'])
                  ELSE callbacks
  /\ UNCHANGED <<granted, asked, status, seen, connection, api, taps, waiting>>

Dies ==
  /\ proc # 0 /\ born <= MaxDeaths
  /\ proc' = 0
  /\ callbacks' = Append(callbacks, [what |-> "disconnected", proc |-> proc])
  /\ UNCHANGED <<granted, born, asked, status, seen, connection, launching, api, taps, waiting>>

(* Faulty: the api is kept.                                                *)
DisconnectedKeeps == UNCHANGED api

Disconnected == api' = 0

Callback ==
  /\ callbacks # <<>> /\ callbacks' = Tail(callbacks)
  /\ \/ /\ Head(callbacks).what = "connected"
        /\ api' = Head(callbacks).proc /\ waiting' = FALSE
     \/ /\ Head(callbacks).what = "disconnected"
        /\ Disconnected /\ UNCHANGED waiting
  /\ UNCHANGED <<process, asked, status, seen, connection, launching, taps>>

Next ==
  \/ ShellAnswers \/ StatusCollected \/ TapBind \/ TapCall
  \/ Launch \/ Dies \/ Callback

Spec == Init /\ [][Next]_vars

(* The shell, libsu and the main thread go on; nothing is assumed of the   *)
(* user, nor that a process ever dies.                                     *)
FairSpec ==
  Spec /\ WF_vars(ShellAnswers) /\ WF_vars(StatusCollected) /\ WF_vars(Launch) /\ WF_vars(Callback)

-----------------------------------------------------------------------------
TypeOK ==
  /\ {granted, asked, connection, launching, waiting} \subseteq BOOLEAN
  /\ status \in {"Unknown", "HasRoot", "NoRoot"} /\ seen \in {"none", "Unknown", "HasRoot", "NoRoot"}
  /\ {proc, born, api} \subseteq 0 .. MaxDeaths + 1 /\ taps \in 0 .. MaxTaps
  /\ Len(callbacks) <= 2

Posted(what) == \E i \in DOMAIN callbacks : callbacks[i].what = what

(* The api is the living process's, or the news of its death is on the way *)
(* to the main thread: no other call of a dead process can come.           *)
ApiIsAlive == api # 0 => api = proc \/ Posted("disconnected")

(* A process is bound through one connection: it is not reported connected *)
(* while the api is held, and never twice, however often the user taps and *)
(* whenever the status is collected.                                       *)
ConnectedOnce ==
  /\ Posted("connected") => api = 0
  /\ \A i, j \in DOMAIN callbacks :
       callbacks[i].what = "connected" /\ callbacks[j].what = "connected" => i = j

(* Once root is granted the app gets connected by itself, as long as the   *)
(* process lives.                                                          *)
GetsConnected == status = "HasRoot" ~> api # 0

(* MainViewModel.kt:276: "Binding now - retry in a second."                *)
RetryConnects == waiting /\ granted ~> ~waiting
=============================================================================
