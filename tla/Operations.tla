------------------------------ MODULE Operations ------------------------------
(***************************************************************************)
(* What the user asks for and is told: the binding of the root process,    *)
(* the UI state with its operations and the poll of the capture, the way   *)
(* of a selection of bands to the modem, the calls over DIAG with their    *)
(* result codes, and the walks through the TLVs of a response.             *)
(*                                                                         *)
(* As in Transports, the modules share no state, so that in a behaviour    *)
(* one of them moves, part, and the others stay as they are at the start.  *)
(***************************************************************************)
EXTENDS TlvWalk

CONSTANTS
  Parts,                                      \* those of the instance
  W, B, Lte, Nr, Paths,                       \* BandRequest
  CallKinds, Errnos, MaxCalls, MaxLogs,       \* DiagCalls
  Gated, Free, MayThrow, MaxFrames, MaxOther, \* ViewModel
  MaxDeaths, MaxTaps                          \* RootSession

VARIABLES
  part,
  lteMask, nrMask, checked, asked, pref, todo, path, bandRc,
  open, call, op, callPc, rc, item, from, fate, inbox, pending, logs,
  ui, shown, main, pc, copy, ok, poll, drained, told, capture, total, stored, others,
  granted, rootAsked, status, seen, connection, launching, proc, born, callbacks, api,
  taps, waiting

Request == INSTANCE BandRequest WITH rc <- bandRc
Calls   == INSTANCE DiagCalls WITH pc <- callPc, Ops <- CallKinds
View    == INSTANCE ViewModel
Session == INSTANCE RootSession WITH asked <- rootAsked

ASSUME OperationsAssumption ==
  /\ Parts \subseteq {"walk", "bands", "calls", "view", "session"}
  /\ Request!BandAssumption /\ Calls!DiagCallsAssumption
  /\ View!ViewModelAssumption /\ Session!SessionAssumption

walkVars    == vars
bandVars    == <<lteMask, nrMask, checked, asked, pref, todo, path, bandRc>>
callVars    == <<open, call, op, callPc, rc, item, from, fate, inbox, pending, logs>>
viewVars    == <<ui, shown, main, pc, copy, ok, poll, drained, told, capture, total,
                 stored, others>>
sessionVars == <<granted, rootAsked, status, seen, connection, launching, proc, born,
                 callbacks, api, taps, waiting>>
allVars     == <<part, walkVars, bandVars, callVars, viewVars, sessionVars>>

(* The parts that stay start in one of their initial states.               *)
OperationsInit ==
  /\ part \in Parts
  /\ Init /\ Request!Init /\ Calls!Init /\ View!Init /\ Session!Init
  /\ part # "walk" =>
       /\ parser = CHOOSE p \in Parsers : TRUE
       /\ bytes = CHOOSE f \in Frames : TRUE
       /\ declared = 0
  /\ part # "session" => granted

-----------------------------------------------------------------------------
WalkMoves ==
  /\ part = "walk" /\ Next
  /\ UNCHANGED <<part, bandVars, callVars, viewVars, sessionVars>>

BandsMove ==
  /\ part = "bands" /\ Request!Next
  /\ UNCHANGED <<part, walkVars, callVars, viewVars, sessionVars>>

CallsMove ==
  /\ part = "calls" /\ Calls!Next
  /\ UNCHANGED <<part, walkVars, bandVars, viewVars, sessionVars>>

ViewMoves ==
  /\ part = "view" /\ View!Next
  /\ UNCHANGED <<part, walkVars, bandVars, callVars, sessionVars>>

SessionMoves ==
  /\ part = "session" /\ Session!Next
  /\ UNCHANGED <<part, walkVars, bandVars, callVars, viewVars>>

OperationsNext == WalkMoves \/ BandsMove \/ CallsMove \/ ViewMoves \/ SessionMoves

OperationsSpec == OperationsInit /\ [][OperationsNext]_allVars

(* The fairness of the modules' own specifications.                        *)
InView(step)    == part = "view" /\ step
InSession(step) == part = "session" /\ step

OperationsFairSpec ==
  /\ OperationsSpec
  /\ WF_walkVars(part = "walk" /\ Next)
  /\ \A o \in Gated \cup Free : SF_viewVars(InView(View!Thread(o)))
  /\ SF_viewVars(InView(View!Poll)) /\ SF_viewVars(InView(View!Render))
  /\ WF_viewVars(InView(View!MainWrites))
  /\ WF_sessionVars(InSession(Session!ShellAnswers))
  /\ WF_sessionVars(InSession(Session!StatusCollected))
  /\ WF_sessionVars(InSession(Session!Launch))
  /\ WF_sessionVars(InSession(Session!Callback))

-----------------------------------------------------------------------------
(* The types of all parts.                                                 *)
OperationsTypeOK ==
  CASE part = "walk"  -> TypeOK
    [] part = "bands" -> Request!TypeOK
    [] part = "calls" -> Calls!TypeOK
    [] part = "view"  -> View!TypeOK
    [] part = "session" -> Session!TypeOK

(* BandMask.kt to the request builders: the boxes that the user left       *)
(* checked are those of the masks, and what the modem took is what was     *)
(* selected, over each path as far as its request has room for it.         *)
SelectionArrives == part = "bands" =>
  Request!MaskShowsBoxes /\ Request!SelectionArrives /\ Request!QrtrSendsWhatIsSelected

(* efs2.c: a put or unlink is reported as done only if the modem accepted  *)
(* an operation on its file system, and a get returns the item that a get  *)
(* was answered with, however late the answers come.                       *)
FsResultIsModems == Calls!FsOkMeansAccepted /\ Calls!GetReturnsItem

(* jni_bridge.c and decodeRc: a call that got no frame reads as a failure  *)
(* of the channel, one that got a frame as what was in it, as long as the  *)
(* error numbers are from 4 to 100.                                        *)
SidesToldApart == Calls!SidesToldApart

(* MainViewModel.kt: whatever updates are lost, the state is not busy when *)
(* no operation is in progress.                                            *)
BusyClears == View!BusyClears

(* RootClient.kt: the api is the living process's or the news of its death *)
(* is on its way, and no process is reported connected twice.              *)
SessionFollowsProcess == Session!ApiIsAlive /\ Session!ConnectedOnce

(* qmi_nas.c, qrtr.c, qmux.c: every walk ends: a TLV of length 0 is three  *)
(* bytes further.                                                          *)
EveryWalkReturns == part = "walk" ~> outcome \notin {"begin", "walking"}

(* MainViewModel.kt: the buttons come back.                                *)
ButtonsReturn == View!ButtonsReturn

(* RootClient.kt: once root is granted the app gets connected by itself,   *)
(* as long as the process lives.                                           *)
GetsConnected == Session!GetsConnected
=============================================================================
