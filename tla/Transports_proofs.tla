--------------------------- MODULE Transports_proofs ---------------------------
(***************************************************************************)
(* Proofs about the parts of Transports. Each part has an inductive        *)
(* invariant of its own; a step of the whole is one of its part's or       *)
(* leaves it alone.                                                        *)
(***************************************************************************)
EXTENDS Transports, SequenceTheorems, FiniteSetTheorems, WellFoundedInduction, TLAPS

-----------------------------------------------------------------------------
(* The ids of the thread.  Where it is in a call tells which ids it has,   *)
(* as long as none that puts an id back was refused, and whether the call  *)
(* has dropped. probe_connect is left out: Restored is not true of it.     *)
IdsAt ==
  /\ pc \in {"idle", "setgroups", "setegid"} => euid = "root" /\ egid = "root"
  /\ pc \in {"seteuid", "restore-gid"} => euid = "root" /\ egid = "radio"
  /\ pc = "restore-uid" => euid = "radio" /\ egid = "radio"
  /\ pc # "idle" => savedEuid = "root" /\ savedEgid = "root"

IdsInv ==
  /\ TypeOK
  /\ "probe" \notin Sites
  /\ pc = "idle" \/ (pc = "connect" /\ ~dropped) => ~keepcaps
  /\ pc \in {"setgroups", "setegid", "seteuid"} => ~dropped
  /\ ~refused => IdsAt /\ WholeDrop

LEMMA IdsStart == TransportsInit => Init
  BY DEF TransportsInit

LEMMA IdsSteps == [TransportsNext]_allVars => [Next]_vars
  BY DEF TransportsNext, IdsMove, DiagMoves, GatherMoves, QmuxMoves, QrtrMoves,
         ListMoves, ProbeMoves, VendorMoves, allVars, idsVars

LEMMA IdsType == TransportsSpec => []TypeOK
<1>1. Init => TypeOK
  BY SitesAssumption DEF Init, TypeOK
<1>2. TypeOK /\ [Next]_vars => TypeOK'
  BY DEF TypeOK, Next, vars, ids, saved, Begin, SetGroups, SetEgid, SetEgidFails, SetEuid,
         SetEuidFails, PutBackEgid, Connect, RestoreEuid, RestoreEgid
<1> QED
  BY <1>1, <1>2, IdsStart, IdsSteps, PTL DEF TransportsSpec

LEMMA IdsInitially == Init /\ "probe" \notin Sites => IdsInv
  BY SitesAssumption DEF Init, IdsInv, TypeOK, IdsAt, WholeDrop, ids, saved

LEMMA IdsInductive == IdsInv /\ [Next]_vars => IdsInv'
<1> SUFFICES ASSUME IdsInv, [Next]_vars PROVE IdsInv'
  OBVIOUS
<1> USE DEF IdsInv, TypeOK, IdsAt, WholeDrop, ids, saved
<1>1. ASSUME NEW s \in Sites, Begin(s) PROVE IdsInv'
  BY <1>1 DEF Begin
<1>2. CASE SetGroups
  BY <1>2 DEF SetGroups
<1>3. CASE SetEgid
  BY <1>3 DEF SetEgid
<1>4. CASE SetEgidFails
  BY <1>4 DEF SetEgidFails
<1>5. CASE SetEuid
  BY <1>5 DEF SetEuid
<1>6. CASE SetEuidFails
  BY <1>6 DEF SetEuidFails, PutBackEgid
<1>7. CASE Connect
  BY <1>7 DEF Connect
<1>8. CASE RestoreEuid
  BY <1>8 DEF RestoreEuid
<1>9. CASE RestoreEgid
  BY <1>9 DEF RestoreEgid, PutBackEgid
<1>10. CASE UNCHANGED vars
  BY <1>10 DEF vars
<1> QED
  BY <1>1, <1>2, <1>3, <1>4, <1>5, <1>6, <1>7, <1>8, <1>9, <1>10 DEF Next

LEMMA IdsInvariant ==
  ASSUME "probe" \notin Sites PROVE TransportsSpec => []IdsInv
  BY IdsStart, IdsSteps, IdsInitially, IdsInductive, PTL DEF TransportsSpec

(* Between calls the thread is root again and keeps no capabilities, for   *)
(* every order of calls of qmux.c and qrtr.c and of refusals by the        *)
(* kernel, unless putting an id back was refused.                          *)
THEOREM RestoredTheorem ==
  ASSUME "probe" \notin Sites PROVE TransportsSpec => []Restored
<1>1. IdsInv => Restored
  BY DEF IdsInv, Restored, IdsAt, TypeOK
<1> QED
  BY <1>1, IdsInvariant, PTL

(* The socket is made with both ids of radio or with those that the thread *)
(* came with: the drops of qmux.c and qrtr.c are whole.                    *)
THEOREM WholeDropTheorem ==
  ASSUME "probe" \notin Sites PROVE TransportsSpec => []WholeDrop
<1>1. IdsInv => WholeDrop
  BY DEF IdsInv, WholeDrop
<1> QED
  BY <1>1, IdsInvariant, PTL

-----------------------------------------------------------------------------
(* The probe of qmuxd: its connections are the one it uses, or none.       *)
ProbeInv == Probe!TypeOK /\ OneConnection

LEMMA ProbeAssumed == Candidates \in Nat \ {0} /\ MaxOther \in Nat
  BY TransportsAssumption DEF Probe!ProbeAssumption

LEMMA ProbeSteps == [TransportsNext]_allVars => [Probe!Next]_(Probe!vars)
  BY DEF TransportsNext, IdsMove, DiagMoves, GatherMoves, QmuxMoves, QrtrMoves,
         ListMoves, ProbeMoves, VendorMoves, allVars, probeVars, Probe!vars

LEMMA ProbeInitially == Probe!Init => ProbeInv
<1> SUFFICES ASSUME Probe!Init PROVE ProbeInv
  OBVIOUS
<1>1. wire \in Seq({Probe!GetVersion, Probe!GetClientId}) /\ probeInbox \in Seq(0 .. 2)
  BY EmptySeq DEF Probe!Init
<1>2. best \in 0 .. Candidates /\ cand \in 0 .. Candidates /\ others \in 0 .. MaxOther
  BY ProbeAssumed DEF Probe!Init
<1>3. OneConnection
  BY DEF Probe!Init, OneConnection, Probe!OneConnection
<1>4. fds \subseteq 1 .. Candidates /\ probeRc \in -3 .. 2
  BY DEF Probe!Init
<1>5. probePc = "connect" /\ aligned = TRUE /\ granted = FALSE
  BY DEF Probe!Init
<1> QED
  BY <1>1, <1>2, <1>3, <1>4, <1>5 DEF ProbeInv, Probe!TypeOK

(* What the probe writes and the daemon says are frames and ids.           *)
LEMMA ProbeWrites ==
  ASSUME Probe!TypeOK, NEW f \in {Probe!GetVersion, Probe!GetClientId}, Probe!Write(f)
  PROVE  wire' \in Seq({Probe!GetVersion, Probe!GetClientId})
<1> DEFINE Frames2 == {Probe!GetVersion, Probe!GetClientId}
<1>1. wire \in Seq(Frames2) /\ f \in Frames2
  BY DEF Probe!TypeOK
<1> HIDE DEF Frames2
<1>2. Append(wire, f) \in Seq(Frames2)
  BY <1>1, AppendProperties
<1> QED
  BY <1>1, <1>2 DEF Probe!Write, Frames2

LEMMA ProbeInductive == ProbeInv /\ [Probe!Next]_(Probe!vars) => ProbeInv'
<1> SUFFICES ASSUME ProbeInv, [Probe!Next]_(Probe!vars) PROVE ProbeInv'
  OBVIOUS
<1> DEFINE Written == {Probe!GetVersion, Probe!GetClientId}
           Stays == wire \in Seq(Written) /\ probeInbox \in Seq(0 .. 2)
           Rest2 == /\ probePc \in {"connect", "version", "client", "idle"}
                    /\ cand \in 0 .. Candidates /\ best \in 0 .. Candidates
                    /\ fds \subseteq 1 .. Candidates
                    /\ aligned \in BOOLEAN /\ granted \in BOOLEAN
                    /\ others \in 0 .. MaxOther /\ probeRc \in -3 .. 2
                    /\ OneConnection
<1>1. Stays /\ Rest2
  BY DEF ProbeInv, Probe!TypeOK
<1>2. Stays' /\ Rest2' => ProbeInv'
  BY DEF ProbeInv, Probe!TypeOK
<1> HIDE DEF Stays
<1> USE ProbeAssumed DEF OneConnection, Probe!OneConnection
<1>3. CASE Probe!Connect
  <2>1. Stays'
    BY <1>1, <1>3 DEF Probe!Connect, Stays
  <2> QED
    BY <1>1, <1>2, <1>3, <2>1 DEF Probe!Connect, Probe!CandidateLeft, Probe!KeepFirst
<1>4. CASE Probe!NoSocket
  <2>1. Stays'
    BY <1>1, <1>4 DEF Probe!NoSocket, Probe!Return, Stays
  <2> QED
    BY <1>1, <1>2, <1>4, <2>1 DEF Probe!NoSocket, Probe!Return
<1>5. CASE Probe!WriteVersion
  <2>1. Stays'
    BY <1>1, <1>5, ProbeWrites DEF ProbeInv, Probe!WriteVersion, Stays
  <2> QED
    BY <1>1, <1>2, <1>5, <2>1 DEF Probe!WriteVersion
<1>6. CASE Probe!NoReply
  <2>1. Stays'
    BY <1>1, <1>6 DEF Probe!NoReply, Probe!Return, Stays
  <2> QED
    BY <1>1, <1>2, <1>6, <2>1 DEF Probe!NoReply, Probe!Return
<1>7. CASE Probe!ReadVersion
  <2>1. probeInbox' \in Seq(0 .. 2)
    BY <1>7, EmptySeq DEF Probe!ReadVersion
  <2>2. Stays'
    BY <1>1, <1>7, <2>1, ProbeWrites DEF ProbeInv, Probe!ReadVersion, Stays
  <2> QED
    BY <1>1, <1>2, <1>7, <2>2 DEF Probe!ReadVersion
<1>8. CASE Probe!ReadClientId
  <2>1. probeInbox' \in Seq(0 .. 2)
    BY <1>8, EmptySeq DEF Probe!ReadClientId
  <2>2. Stays'
    BY <1>1, <1>8, <2>1 DEF Probe!ReadClientId, Stays
  <2> QED
    BY <1>1, <1>2, <1>8, <2>2 DEF Probe!ReadClientId, Probe!Return
<1>9. CASE Probe!NoClientId
  <2>1. Stays'
    BY <1>1, <1>9 DEF Probe!NoClientId, Stays
  <2> QED
    BY <1>1, <1>2, <1>9, <2>1 DEF Probe!NoClientId, Probe!Return
<1>10. CASE Probe!Serve
  <2>1. wire \in Seq(Written) /\ wire # <<>> /\ wire' = Tail(wire)
    BY <1>1, <1>10 DEF Probe!Serve, Stays
  <2>2. wire' \in Seq(Written)
    BY <2>1, HeadTailProperties
  <2>3. Head(wire) \in Written
    BY <2>1, HeadTailProperties
  <2>4. Head(wire).txn \in 0 .. 2
    BY <2>3 DEF Probe!GetVersion, Probe!GetClientId
  <2>5. probeInbox' = Append(probeInbox, Head(wire).txn)
    BY <1>10 DEF Probe!Serve
  <2>6. Append(probeInbox, Head(wire).txn) \in Seq(0 .. 2)
    BY <1>1, <2>4, AppendProperties DEF Stays
  <2>7. aligned' \in BOOLEAN
    BY <1>10 DEF Probe!Serve
  <2>8. granted' \in BOOLEAN
    BY <1>10 DEF Probe!Serve
  <2>9. UNCHANGED <<probePc, cand, fds, best, others, probeRc>>
    BY <1>10 DEF Probe!Serve
  <2> QED
    BY <1>1, <1>2, <2>2, <2>5, <2>6, <2>7, <2>8, <2>9 DEF Stays
<1>11. CASE Probe!Unasked
  <2>1. PICK txn \in 0 .. 2 : probeInbox' = Append(probeInbox, txn)
    BY <1>11 DEF Probe!Unasked
  <2>2. Append(probeInbox, txn) \in Seq(0 .. 2)
    BY <1>1, AppendProperties DEF Stays
  <2>3. Stays'
    BY <1>1, <1>11, <2>1, <2>2 DEF Probe!Unasked, Stays
  <2> QED
    BY <1>1, <1>2, <1>11, <2>3 DEF Probe!Unasked
<1>12. CASE UNCHANGED Probe!vars
  BY <1>1, <1>2, <1>12 DEF Probe!vars, Stays
<1> QED
  BY <1>3, <1>4, <1>5, <1>6, <1>7, <1>8, <1>9, <1>10, <1>11, <1>12
  DEF Probe!Next, Probe!ProbeStep

LEMMA ProbeInvariant == TransportsSpec => []ProbeInv
<1>1. TransportsInit => Probe!Init
  BY DEF TransportsInit
<1> QED
  BY <1>1, ProbeSteps, ProbeInitially, ProbeInductive, PTL DEF TransportsSpec

(* However the probe of qmuxd fails, it leaves no connection behind, and   *)
(* while it runs it holds the one it uses and no other.                    *)
THEOREM OneConnectionTheorem == TransportsSpec => []OneConnection
<1>1. ProbeInv => OneConnection
  BY DEF ProbeInv
<1> QED
  BY <1>1, ProbeInvariant, PTL

-----------------------------------------------------------------------------
(* The listing of services.  The array has as many entries as were         *)
(* counted, as far as it goes.                                             *)
ListInv ==
  /\ List!TypeOK
  /\ ListsWhatWasHeard
  /\ Len(out) = IF count < Cap THEN count ELSE Cap

LEMMA ListAssumed ==
  Cap \in Nat \ {0} /\ Passes \in Nat \ {0} /\ Polls \in Nat \ {0} /\ MaxSent \in Nat
  BY TransportsAssumption DEF List!EnumerateAssumption

LEMMA ListSteps == [TransportsNext]_allVars => [List!Next]_(List!vars)
  BY DEF TransportsNext, IdsMove, DiagMoves, GatherMoves, QmuxMoves, QrtrMoves,
         ListMoves, ProbeMoves, VendorMoves, allVars, listVars, List!vars

LEMMA ListInitially == List!Init => ListInv
<1> SUFFICES ASSUME List!Init PROVE ListInv
  OBVIOUS
<1>1. listInbox \in Seq(List!Announcement) /\ out \in Seq(Services)
  BY EmptySeq DEF List!Init
<1>2. Len(out) = 0 /\ List!ToSet(out) = {}
  BY DEF List!Init, List!ToSet
<1> QED
  BY <1>1, <1>2, ListAssumed
  DEF List!Init, ListInv, List!TypeOK, ListsWhatWasHeard, List!ListsWhatWasHeard

(* An announcement is of a service, or none.                               *)
LEMMA Announced ==
  ASSUME NEW d \in List!Announcement, d.what = "server" PROVE d.s \in Services
  BY DEF List!Announcement, List!End, List!Other

(* Storing a service that the array does not have keeps the invariant.     *)
LEMMA Stores ==
  ASSUME ListInv, NEW s \in Services, ~List!Stored(s), List!Store(s),
         heard' = heard \cup {s}
  PROVE  /\ out' \in Seq(Services) /\ count' \in Nat
         /\ Len(out') = IF count' < Cap THEN count' ELSE Cap
         /\ ListsWhatWasHeard'
<1>1. out \in Seq(Services) /\ Len(out) \in Nat /\ count \in Nat
  BY LenProperties DEF ListInv, List!TypeOK
<1> USE ListAssumed
<1>2. CASE count < Cap
  <2>1. out' = Append(out, s) /\ count' = count + 1 /\ Len(out) = count
    BY <1>2 DEF List!Store, ListInv
  <2>2. out' \in Seq(Services) /\ Len(out') = Len(out) + 1
    BY <1>1, <2>1, AppendProperties
  <2>3. \A j \in 1 .. Len(out') : out'[j] = IF j = Len(out) + 1 THEN s ELSE out[j]
    BY <1>1, <2>1, <2>2
  <2>4. DOMAIN out' = 1 .. Len(out) + 1 /\ DOMAIN out = 1 .. Len(out)
    BY <1>1, <2>2, LenProperties
  <2>5. List!ToSet(out') = List!ToSet(out) \cup {s}
    BY <1>1, <2>2, <2>3, <2>4 DEF List!ToSet
  <2>6. \A j \in 1 .. Len(out) : out[j] # s
    BY <2>4 DEF List!Stored, List!ToSet
  <2>7. \A j, k \in 1 .. Len(out') : out'[j] = out'[k] => j = k
    BY <1>1, <2>2, <2>3, <2>6 DEF ListInv, ListsWhatWasHeard, List!ListsWhatWasHeard
  <2>8. List!ToSet(out) = heard /\ count = Len(out)
    BY <1>1, <1>2, <2>1 DEF ListInv, ListsWhatWasHeard, List!ListsWhatWasHeard
  <2> QED
    BY <1>1, <1>2, <2>1, <2>2, <2>5, <2>7, <2>8 DEF ListsWhatWasHeard, List!ListsWhatWasHeard
<1>3. CASE ~(count < Cap)
  <2>1. out' = out /\ count' = count + 1 /\ Len(out) = Cap
    BY <1>3 DEF List!Store, ListInv
  <2> QED
    BY <1>1, <1>3, <2>1 DEF ListInv, ListsWhatWasHeard, List!ListsWhatWasHeard, List!ToSet
<1> QED
  BY <1>2, <1>3

LEMMA ListInductive == ListInv /\ [List!Next]_(List!vars) => ListInv'
<1> SUFFICES ASSUME ListInv, [List!Next]_(List!vars) PROVE ListInv'
  OBVIOUS
<1> DEFINE Waits == listInbox \in Seq(List!Announcement)
           Array == /\ out \in Seq(Services) /\ count \in Nat /\ heard \subseteq Services
                    /\ Len(out) = IF count < Cap THEN count ELSE Cap
                    /\ ListsWhatWasHeard
           Others2 == /\ announced \in 0 .. MaxSent
                      /\ pass \in 0 .. Passes /\ polls \in 0 .. Polls /\ shown \in Nat
                      /\ listPc \in {"idle", "drain", "pass", "failed"}
<1>1. Waits /\ Array /\ Others2
  BY DEF ListInv, List!TypeOK
<1>2. Waits' /\ Array' /\ Others2' => ListInv'
  BY ListAssumed DEF ListInv, List!TypeOK
<1>3. UNCHANGED <<out, count, heard>> => Array'
  BY <1>1 DEF ListsWhatWasHeard, List!ListsWhatWasHeard, List!ToSet
<1> HIDE DEF Waits, Array
<1>4. CASE List!Lookup
  <2>1. Waits'
    BY <1>1, <1>4 DEF List!Lookup, Waits
  <2> QED
    BY <1>1, <1>2, <1>3, <1>4, <2>1, ListAssumed DEF List!Lookup
<1>5. CASE List!DrainPoll
  <2>1. Waits'
    BY <1>1, <1>5 DEF List!DrainPoll, Waits
  <2> QED
    BY <1>1, <1>2, <1>3, <1>5, <2>1, ListAssumed DEF List!DrainPoll
<1>6. CASE List!DrainRead
  <2> DEFINE d == Head(listInbox)
  <2>1. listInbox' = Tail(listInbox) /\ listInbox # <<>>
    BY <1>6 DEF List!DrainRead
  <2>2. Waits' /\ d \in List!Announcement
    BY <1>1, <2>1, HeadTailProperties DEF Waits
  <2>3. heard' = heard \cup (IF d.what = "server" THEN {d.s} ELSE {})
    BY <1>6 DEF List!DrainRead
  <2>4. IF d.what = "server" /\ ~List!Stored(d.s) THEN List!Store(d.s)
        ELSE UNCHANGED <<out, count>>
    BY <1>6 DEF List!DrainRead
  <2>5. Others2'
    BY <1>1, <1>6, ListAssumed DEF List!DrainRead
  <2> HIDE DEF d
  <2>6. CASE d.what = "server" /\ ~List!Stored(d.s)
    <3>1. d.s \in Services
      BY <2>2, <2>6, Announced
    <3>2. heard' = heard \cup {d.s} /\ List!Store(d.s)
      BY <2>3, <2>4, <2>6
    <3>3. heard' \subseteq Services
      BY <1>1, <3>1, <3>2 DEF Array
    <3>4. Array'
      BY <2>6, <3>1, <3>2, <3>3, Stores DEF Array
    <3> QED
      BY <1>2, <2>2, <2>5, <3>4
  <2>7. CASE d.what = "server" /\ List!Stored(d.s)
    <3>1. UNCHANGED <<out, count>> /\ heard' = heard \cup {d.s}
      BY <2>3, <2>4, <2>7
    <3>2. d.s \in heard
      BY <1>1, <2>7 DEF Array, List!Stored, ListsWhatWasHeard, List!ListsWhatWasHeard
    <3>3. heard' = heard
      BY <3>1, <3>2
    <3> QED
      BY <1>2, <1>3, <2>2, <2>5, <3>1, <3>3
  <2>8. CASE d.what # "server"
    BY <1>2, <1>3, <2>2, <2>3, <2>4, <2>5, <2>8
  <2> QED
    BY <2>6, <2>7, <2>8
<1>7. CASE List!DrainEnds
  <2>1. Waits'
    BY <1>1, <1>7 DEF List!DrainEnds, Waits
  <2> QED
    BY <1>1, <1>2, <1>3, <1>7, <2>1 DEF List!DrainEnds
<1>8. CASE List!DrainFails
  <2>1. Waits'
    BY <1>1, <1>8 DEF List!DrainFails, Waits
  <2> QED
    BY <1>1, <1>2, <1>3, <1>8, <2>1 DEF List!DrainFails
<1>9. CASE List!Show
  <2>1. Waits'
    BY <1>1, <1>9 DEF List!Show, Waits
  <2>2. count \in Nat
    BY <1>1 DEF Array
  <2> QED
    BY <1>1, <1>2, <1>3, <1>9, <2>1, <2>2 DEF List!Show
<1>10. CASE List!Announce
  <2>1. PICK d \in List!Announcement : listInbox' = Append(listInbox, d)
    BY <1>10 DEF List!Announce
  <2>2. Waits'
    BY <1>1, <2>1, AppendProperties DEF Waits
  <2> QED
    BY <1>1, <1>2, <1>3, <1>10, <2>2, ListAssumed DEF List!Announce
<1>11. CASE UNCHANGED List!vars
  BY <1>1, <1>2, <1>3, <1>11 DEF List!vars, Waits
<1> QED
  BY <1>4, <1>5, <1>6, <1>7, <1>8, <1>9, <1>10, <1>11 DEF List!Next, List!CallStep

LEMMA ListInvariant == TransportsSpec => []ListInv
<1>1. TransportsInit => List!Init
  BY DEF TransportsInit
<1> QED
  BY <1>1, ListSteps, ListInitially, ListInductive, PTL DEF TransportsSpec

(* Until the array is full, the listing has what was heard, each service   *)
(* once, for every number of services, passes, polls and entries.          *)
THEOREM ListsWhatWasHeardTheorem == TransportsSpec => []ListsWhatWasHeard
<1>1. ListInv => ListsWhatWasHeard
  BY DEF ListInv
<1> QED
  BY <1>1, ListInvariant, PTL

-----------------------------------------------------------------------------
(* The helper process.  The lines of its verdict, and what the caller has  *)
(* of them: nothing, MAIN OK, or both lines.                               *)
OkLine   == [what |-> "MAIN OK", bits |-> {}]
MaskLine == [what |-> "MASK", bits |-> Vendor!Mask]

NothingSaid == pipe = <<>> /\ main_ok = FALSE /\ mask = {}

OkSaid ==
  \/ pipe = <<OkLine>> /\ main_ok = FALSE /\ mask = {}
  \/ pipe = <<>> /\ main_ok = TRUE /\ mask = {}

MaskSaid ==
  \/ pipe = <<OkLine, MaskLine>> /\ main_ok = FALSE /\ mask = {}
  \/ pipe = <<MaskLine>> /\ main_ok = TRUE /\ mask = {}
  \/ pipe = <<>> /\ main_ok = TRUE /\ mask = Vendor!Mask

(* While the caller reads, where the helper is tells what it has said.     *)
Saying ==
  IF helper # "whole" THEN child = "ended" /\ NothingSaid
  ELSE /\ child # "none"
       /\ child = "load" => NothingSaid
       /\ child = "ok" => todo = {} /\ OkSaid
       /\ child \in {"mask", "ended"} => todo = {} /\ MaskSaid
       /\ child = "crashed" => NothingSaid \/ (todo = {} /\ (OkSaid \/ MaskSaid))

VendorTypes ==
  /\ probes \in 0 .. MaxProbes
  /\ vendorPc \in {"idle", "copy", "exec", "read"} /\ helper \in {"none", "torn", "whole"}
  /\ child \in {"none", "load", "ok", "mask", "ended", "crashed"}
  /\ main_ok \in BOOLEAN /\ mask \subseteq Vendor!MaskBits

VendorInv ==
  /\ exports \in [Libs -> SUBSET Exportable]
  /\ VendorTypes
  /\ todo \subseteq Libs /\ loaded \subseteq Libs /\ todo \cap loaded = {}
  /\ vendorRc \in [loaded : BOOLEAN, mask : SUBSET Vendor!MaskBits]
  /\ Len(pipe) <= 2
  /\ vendorPc = "read" => Saying
  /\ vendorPc # "read" => child \in {"none", "ended", "crashed"}
  /\ VerdictIsOfThisRun

LEMMA VendorSteps == [TransportsNext]_allVars => [Vendor!Next]_(Vendor!vars)
  BY DEF TransportsNext, IdsMove, DiagMoves, GatherMoves, QmuxMoves, QrtrMoves,
         ListMoves, ProbeMoves, VendorMoves, allVars, vendorVars, Vendor!vars

(* The lines are two, and are read in the order in which they are said.    *)
LEMMA Lines ==
  ASSUME NEW a, NEW b, a # b
  PROVE  /\ <<a>> # <<>> /\ <<b>> # <<>> /\ <<a, b>> # <<>>
         /\ <<a>> # <<a, b>> /\ <<b>> # <<a>> /\ <<b>> # <<a, b>>
         /\ Head(<<a>>) = a /\ Tail(<<a>>) = <<>>
         /\ Head(<<b>>) = b /\ Tail(<<b>>) = <<>>
         /\ Head(<<a, b>>) = a /\ Tail(<<a, b>>) = <<b>>
         /\ Append(<<>>, a) = <<a>> /\ Append(<<>>, b) = <<b>>
         /\ Append(<<a>>, b) = <<a, b>>
<1>1. Len(<<a>>) = 1 /\ Len(<<b>>) = 1 /\ Len(<<a, b>>) = 2 /\ Len(<<>>) = 0
  OBVIOUS
<1>2. Head(<<a>>) = a /\ Head(<<b>>) = b /\ Head(<<a, b>>) = a
  OBVIOUS
<1>3. Tail(<<a>>) = <<>> /\ Tail(<<b>>) = <<>> /\ Tail(<<a, b>>) = <<b>>
  OBVIOUS
<1>4. Append(<<>>, a) = <<a>> /\ Append(<<>>, b) = <<b>>
  OBVIOUS
<1>5. Append(<<a>>, b) = <<a, b>>
  <2>1. \A k \in 1 .. 2 : Append(<<a>>, b)[k] = <<a, b>>[k]
    OBVIOUS
  <2>2. Append(<<a>>, b) \in Seq({a, b}) /\ Len(Append(<<a>>, b)) = 2
    OBVIOUS
  <2>3. <<a, b>> \in Seq({a, b})
    OBVIOUS
  <2> QED
    BY <1>1, <2>1, <2>2, <2>3, SeqEqual
<1> QED
  BY <1>1, <1>2, <1>3, <1>4, <1>5

LEMMA TwoLines ==
  /\ OkLine # MaskLine /\ OkLine.what = "MAIN OK" /\ MaskLine.what = "MASK"
  /\ MaskLine.bits = Vendor!Mask
  BY DEF OkLine, MaskLine

LEMMA Said ==
  /\ <<OkLine>> # <<>> /\ <<MaskLine>> # <<>> /\ <<OkLine, MaskLine>> # <<>>
  /\ <<OkLine>> # <<OkLine, MaskLine>> /\ <<MaskLine>> # <<OkLine>>
  /\ <<MaskLine>> # <<OkLine, MaskLine>>
  /\ Head(<<OkLine>>) = OkLine /\ Tail(<<OkLine>>) = <<>>
  /\ Head(<<MaskLine>>) = MaskLine /\ Tail(<<MaskLine>>) = <<>>
  /\ Head(<<OkLine, MaskLine>>) = OkLine /\ Tail(<<OkLine, MaskLine>>) = <<MaskLine>>
  /\ Append(<<>>, OkLine) = <<OkLine>> /\ Append(<<>>, MaskLine) = <<MaskLine>>
  /\ Append(<<OkLine>>, MaskLine) = <<OkLine, MaskLine>>
<1> DEFINE a == OkLine
           b == MaskLine
<1>1. a # b
  BY TwoLines
<1> HIDE DEF a, b
<1>2. /\ <<a>> # <<>> /\ <<b>> # <<>> /\ <<a, b>> # <<>>
      /\ <<a>> # <<a, b>> /\ <<b>> # <<a>> /\ <<b>> # <<a, b>>
      /\ Head(<<a>>) = a /\ Tail(<<a>>) = <<>>
      /\ Head(<<b>>) = b /\ Tail(<<b>>) = <<>>
      /\ Head(<<a, b>>) = a /\ Tail(<<a, b>>) = <<b>>
      /\ Append(<<>>, a) = <<a>> /\ Append(<<>>, b) = <<b>>
      /\ Append(<<a>>, b) = <<a, b>>
  BY <1>1, Lines, Zenon
<1> QED
  BY <1>2 DEF a, b

LEMMA VendorInitially == Vendor!Init => VendorInv
<1> SUFFICES ASSUME Vendor!Init PROVE VendorInv
  OBVIOUS
<1> USE DEF Vendor!Init
<1>1. 0 \in 0 .. MaxProbes
  BY TransportsAssumption DEF Vendor!VendorAssumption
<1>2. VendorTypes
  BY <1>1 DEF VendorTypes
<1>3. vendorRc \in [loaded : BOOLEAN, mask : SUBSET Vendor!MaskBits]
  BY DEF Vendor!NoResult
<1>4. VerdictIsOfThisRun
  BY DEF VerdictIsOfThisRun, Vendor!VerdictIsOfThisRun, Vendor!Returned
<1>5. Len(pipe) <= 2
  OBVIOUS
<1> QED
  BY <1>2, <1>3, <1>4, <1>5 DEF VendorInv

(* At the end of the output, the verdict is the one of this helper.        *)
LEMMA VerdictAtEnd ==
  ASSUME VendorInv, Vendor!ReadEnd PROVE VerdictIsOfThisRun'
<1>1. Saying /\ pipe = <<>> /\ child \in {"ended", "crashed"}
  BY DEF VendorInv, Vendor!ReadEnd, Vendor!Gone
<1>2. UNCHANGED <<exports, helper, child, todo, loaded>>
  BY DEF Vendor!ReadEnd
<1>3. vendorRc' = IF main_ok THEN [loaded |-> TRUE, mask |-> mask]
                  ELSE [loaded |-> FALSE, mask |-> {}]
  BY DEF Vendor!ReadEnd, Vendor!NoResult
<1>4. pipe # <<OkLine>> /\ pipe # <<OkLine, MaskLine>> /\ pipe # <<MaskLine>>
  BY <1>1
<1>5. main_ok => helper = "whole" /\ todo = {}
  BY <1>1 DEF Saying, NothingSaid
<1>6. child = "ended" /\ helper = "whole" => main_ok /\ mask = Vendor!Mask
  BY <1>1, <1>4 DEF Saying, MaskSaid
<1>7. vendorRc'.loaded <=> main_ok
  BY <1>3
<1>8. main_ok => vendorRc'.mask = mask
  BY <1>3
<1>9. {Vendor!Scanned[b + 1] : b \in Vendor!Mask}
        = Vendor!Resolved \cap {Vendor!Scanned[b + 1] : b \in Vendor!MaskBits}
  BY DEF Vendor!Mask
<1>10. Vendor!Resolved' = Vendor!Resolved
  BY <1>2 DEF Vendor!Resolved
<1>11. vendorRc'.loaded => helper' = "whole" /\ todo' = {}
  BY <1>2, <1>5, <1>7
<1>12. child' = "ended" /\ helper' = "whole" =>
         vendorRc'.loaded /\ {Vendor!Scanned[b + 1] : b \in vendorRc'.mask}
            = Vendor!Resolved' \cap {Vendor!Scanned[b + 1] : b \in Vendor!MaskBits}
  BY <1>2, <1>6, <1>7, <1>8, <1>9, <1>10
<1> QED
  BY <1>11, <1>12 DEF VerdictIsOfThisRun, Vendor!VerdictIsOfThisRun

LEMMA VendorInductive == VendorInv /\ [Vendor!Next]_(Vendor!vars) => VendorInv'
<1> SUFFICES ASSUME VendorInv, [Vendor!Next]_(Vendor!vars) PROVE VendorInv'
  OBVIOUS
<1>1. MaxProbes \in Nat
  BY TransportsAssumption DEF Vendor!VendorAssumption
<1> DEFINE Results == [loaded : BOOLEAN, mask : SUBSET Vendor!MaskBits]
           Trying  == todo \subseteq Libs /\ loaded \subseteq Libs /\ todo \cap loaded = {}
           Exports == exports \in [Libs -> SUBSET Exportable]
<1>2. /\ Exports /\ VendorTypes /\ Trying /\ vendorRc \in Results
      /\ Len(pipe) <= 2 /\ VerdictIsOfThisRun
      /\ vendorPc = "read" => Saying
      /\ vendorPc # "read" => child \in {"none", "ended", "crashed"}
  BY DEF VendorInv
<1>3. ASSUME Exports', VendorTypes', Trying', vendorRc' \in Results, Len(pipe') <= 2,
             VerdictIsOfThisRun', vendorPc' = "read" => Saying',
             vendorPc' # "read" => child' \in {"none", "ended", "crashed"}
      PROVE  VendorInv'
  BY <1>3 DEF VendorInv
<1>4. Vendor!NoResult \in Results
  BY DEF Vendor!NoResult
<1>5. vendorPc' # "idle" => VerdictIsOfThisRun'
  BY DEF VerdictIsOfThisRun, Vendor!VerdictIsOfThisRun, Vendor!Returned
<1>6. child' = "none" => VerdictIsOfThisRun'
  BY DEF VerdictIsOfThisRun, Vendor!VerdictIsOfThisRun, Vendor!Returned
<1>7. UNCHANGED <<todo, loaded>> => Trying'
  BY <1>2
<1>8. UNCHANGED exports => Exports'
  BY <1>2
<1>9. Len(<<>>) <= 2 /\ Len(<<OkLine>>) <= 2 /\ Len(<<OkLine, MaskLine>>) <= 2
      /\ Len(<<MaskLine>>) <= 2
  OBVIOUS
<1>10. Vendor!Mask \subseteq Vendor!MaskBits
  BY DEF Vendor!Mask
<1> HIDE DEF Results, Trying, Exports
<1>11. CASE Vendor!Probe
  <2>1. VendorTypes'
    BY <1>1, <1>2, <1>11 DEF Vendor!Probe, VendorTypes
  <2> QED
    BY <1>2, <1>3, <1>5, <1>7, <1>8, <1>11, <2>1 DEF Vendor!Probe
<1>12. CASE Vendor!CopyFails
  <2>1. VendorTypes'
    BY <1>2, <1>12 DEF Vendor!CopyFails, VendorTypes
  <2> QED
    BY <1>2, <1>3, <1>4, <1>6, <1>7, <1>8, <1>12, <2>1 DEF Vendor!CopyFails
<1>13. CASE Vendor!Copy
  <2>1. VendorTypes'
    BY <1>2, <1>13 DEF Vendor!Copy, VendorTypes
  <2> QED
    BY <1>2, <1>3, <1>5, <1>7, <1>8, <1>13, <2>1 DEF Vendor!Copy
<1>14. CASE Vendor!ExecFails
  <2>1. VendorTypes'
    BY <1>2, <1>14 DEF Vendor!ExecFails, VendorTypes
  <2> QED
    BY <1>2, <1>3, <1>4, <1>6, <1>7, <1>8, <1>14, <2>1 DEF Vendor!ExecFails
<1>15. CASE Vendor!Exec
  <2>1. VendorTypes'
    BY <1>2, <1>15 DEF Vendor!Exec, Vendor!Forget, VendorTypes
  <2>2. Trying'
    BY <1>15 DEF Vendor!Exec, Trying
  <2>3. NothingSaid'
    BY <1>15 DEF Vendor!Exec, Vendor!Forget, NothingSaid
  <2>4. helper' = helper /\ child' = IF helper = "whole" THEN "load" ELSE "ended"
    BY <1>15 DEF Vendor!Exec
  <2>5. Saying'
    BY <2>3, <2>4 DEF Saying
  <2> QED
    BY <1>2, <1>3, <1>5, <1>8, <1>9, <1>15, <2>1, <2>2, <2>5 DEF Vendor!Exec
<1>16. CASE Vendor!ReadLine
  <2>1. Saying /\ pipe # <<>>
    BY <1>2, <1>16 DEF Vendor!ReadLine
  <2>2. UNCHANGED <<exports, probes, vendorPc, helper, child, todo, loaded, vendorRc>>
    BY <1>16 DEF Vendor!ReadLine
  <2>3. vendorPc' = "read"
    BY <1>16 DEF Vendor!ReadLine
  <2>4. Vendor!Mask' = Vendor!Mask /\ MaskLine' = MaskLine
    BY <2>2 DEF Vendor!Mask, Vendor!Resolved, MaskLine
  <2>10. pipe' = Tail(pipe) /\ IF Head(pipe).what = "MAIN OK"
                               THEN main_ok' = TRUE /\ mask' = mask
                               ELSE mask' = Head(pipe).bits /\ main_ok' = main_ok
    BY <1>16 DEF Vendor!ReadLine
  <2>11. ~NothingSaid /\ child \in {"none", "load", "ok", "mask", "ended", "crashed"}
    BY <1>2, <2>1 DEF NothingSaid, VendorTypes
  <2>12. helper = "whole" /\ todo = {} /\ (OkSaid \/ MaskSaid)
    BY <2>1, <2>11 DEF Saying
  <2>5. CASE pipe = <<OkLine>>
    <3>1. pipe' = <<>> /\ main_ok' /\ mask' = mask /\ main_ok' \in BOOLEAN
      BY <2>5, <2>10, Said, TwoLines
    <3>2. ~main_ok /\ mask = {} /\ ~NothingSaid /\ ~MaskSaid
      BY <2>11, <2>12, <2>5, Said DEF OkSaid, MaskSaid
    <3>3. OkSaid'
      BY <3>1, <3>2 DEF OkSaid
    <3>4. Saying'
      BY <2>1, <2>2, <3>2, <3>3 DEF Saying
    <3>5. VendorTypes'
      BY <1>2, <2>2, <3>1 DEF VendorTypes
    <3> QED
      BY <1>2, <1>3, <1>5, <1>7, <1>8, <1>9, <2>2, <2>3, <3>1, <3>4, <3>5
  <2>6. CASE pipe = <<OkLine, MaskLine>>
    <3>1. pipe' = <<MaskLine>> /\ main_ok' /\ mask' = mask /\ main_ok' \in BOOLEAN
      BY <2>6, <2>10, Said, TwoLines
    <3>2. ~main_ok /\ mask = {} /\ ~NothingSaid /\ ~OkSaid
      BY <2>11, <2>12, <2>6, Said DEF OkSaid, MaskSaid
    <3>3. MaskSaid'
      BY <2>4, <3>1, <3>2 DEF MaskSaid
    <3>4. Saying'
      BY <2>1, <2>2, <3>2, <3>3 DEF Saying
    <3>5. VendorTypes'
      BY <1>2, <2>2, <3>1 DEF VendorTypes
    <3> QED
      BY <1>2, <1>3, <1>5, <1>7, <1>8, <1>9, <2>2, <2>3, <3>1, <3>4, <3>5
  <2>7. CASE pipe = <<MaskLine>>
    <3>1. pipe' = <<>> /\ mask' = Vendor!Mask /\ main_ok' = main_ok
      BY <2>7, <2>10, Said, TwoLines
    <3>3. main_ok /\ ~NothingSaid /\ ~OkSaid
      BY <2>11, <2>12, <2>7, Said DEF OkSaid, MaskSaid
    <3>4. MaskSaid'
      BY <2>4, <3>1, <3>3 DEF MaskSaid
    <3>5. Saying'
      BY <2>1, <2>2, <3>3, <3>4 DEF Saying
    <3>6. VendorTypes'
      BY <1>2, <1>10, <2>2, <3>1 DEF VendorTypes
    <3> QED
      BY <1>2, <1>3, <1>5, <1>7, <1>8, <1>9, <2>2, <2>3, <3>1, <3>5, <3>6
  <2> QED
    BY <2>1, <2>5, <2>6, <2>7, <2>12 DEF OkSaid, MaskSaid
<1>17. CASE Vendor!ReadEnd
  <2>1. VerdictIsOfThisRun'
    BY <1>17, VerdictAtEnd
  <2>2. vendorRc' = IF main_ok THEN [loaded |-> TRUE, mask |-> mask] ELSE Vendor!NoResult
    BY <1>17 DEF Vendor!ReadEnd
  <2>3. mask \subseteq Vendor!MaskBits
    BY <1>2 DEF VendorTypes
  <2>4. [loaded |-> TRUE, mask |-> mask] \in Results
    BY <2>3 DEF Results
  <2>5. vendorRc' \in Results
    BY <1>4, <2>2, <2>4
  <2>6. VendorTypes'
    BY <1>2, <1>17 DEF Vendor!ReadEnd, VendorTypes
  <2> QED
    BY <1>2, <1>3, <1>7, <1>8, <1>17, <2>1, <2>5, <2>6 DEF Vendor!ReadEnd, Vendor!Gone
<1>18. CASE Vendor!ChildLoads
  <2>1. child = "load" /\ UNCHANGED <<exports, probes, vendorPc, helper, main_ok, mask, vendorRc>>
        /\ UNCHANGED <<child, pipe>>
    BY <1>18 DEF Vendor!ChildLoads, Vendor!caller
  <2>2. vendorPc = "read" /\ Saying
    BY <1>2, <2>1
  <2>3. helper = "whole" /\ NothingSaid
    BY <2>1, <2>2 DEF Saying
  <2>4. Trying'
    BY <1>2, <1>18 DEF Vendor!ChildLoads, Trying
  <2>5. NothingSaid'
    BY <2>1, <2>3 DEF NothingSaid
  <2>6. Saying'
    BY <2>1, <2>3, <2>5 DEF Saying
  <2>7. VendorTypes'
    BY <1>2, <2>1 DEF VendorTypes
  <2> QED
    BY <1>2, <1>3, <1>5, <1>8, <2>1, <2>2, <2>4, <2>6, <2>7
<1>19. CASE Vendor!ChildPrintsOk
  <2>1. child = "load" /\ UNCHANGED <<exports, probes, vendorPc, helper, main_ok, mask, vendorRc>>
        /\ UNCHANGED <<todo, loaded>> /\ child' = "ok" /\ todo = {}
    BY <1>19 DEF Vendor!ChildPrintsOk, Vendor!caller
  <2>2. vendorPc = "read" /\ Saying
    BY <1>2, <2>1
  <2>3. helper = "whole" /\ NothingSaid
    BY <2>1, <2>2 DEF Saying
  <2>8. pipe' = Append(<<>>, OkLine)
    BY <1>19, <2>3 DEF Vendor!ChildPrintsOk, NothingSaid, OkLine
  <2>4. pipe' = <<OkLine>>
    BY <2>8, Said, TwoLines
  <2>5. OkSaid'
    BY <2>1, <2>3, <2>4 DEF NothingSaid, OkSaid, OkLine
  <2>6. Saying'
    BY <2>1, <2>3, <2>5 DEF Saying
  <2>7. VendorTypes'
    BY <1>2, <2>1 DEF VendorTypes
  <2> QED
    BY <1>2, <1>3, <1>5, <1>7, <1>8, <1>9, <2>1, <2>2, <2>4, <2>6, <2>7
<1>20. CASE Vendor!ChildPrintsMask
  <2>1. child = "ok" /\ UNCHANGED <<exports, probes, vendorPc, helper, main_ok, mask, vendorRc>>
        /\ UNCHANGED <<todo, loaded>> /\ child' = "mask"
    BY <1>20 DEF Vendor!ChildPrintsMask, Vendor!caller
  <2>2. vendorPc = "read" /\ Saying
    BY <1>2, <2>1
  <2>3. helper = "whole" /\ OkSaid /\ todo = {}
    BY <2>1, <2>2 DEF Saying
  <2>4. pipe' = Append(pipe, MaskLine)
    BY <1>20 DEF Vendor!ChildPrintsMask, MaskLine
  <2>5. Vendor!Mask' = Vendor!Mask /\ MaskLine' = MaskLine
    BY <2>1 DEF Vendor!Mask, Vendor!Resolved, MaskLine
  <2>6. Append(<<>>, MaskLine) = <<MaskLine>> /\ Append(<<OkLine>>, MaskLine) = <<OkLine, MaskLine>>
    BY Said, TwoLines
  <2>7. OkLine' = OkLine
    BY DEF OkLine
  <2>8. MaskSaid' /\ (pipe' = <<MaskLine>> \/ pipe' = <<OkLine, MaskLine>>)
    BY <2>1, <2>3, <2>4, <2>5, <2>6, <2>7 DEF OkSaid, MaskSaid
  <2>9. Saying'
    BY <2>1, <2>3, <2>8 DEF Saying
  <2>10. VendorTypes'
    BY <1>2, <2>1 DEF VendorTypes
  <2> QED
    BY <1>2, <1>3, <1>5, <1>7, <1>8, <1>9, <2>1, <2>2, <2>8, <2>9, <2>10
<1>21. CASE Vendor!ChildEnds \/ Vendor!ChildCrashes
  <2>1. /\ UNCHANGED <<exports, probes, vendorPc, helper, main_ok, mask, vendorRc>>
        /\ UNCHANGED <<todo, loaded, pipe>>
        /\ child \in {"load", "ok", "mask"} /\ child' \in {"ended", "crashed"}
        /\ child' = "ended" => child = "mask"
    BY <1>21 DEF Vendor!ChildEnds, Vendor!ChildCrashes, Vendor!caller
  <2>2. vendorPc = "read" /\ Saying
    BY <1>2, <2>1
  <2>3. helper = "whole"
    BY <2>1, <2>2 DEF Saying
  <2>4. MaskLine' = MaskLine /\ Vendor!Mask' = Vendor!Mask
    BY <2>1 DEF Vendor!Mask, Vendor!Resolved, MaskLine
  <2>5. (NothingSaid => NothingSaid') /\ (OkSaid => OkSaid') /\ (MaskSaid => MaskSaid')
    BY <2>1, <2>4 DEF NothingSaid, OkSaid, MaskSaid, OkLine
  <2>8. NothingSaid \/ (todo = {} /\ (OkSaid \/ MaskSaid))
    BY <2>1, <2>2, <2>3 DEF Saying
  <2>9. child' = "ended" => todo = {} /\ MaskSaid
    BY <2>1, <2>2, <2>3 DEF Saying
  <2>10. child' \in {"ended", "crashed"} /\ helper' = "whole"
    BY <2>1, <2>3
  <2>6. Saying'
    BY <2>1, <2>5, <2>8, <2>9, <2>10 DEF Saying
  <2>7. VendorTypes'
    BY <1>2, <2>1 DEF VendorTypes
  <2> QED
    BY <1>2, <1>3, <1>5, <1>7, <1>8, <2>1, <2>2, <2>6, <2>7
<1>22. CASE UNCHANGED Vendor!vars
  <2>1. UNCHANGED <<exports, probes, vendorPc, helper, child, todo, loaded, pipe, main_ok,
                    mask, vendorRc>>
    BY <1>22 DEF Vendor!vars
  <2>2. MaskLine' = MaskLine /\ Vendor!Mask' = Vendor!Mask /\ Vendor!Resolved' = Vendor!Resolved
    BY <2>1 DEF Vendor!Mask, Vendor!Resolved, MaskLine
  <2>3. NothingSaid' = NothingSaid /\ OkSaid' = OkSaid /\ MaskSaid' = MaskSaid
    BY <2>1, <2>2 DEF NothingSaid, OkSaid, MaskSaid, OkLine
  <2>4. Saying' = Saying
    BY <2>1, <2>3 DEF Saying
  <2>5. VerdictIsOfThisRun'
    BY <1>2, <2>1, <2>2 DEF VerdictIsOfThisRun, Vendor!VerdictIsOfThisRun, Vendor!Returned
  <2>6. VendorTypes'
    BY <1>2, <2>1 DEF VendorTypes
  <2> QED
    BY <1>2, <1>3, <1>7, <1>8, <2>1, <2>4, <2>5, <2>6
<1> QED
  BY <1>11, <1>12, <1>13, <1>14, <1>15, <1>16, <1>17, <1>18, <1>19, <1>20, <1>21, <1>22
  DEF Vendor!Next, Vendor!Caller, Vendor!Child

LEMMA VendorInvariant == TransportsSpec => []VendorInv
<1>1. TransportsInit => Vendor!Init
  BY DEF TransportsInit
<1> QED
  BY <1>1, VendorSteps, VendorInitially, VendorInductive, PTL DEF TransportsSpec

(* The verdict and the mask that a call returns come from the helper of    *)
(* this very call, for all libraries, whatever symbols they export and     *)
(* wherever in it the helper crashes.                                      *)
THEOREM VerdictIsOfThisRunTheorem == TransportsSpec => []VerdictIsOfThisRun
<1>1. VendorInv => VerdictIsOfThisRun
  BY DEF VendorInv
<1> QED
  BY <1>1, VendorInvariant, PTL

-----------------------------------------------------------------------------
(* The DIAG device.  A call that goes on reading has no frame at the start *)
(* of what it has read.                                                    *)
NoFrameIn(buf) == \A n \in 1 .. Len(buf) : ~Diag!IsFrame(SubSeq(buf, 1, n))

DiagInv ==
  /\ Diag!TypeOK
  /\ rx \in [Threads -> Seq(Diag!Piece)]
  /\ \A t \in Threads : waited[t] <= elapsed[t] + Len(rx[t])
  /\ \A t \in Threads : diagPc[t] = "read" => NoFrameIn(rx[t])

LEMMA DiagAssumed ==
  /\ Closed \notin Descriptors
  /\ Polls \in Nat \ {0} /\ RxCap \in Nat \ {0} /\ MaxCalls \in Nat /\ MaxLogs \in Nat
  BY TransportsAssumption DEF Diag!ChannelAssumption

LEMMA DiagSteps == [TransportsNext]_allVars => [Diag!Next]_(Diag!vars)
  BY DEF TransportsNext, IdsMove, DiagMoves, GatherMoves, QmuxMoves, QrtrMoves,
         ListMoves, ProbeMoves, VendorMoves, allVars, diagVars, Diag!vars, Diag!device,
         Diag!modem, Diag!call

LEMMA DiagStart == TransportsInit => Diag!Init
  BY DEF TransportsInit

(* What a read brings extends what the call had; and when no end of what   *)
(* it brought ends a frame, there is none.                                 *)
LEMMA ReadingOn ==
  ASSUME NEW s \in Seq(Diag!Piece), NEW b \in Seq(Diag!Piece), NoFrameIn(s),
         Diag!FirstFrame(s \o b, Len(s)) = 0
  PROVE  NoFrameIn(s \o b)
<1> DEFINE buf  == s \o b
           ends == {n \in Len(s) + 1 .. Len(buf) : Diag!IsFrame(SubSeq(buf, 1, n))}
<1>1. buf \in Seq(Diag!Piece) /\ Len(buf) = Len(s) + Len(b)
  BY ConcatProperties
<1>2. Len(s) \in Nat /\ Len(b) \in Nat
  BY LenProperties
<1>3. ends = {}
  <2> SUFFICES ASSUME NEW n \in ends PROVE FALSE
    OBVIOUS
  <2>1. n \in 1 .. Len(buf) /\ 1 \in 1 .. Len(buf)
    BY <1>1, <1>2
  <2>2. buf[1] \in Diag!Piece
    BY <1>1, <2>1, ElementOfSeq
  <2>3. buf[1].frame # 0
    BY <2>2, DiagAssumed DEF Diag!Piece, Diag!Frames
  <2>4. Diag!FirstFrame(buf, Len(s)) = IF ends = {} THEN 0 ELSE buf[1].frame
    BY DEF Diag!FirstFrame
  <2> HIDE DEF ends, buf
  <2>5. Diag!FirstFrame(buf, Len(s)) = 0
    BY DEF buf
  <2> QED
    BY <2>3, <2>4, <2>5
<1>4. ASSUME NEW n \in 1 .. Len(buf) PROVE ~Diag!IsFrame(SubSeq(buf, 1, n))
  <2>1. CASE n <= Len(s)
    <3>1. n \in 1 .. Len(s) /\ 1 \in 1 .. Len(s)
      BY <1>2, <2>1
    <3>2. SubSeq(buf, 1, n) = SubSeq(s, 1, n)
      BY <3>1, SubSeqOfConcat1
    <3> QED
      BY <3>1, <3>2 DEF NoFrameIn
  <2>2. CASE ~(n <= Len(s))
    <3>1. n \in Len(s) + 1 .. Len(buf)
      BY <1>1, <1>2, <2>2
    <3> QED
      BY <1>3, <3>1
  <2> QED
    BY <2>1, <2>2
<1> QED
  BY <1>4 DEF NoFrameIn

LEMMA FirstFrameType ==
  ASSUME NEW buf \in Seq(Diag!Piece), NEW from \in Nat
  PROVE  Diag!FirstFrame(buf, from) \in {0} \cup Diag!Frames
<1> DEFINE ends == {n \in from + 1 .. Len(buf) : Diag!IsFrame(SubSeq(buf, 1, n))}
<1>1. CASE ends = {}
  BY <1>1 DEF Diag!FirstFrame
<1>2. CASE ends # {}
  <2>1. PICK n \in ends : TRUE
    BY <1>2
  <2>2. Len(buf) \in Nat
    BY LenProperties
  <2>3. 1 \in 1 .. Len(buf)
    BY <2>1, <2>2
  <2>4. buf[1] \in Diag!Piece
    BY <2>3, ElementOfSeq
  <2>5. buf[1].frame \in Diag!Frames
    BY <2>4 DEF Diag!Piece
  <2> QED
    BY <1>2, <2>5 DEF Diag!FirstFrame
<1> QED
  BY <1>1, <1>2

(* What one read of n pieces takes and leaves.                             *)
LEMMA Taking ==
  ASSUME NEW S, NEW s \in Seq(S), NEW n \in 0 .. Len(s)
  PROVE  /\ SubSeq(s, 1, n) \in Seq(S) /\ Len(SubSeq(s, 1, n)) = n
         /\ SubSeq(s, n + 1, Len(s)) \in Seq(S)
<1>1. Len(s) \in Nat
  BY LenProperties
<1>2. \A k \in 1 .. n : s[k] \in S
  BY <1>1, ElementOfSeq
<1>3. \A k \in n + 1 .. Len(s) : s[k] \in S
  BY <1>1, ElementOfSeq
<1>4. SubSeq(s, 1, n) \in Seq(S) /\ Len(SubSeq(s, 1, n)) = IF 1 <= n THEN n - 1 + 1 ELSE 0
  BY <1>1, <1>2, SubSeqProperties
<1>5. SubSeq(s, n + 1, Len(s)) \in Seq(S)
  BY <1>1, <1>3, SubSeqProperties
<1> QED
  BY <1>1, <1>4, <1>5

(* What the modem sends are pieces.                                        *)
LEMMA EmitsType ==
  ASSUME stream \in Seq(Diag!Piece), NEW f \in Diag!Frames, Diag!Emits(f)
  PROVE  stream' \in Seq(Diag!Piece)
<1>1. PICK s \in {<<"whole">>, <<"head", "tail">>} :
        stream' = IF kernel = {} THEN <<>>
                  ELSE stream \o [n \in 1 .. Len(s) |-> [frame |-> f, part |-> s[n]]]
  BY DEF Diag!Emits
<1> DEFINE p == [n \in 1 .. Len(s) |-> [frame |-> f, part |-> s[n]]]
<1>2. Len(s) \in Nat /\ \A n \in 1 .. Len(s) : s[n] \in {"head", "tail", "whole"}
  BY <1>1
<1>3. \A n \in 1 .. Len(s) : [frame |-> f, part |-> s[n]] \in Diag!Piece
  BY <1>2 DEF Diag!Piece
<1>4. p \in Seq(Diag!Piece)
  BY <1>2, <1>3, IsASeq
<1> HIDE DEF p
<1>5. stream \o p \in Seq(Diag!Piece)
  BY <1>4, ConcatProperties
<1>6. <<>> \in Seq(Diag!Piece)
  BY EmptySeq
<1> QED
  BY <1>1, <1>5, <1>6 DEF p

LEMMA DiagInitially == Diag!Init => DiagInv
<1> SUFFICES ASSUME Diag!Init PROVE DiagInv
  OBVIOUS
<1> USE DEF Diag!Init
<1>1. <<>> \in Seq(Diag!Piece) /\ Len(<<>>) = 0
  BY EmptySeq
<1>2. rx \in [Threads -> Seq(Diag!Piece)] /\ \A t \in Threads : Len(rx[t]) = 0
  BY <1>1
<1>3. \A t \in Threads : NoFrameIn(rx[t])
  BY <1>2 DEF NoFrameIn
<1>4. stream \in Seq(Diag!Piece)
  BY <1>1
<1>5. 0 \in 0 .. MaxLogs /\ 0 \in 0 .. MaxCalls /\ 0 \in 0 .. Polls /\ 0 \in 0 .. Polls + RxCap
      /\ 0 <= RxCap
  BY DiagAssumed
<1>6. \A t \in Threads : waited[t] = 0 /\ elapsed[t] = 0
  OBVIOUS
<1>7. \A t \in Threads : waited[t] <= elapsed[t] + Len(rx[t])
  BY <1>2, <1>6
<1>8. diagPc \in [Threads -> {"idle", "switch", "forget", "read"}]
      /\ opened \in [Threads -> Descriptors \cup {Closed}]
  OBVIOUS
<1>9. request \in [Threads -> 0 .. MaxCalls] /\ elapsed \in [Threads -> 0 .. Polls]
      /\ waited \in [Threads -> 0 .. Polls + RxCap]
      /\ answer \in [Threads -> {0} \cup Diag!Frames]
  BY <1>5
<1> QED
  BY <1>2, <1>3, <1>4, <1>5, <1>7, <1>8, <1>9 DEF DiagInv, Diag!TypeOK

(* Time is charged to polls, and to reads that bring a piece.              *)
LEMMA Charging ==
  \A p, c, e, v, a, b, w \in Nat :
    e <= p /\ v <= e + a /\ b <= c /\ a + w <= b =>
      v + w \in 0 .. p + c /\ v + w <= e + b
  OBVIOUS

LEMMA DiagInductive == DiagInv /\ [Diag!Next]_(Diag!vars) => DiagInv'
<1> SUFFICES ASSUME DiagInv, [Diag!Next]_(Diag!vars) PROVE DiagInv'
  OBVIOUS
<1> DEFINE Waits == stream \in Seq(Diag!Piece)
           Bufs  == rx \in [Threads -> Seq(Diag!Piece)]
           Fits  == \A t \in Threads : Len(rx[t]) <= RxCap
           Times == /\ elapsed \in [Threads -> 0 .. Polls]
                    /\ waited \in [Threads -> 0 .. Polls + RxCap]
                    /\ \A t \in Threads : waited[t] <= elapsed[t] + Len(rx[t])
           Reads == \A t \in Threads : diagPc[t] = "read" => NoFrameIn(rx[t])
           Calls == /\ request \in [Threads -> 0 .. MaxCalls]
                    /\ answer \in [Threads -> {0} \cup Diag!Frames]
           Modem == diagPending \subseteq Diag!Requests /\ logs \in 0 .. MaxLogs
           Opens == /\ fd \in Descriptors \cup {Closed} /\ kernel \subseteq Descriptors
                    /\ capturing \in BOOLEAN
                    /\ diagPc \in [Threads -> {"idle", "switch", "forget", "read"}]
                    /\ opened \in [Threads -> Descriptors \cup {Closed}]
           Still == UNCHANGED <<request, rx, elapsed, waited, answer>>
<1>1. Waits /\ Bufs /\ Fits /\ Times /\ Reads /\ Calls /\ Modem /\ Opens
  BY DEF DiagInv, Diag!TypeOK
<1>2. Waits' /\ Bufs' /\ Fits' /\ Times' /\ Reads' /\ Calls' /\ Modem' /\ Opens' => DiagInv'
  BY DEF DiagInv, Diag!TypeOK
<1>3. UNCHANGED stream => Waits'
  BY <1>1
<1>4. Still => Bufs' /\ Fits' /\ Times' /\ Calls'
  BY <1>1
<1>5. UNCHANGED rx /\ (\A u \in Threads : diagPc'[u] = "read" => diagPc[u] = "read") => Reads'
  BY <1>1 DEF NoFrameIn
<1>6. UNCHANGED <<diagPending, logs>> => Modem'
  BY <1>1
<1>7. \A t \in Threads, l \in {"idle", "switch", "forget", "read"} :
        Diag!Goto(t, l) => /\ diagPc' \in [Threads -> {"idle", "switch", "forget", "read"}]
                           /\ diagPc'[t] = l
                           /\ \A u \in Threads : u # t => diagPc'[u] = diagPc[u]
  BY <1>1 DEF Diag!Goto
<1>8. <<>> \in Seq(Diag!Piece) /\ Len(<<>>) = 0
  BY EmptySeq
<1>9. \A t \in Threads : rx[t] \in Seq(Diag!Piece) /\ Len(rx[t]) \in Nat
  BY <1>1, LenProperties
<1>10. ASSUME NEW t \in Threads, NEW l \in {"idle", "switch", "forget"}, Diag!Goto(t, l), Still
       PROVE  /\ Bufs' /\ Fits' /\ Times' /\ Reads' /\ Calls'
              /\ diagPc' \in [Threads -> {"idle", "switch", "forget", "read"}]
  <2>1. \A u \in Threads : diagPc'[u] = "read" => diagPc[u] = "read"
    BY <1>7, <1>10
  <2> QED
    BY <1>4, <1>5, <1>7, <1>10, <2>1
<1>11. ASSUME Diag!Take PROVE Waits'
  <2>1. PICK n \in 1 .. Len(stream) : stream' = SubSeq(stream, n + 1, Len(stream))
    BY <1>11 DEF Diag!Take
  <2>2. n \in 0 .. Len(stream)
    BY <1>1, LenProperties
  <2> QED
    BY <1>1, <2>1, <2>2, Taking
<1> HIDE DEF Waits, Bufs, Fits, Times, Reads, Calls, Modem
<1> USE DEF Diag!device, Diag!modem, Diag!call
<1>12. ASSUME NEW t \in Threads, Diag!OpenCheck(t) PROVE DiagInv'
  <2>1. Opens'
    BY <1>1, <1>7, <1>12 DEF Diag!OpenCheck
  <2> QED
    BY <1>2, <1>3, <1>6, <1>10, <1>12, <2>1 DEF Diag!OpenCheck
<1>13. ASSUME NEW t \in Threads, Diag!OpenAssign(t) PROVE DiagInv'
  <2>1. Opens'
    BY <1>1, <1>7, <1>13 DEF Diag!OpenAssign
  <2> QED
    BY <1>2, <1>3, <1>6, <1>10, <1>13, <2>1 DEF Diag!OpenAssign
<1>14. ASSUME NEW t \in Threads, NEW d \in Descriptors \cup {Closed}, Diag!CloseInKernel(d)
       PROVE  Waits' /\ Modem' /\ kernel' \subseteq Descriptors
  <2>1. Waits'
    BY <1>1, <1>8, <1>14 DEF Diag!CloseInKernel, Waits
  <2> QED
    BY <1>1, <1>6, <1>14, <2>1 DEF Diag!CloseInKernel
<1>15. ASSUME NEW t \in Threads, Diag!OpenSwitchFails(t) PROVE DiagInv'
  <2>1. Waits' /\ Modem' /\ kernel' \subseteq Descriptors
    BY <1>1, <1>14, <1>15 DEF Diag!OpenSwitchFails
  <2>2. Opens'
    BY <1>1, <1>7, <1>15, <2>1 DEF Diag!OpenSwitchFails
  <2> QED
    BY <1>2, <1>10, <1>15, <2>1, <2>2 DEF Diag!OpenSwitchFails
<1>16. ASSUME NEW t \in Threads, Diag!CloseDescriptor(t) PROVE DiagInv'
  <2>1. Waits' /\ Modem' /\ kernel' \subseteq Descriptors
    BY <1>1, <1>14, <1>16 DEF Diag!CloseDescriptor
  <2>2. Opens'
    BY <1>1, <1>7, <1>16, <2>1 DEF Diag!CloseDescriptor
  <2> QED
    BY <1>2, <1>10, <1>16, <2>1, <2>2 DEF Diag!CloseDescriptor
<1>17. ASSUME NEW t \in Threads, Diag!CloseForget(t) PROVE DiagInv'
  <2>1. Opens'
    BY <1>1, <1>7, <1>17 DEF Diag!CloseForget
  <2> QED
    BY <1>2, <1>3, <1>6, <1>10, <1>17, <2>1 DEF Diag!CloseForget
<1>18. ASSUME NEW t \in Threads, Diag!SendWrite(t) PROVE DiagInv'
  <2>1. PICK r \in Diag!Requests : /\ request' = [request EXCEPT ![t] = r]
                                   /\ diagPending' = diagPending \cup {r}
    BY <1>18 DEF Diag!SendWrite
  <2>2. /\ rx' = [rx EXCEPT ![t] = <<>>] /\ elapsed' = [elapsed EXCEPT ![t] = 0]
        /\ waited' = [waited EXCEPT ![t] = 0] /\ answer' = [answer EXCEPT ![t] = 0]
        /\ Diag!Goto(t, "read") /\ UNCHANGED <<fd, kernel, stream, logs, capturing, opened>>
    BY <1>18 DEF Diag!SendWrite
  <2>3. Bufs' /\ \A u \in Threads : rx'[u] = IF u = t THEN <<>> ELSE rx[u]
    BY <1>1, <1>8, <2>2 DEF Bufs
  <2>4. Fits'
    BY <1>1, <1>8, <2>3, DiagAssumed DEF Fits
  <2>5. 0 \in 0 .. Polls /\ 0 \in 0 .. Polls + RxCap /\ 0 <= 0 + 0
    BY DiagAssumed
  <2>6. Times'
    BY <1>1, <1>8, <2>2, <2>3, <2>5 DEF Times
  <2>7. NoFrameIn(<<>>)
    BY <1>8 DEF NoFrameIn
  <2>8. \A u \in Threads : u # t => diagPc'[u] = diagPc[u]
    BY <1>7, <2>2
  <2>9. Reads'
    BY <1>1, <2>3, <2>7, <2>8 DEF Reads
  <2>10. Calls'
    BY <1>1, <2>1, <2>2 DEF Calls, Diag!Requests
  <2>11. Modem'
    BY <1>1, <2>1, <2>2 DEF Modem
  <2>12. Opens'
    BY <1>1, <1>7, <2>2
  <2> QED
    BY <1>2, <1>3, <2>2, <2>3, <2>4, <2>6, <2>9, <2>10, <2>11, <2>12
<1>19. ASSUME NEW t \in Threads, Diag!SendPoll(t) PROVE DiagInv'
  <2>1. /\ elapsed[t] < Polls
        /\ elapsed' = [elapsed EXCEPT ![t] = @ + 1] /\ waited' = [waited EXCEPT ![t] = @ + 1]
        /\ UNCHANGED <<fd, kernel, stream, diagPending, logs, capturing, diagPc, opened,
                       request, rx, answer>>
    BY <1>19 DEF Diag!SendPoll, Diag!MayRead
  <2>2. elapsed[t] \in 0 .. Polls /\ waited[t] \in 0 .. Polls + RxCap
        /\ waited[t] <= elapsed[t] + Len(rx[t]) /\ Len(rx[t]) <= RxCap /\ Len(rx[t]) \in Nat
    BY <1>1, <1>9 DEF Times, Fits
  <2>3. elapsed[t] + 1 \in 0 .. Polls /\ waited[t] + 1 \in 0 .. Polls + RxCap
        /\ waited[t] + 1 <= elapsed[t] + 1 + Len(rx[t])
    <3> DEFINE e == elapsed[t]
               v == waited[t]
               a == Len(rx[t])
    <3>1. e \in Nat /\ v \in Nat /\ a \in Nat /\ Polls \in Nat /\ RxCap \in Nat
          /\ v <= e + a /\ a <= RxCap /\ e < Polls
      BY <2>1, <2>2, DiagAssumed
    <3> HIDE DEF e, v, a
    <3>2. e + 1 \in 0 .. Polls /\ v + 1 \in 0 .. Polls + RxCap /\ v + 1 <= e + 1 + a
      BY <3>1
    <3> QED
      BY <3>2 DEF e, v, a
  <2>4. Times'
    BY <1>1, <2>1, <2>3 DEF Times
  <2>5. Bufs' /\ Fits' /\ Calls' /\ Modem'
    BY <1>1, <2>1 DEF Bufs, Fits, Calls, Modem
  <2> QED
    BY <1>1, <1>2, <1>3, <1>5, <2>1, <2>4, <2>5
<1>20. ASSUME NEW t \in Threads, Diag!SendRead(t) PROVE DiagInv'
  <2>1. PICK n \in 1 .. RxCap - Len(rx[t]), w \in {0, 1} :
          LET buf   == rx[t] \o SubSeq(stream, 1, n)
              found == Diag!FirstFrame(buf, Len(rx[t]))
          IN  /\ n <= Len(stream)
              /\ stream' = SubSeq(stream, n + 1, Len(stream))
              /\ rx' = [rx EXCEPT ![t] = buf]
              /\ waited' = [waited EXCEPT ![t] = @ + w]
              /\ answer' = [answer EXCEPT ![t] = found]
              /\ Diag!Goto(t, IF found = 0 THEN "read" ELSE "idle")
    BY <1>20 DEF Diag!SendRead
  <2> DEFINE got   == SubSeq(stream, 1, n)
             buf   == rx[t] \o got
             found == Diag!FirstFrame(buf, Len(rx[t]))
  <2>2. /\ n <= Len(stream) /\ stream' = SubSeq(stream, n + 1, Len(stream))
        /\ rx' = [rx EXCEPT ![t] = buf] /\ waited' = [waited EXCEPT ![t] = @ + w]
        /\ answer' = [answer EXCEPT ![t] = found]
        /\ Diag!Goto(t, IF found = 0 THEN "read" ELSE "idle")
    BY <2>1
  <2>3. /\ UNCHANGED <<fd, kernel, diagPending, logs, capturing, opened, request, elapsed>>
        /\ diagPc[t] = "read"
    BY <1>20 DEF Diag!SendRead
  <2>4. n \in Nat /\ n >= 1 /\ n <= RxCap - Len(rx[t]) /\ Len(rx[t]) \in Nat
    BY <1>9, <2>1, DiagAssumed
  <2>5. Len(stream) \in Nat
    BY <1>1, LenProperties DEF Waits
  <2>6. n \in 0 .. Len(stream)
    BY <2>2, <2>4, <2>5
  <2>7. got \in Seq(Diag!Piece) /\ Len(got) = n /\ stream' \in Seq(Diag!Piece)
    BY <1>1, <2>2, <2>6, Taking DEF Waits
  <2> HIDE DEF got
  <2>8. buf \in Seq(Diag!Piece) /\ Len(buf) = Len(rx[t]) + n
    BY <1>9, <2>7, ConcatProperties
  <2>9. found \in {0} \cup Diag!Frames
    BY <1>9, <2>8, FirstFrameType
  <2>10. diagPc[t] = "read" /\ found = 0 => NoFrameIn(buf)
    BY <1>1, <1>9, <2>7, ReadingOn DEF Reads
  <2> HIDE DEF buf, found
  <2>11. Bufs' /\ \A u \in Threads : rx'[u] = IF u = t THEN buf ELSE rx[u]
    BY <1>1, <2>2, <2>8 DEF Bufs
  <2>12. Fits'
    <3>1. Len(buf) <= RxCap
      BY <2>4, <2>8, DiagAssumed
    <3> QED
      BY <1>1, <2>11, <3>1 DEF Fits
  <2>13. Times'
    <3>1. elapsed[t] \in 0 .. Polls /\ waited[t] \in 0 .. Polls + RxCap
          /\ waited[t] <= elapsed[t] + Len(rx[t])
      BY <1>1 DEF Times
    <3>2. waited[t] + w \in 0 .. Polls + RxCap /\ waited[t] + w <= elapsed[t] + Len(buf)
      <4>1. /\ elapsed[t] \in Nat /\ waited[t] \in Nat /\ Len(rx[t]) \in Nat
            /\ Len(buf) \in Nat /\ w \in Nat /\ Polls \in Nat /\ RxCap \in Nat
        BY <2>4, <2>8, <3>1, DiagAssumed
      <4>2. elapsed[t] <= Polls /\ Len(buf) <= RxCap /\ Len(rx[t]) + w <= Len(buf)
        BY <2>4, <2>8, <3>1, <4>1
      <4> QED
        BY <3>1, <4>1, <4>2, Charging
    <3>3. waited' \in [Threads -> 0 .. Polls + RxCap]
      BY <1>1, <2>2, <3>2 DEF Times
    <3>4. \A u \in Threads : waited'[u] = IF u = t THEN waited[t] + w ELSE waited[u]
      BY <1>1, <2>2 DEF Times
    <3>5. \A u \in Threads : waited'[u] <= elapsed'[u] + Len(rx'[u])
      BY <1>1, <2>3, <2>11, <3>2, <3>4 DEF Times
    <3> QED
      BY <1>1, <2>3, <3>3, <3>5 DEF Times
  <2>14. Reads'
    <3>1. \A u \in Threads : u # t => diagPc'[u] = diagPc[u]
      BY <1>7, <2>2
    <3>2. diagPc'[t] = "read" => found = 0
      BY <1>7, <2>2
    <3> QED
      BY <1>1, <2>3, <2>10, <2>11, <3>1, <3>2 DEF Reads
  <2>15. Calls'
    BY <1>1, <2>2, <2>3, <2>9 DEF Calls
  <2>16. Opens'
    BY <1>1, <1>7, <2>2, <2>3
  <2> QED
    BY <1>2, <1>6, <2>3, <2>7, <2>11, <2>12, <2>13, <2>14, <2>15, <2>16 DEF Waits
<1>21. ASSUME NEW t \in Threads, Diag!SendReadFails(t) \/ Diag!SendTimeout(t) PROVE DiagInv'
  <2>1. Diag!Goto(t, "idle") /\ Still
        /\ UNCHANGED <<fd, kernel, stream, diagPending, logs, capturing, opened>>
    BY <1>21 DEF Diag!SendReadFails, Diag!SendTimeout
  <2>2. Opens'
    BY <1>1, <1>7, <2>1
  <2> QED
    BY <1>2, <1>3, <1>6, <1>10, <2>1, <2>2
<1>22. ASSUME Diag!Take PROVE DiagInv'
  <2>1. Still /\ UNCHANGED <<fd, kernel, diagPending, logs, capturing, diagPc, opened>>
    BY <1>22 DEF Diag!Take
  <2> QED
    BY <1>1, <1>2, <1>4, <1>5, <1>6, <1>11, <1>22, <2>1
<1>23. ASSUME NEW t \in Threads, Diag!StartOrStopCapture(t) PROVE DiagInv'
  BY <1>1, <1>2, <1>3, <1>4, <1>5, <1>6, <1>23 DEF Diag!StartOrStopCapture
<1>24. CASE Diag!ModemReply
  <2>1. PICK r \in diagPending : diagPending' = diagPending \ {r} /\ Diag!Emits(r)
    BY <1>24 DEF Diag!ModemReply
  <2>2. r \in Diag!Frames
    BY <1>1, <2>1, DiagAssumed DEF Modem, Diag!Requests, Diag!Frames
  <2>3. Waits'
    BY <1>1, <2>1, <2>2, EmitsType DEF Waits
  <2>4. Still /\ UNCHANGED <<fd, kernel, logs, capturing, diagPc, opened>>
    BY <1>24 DEF Diag!ModemReply
  <2>5. Modem'
    BY <1>1, <2>1, <2>4 DEF Modem
  <2> QED
    BY <1>1, <1>2, <1>4, <1>5, <2>3, <2>4, <2>5
<1>25. CASE Diag!ModemLog
  <2>1. logs < MaxLogs /\ logs' = logs + 1 /\ Diag!Emits(MaxCalls + logs + 1)
    BY <1>25 DEF Diag!ModemLog
  <2>2. MaxCalls + logs + 1 \in Diag!Frames /\ logs + 1 \in 0 .. MaxLogs
    BY <1>1, <2>1, DiagAssumed DEF Modem, Diag!Frames
  <2>3. Waits'
    BY <1>1, <2>1, <2>2, EmitsType DEF Waits
  <2>4. Still /\ UNCHANGED <<fd, kernel, diagPending, capturing, diagPc, opened>>
    BY <1>25 DEF Diag!ModemLog
  <2>5. Modem'
    BY <1>1, <2>1, <2>2, <2>4 DEF Modem
  <2> QED
    BY <1>1, <1>2, <1>4, <1>5, <2>3, <2>4, <2>5
<1>26. CASE UNCHANGED Diag!vars
  BY <1>1, <1>2, <1>3, <1>4, <1>5, <1>6, <1>26 DEF Diag!vars
<1> QED
  BY <1>12, <1>13, <1>15, <1>16, <1>17, <1>18, <1>19, <1>20, <1>21, <1>22, <1>23, <1>24,
     <1>25, <1>26
  DEF Diag!Next, Diag!SendStep, Diag!DrainLog, Diag!SnifferRead

LEMMA DiagInvariant == TransportsSpec => []DiagInv
  BY DiagStart, DiagSteps, DiagInitially, DiagInductive, PTL DEF TransportsSpec

(* A call that gives up after it has read a whole frame read a torn one    *)
(* before: for any number of threads and readers of the device, and all    *)
(* buffers and timeouts.                                                   *)
THEOREM HiddenOnlyByTornTheorem == TransportsSpec => HiddenOnlyByTorn
<1>1. ASSUME DiagInv
      PROVE  [\A t \in Threads : Diag!SendTimeout(t) =>
                \A n \in 1 .. Len(rx[t]) : ~Diag!IsFrame(SubSeq(rx[t], 1, n))]_(Diag!vars)
  BY <1>1 DEF DiagInv, NoFrameIn, Diag!SendTimeout
<1>2. []DiagInv => HiddenOnlyByTorn
  BY <1>1, PTL DEF HiddenOnlyByTorn, Diag!HiddenOnlyByTorn
<1> QED
  BY <1>2, DiagInvariant, PTL

-----------------------------------------------------------------------------
(* When one binder thread opens and closes the device, where it is tells   *)
(* which descriptor the process holds.                                     *)
OneThread == \E t \in Threads : Threads = {t}

HeldInv ==
  /\ OneThread
  /\ \A t \in Threads :
       /\ diagPc[t] = "switch" => fd = Closed /\ opened[t] # Closed /\ kernel = {opened[t]}
       /\ diagPc[t] = "forget" => fd # Closed /\ kernel = {}
       /\ diagPc[t] \in {"idle", "read"} => kernel = IF fd = Closed THEN {} ELSE {fd}

LEMMA HeldInductive == DiagInv /\ HeldInv /\ [Diag!Next]_(Diag!vars) => HeldInv'
<1> SUFFICES ASSUME DiagInv, HeldInv, [Diag!Next]_(Diag!vars) PROVE HeldInv'
  OBVIOUS
<1>1. PICK t \in Threads : Threads = {t}
  BY DEF HeldInv, OneThread
<1>2. /\ diagPc \in [Threads -> {"idle", "switch", "forget", "read"}]
      /\ opened \in [Threads -> Descriptors \cup {Closed}]
      /\ Closed \notin Descriptors
  BY DiagAssumed DEF DiagInv, Diag!TypeOK
<1>3. diagPc[t] \in {"idle", "switch", "forget", "read"}
  BY <1>2
<1>4. /\ diagPc[t] = "switch" => fd = Closed /\ opened[t] # Closed /\ kernel = {opened[t]}
      /\ diagPc[t] = "forget" => fd # Closed /\ kernel = {}
      /\ diagPc[t] \in {"idle", "read"} => kernel = IF fd = Closed THEN {} ELSE {fd}
  BY DEF HeldInv
<1>5. ASSUME /\ diagPc'[t] = "switch" => fd' = Closed /\ opened'[t] # Closed /\ kernel' = {opened'[t]}
             /\ diagPc'[t] = "forget" => fd' # Closed /\ kernel' = {}
             /\ diagPc'[t] \in {"idle", "read"} => kernel' = IF fd' = Closed THEN {} ELSE {fd'}
      PROVE HeldInv'
  BY <1>1, <1>5 DEF HeldInv, OneThread
<1>6. \A l : Diag!Goto(t, l) => diagPc'[t] = l
  BY <1>2 DEF Diag!Goto
<1> USE DEF Diag!device, Diag!call
<1>7. ASSUME Diag!OpenCheck(t) PROVE HeldInv'
  BY <1>2, <1>4, <1>5, <1>6, <1>7 DEF Diag!OpenCheck
<1>8. ASSUME Diag!OpenAssign(t) PROVE HeldInv'
  BY <1>2, <1>4, <1>5, <1>6, <1>8 DEF Diag!OpenAssign
<1>9. ASSUME Diag!OpenSwitchFails(t) PROVE HeldInv'
  BY <1>2, <1>4, <1>5, <1>6, <1>9 DEF Diag!OpenSwitchFails, Diag!CloseInKernel
<1>10. ASSUME Diag!CloseDescriptor(t) PROVE HeldInv'
  BY <1>2, <1>4, <1>5, <1>6, <1>10 DEF Diag!CloseDescriptor, Diag!CloseInKernel
<1>11. ASSUME Diag!CloseForget(t) PROVE HeldInv'
  BY <1>2, <1>4, <1>5, <1>6, <1>11 DEF Diag!CloseForget
<1>12. ASSUME UNCHANGED <<fd, kernel>>, diagPc[t] \in {"idle", "read"},
              diagPc'[t] \in {"idle", "read"}
       PROVE  HeldInv'
  BY <1>4, <1>5, <1>12
<1>13. ASSUME UNCHANGED <<fd, kernel, diagPc, opened>> PROVE HeldInv'
  BY <1>4, <1>5, <1>13
<1>14. ASSUME Diag!SendWrite(t) PROVE HeldInv'
  BY <1>6, <1>12, <1>14 DEF Diag!SendWrite
<1>15. ASSUME Diag!SendPoll(t) PROVE HeldInv'
  BY <1>13, <1>15 DEF Diag!SendPoll
<1>16. ASSUME Diag!SendRead(t) PROVE HeldInv'
  <2>1. diagPc'[t] \in {"idle", "read"}
    BY <1>6, <1>16 DEF Diag!SendRead
  <2> QED
    BY <1>12, <1>16, <2>1 DEF Diag!SendRead
<1>17. ASSUME Diag!SendReadFails(t) \/ Diag!SendTimeout(t) PROVE HeldInv'
  BY <1>6, <1>12, <1>17 DEF Diag!SendReadFails, Diag!SendTimeout
<1>18. ASSUME Diag!Take PROVE HeldInv'
  BY <1>13, <1>18 DEF Diag!Take
<1>19. ASSUME Diag!StartOrStopCapture(t) PROVE HeldInv'
  BY <1>13, <1>19 DEF Diag!StartOrStopCapture
<1>20. CASE Diag!ModemReply \/ Diag!ModemLog
  BY <1>13, <1>20 DEF Diag!ModemReply, Diag!ModemLog
<1>21. CASE UNCHANGED Diag!vars
  BY <1>13, <1>21 DEF Diag!vars
<1> QED
  BY <1>1, <1>7, <1>8, <1>9, <1>10, <1>11, <1>14, <1>15, <1>16, <1>17, <1>18, <1>19, <1>20,
     <1>21
  DEF Diag!Next, Diag!SendStep, Diag!DrainLog, Diag!SnifferRead

(* Between calls the process holds the descriptor that g_diag_fd names and *)
(* no other, when the calls come from one binder thread: with two of them  *)
(* an open may leave a descriptor behind.                                  *)
THEOREM DescriptorsKnownTheorem ==
  ASSUME OneThread PROVE TransportsSpec => []DescriptorsKnown
<1>1. Diag!Init => HeldInv
  BY DEF Diag!Init, HeldInv
<1>2. HeldInv => DescriptorsKnown
  BY DEF HeldInv, OneThread, DescriptorsKnown, Diag!DescriptorsKnown, Diag!Quiet
<1> QED
  BY <1>1, <1>2, DiagStart, DiagSteps, DiagInvariant, HeldInductive, PTL DEF TransportsSpec

-----------------------------------------------------------------------------
(* The calls over QMUX.  What is asked with a transaction id, and the      *)
(* places in the socket of what answers it.                                *)
Asked(o)  == {r \in requests : r.op = o}
Told(o)   == IF o = "set" THEN {"answer"} ELSE {"grant", "refusal"}
Places(w) == {n \in DOMAIN qmuxInbox : qmuxInbox[n] # Qmux!Body /\ qmuxInbox[n].what \in w}
Serial(o) == IF o = "set" THEN svcTxn ELSE ctlTxn

(* A transaction id below the counter is used once: by a request that      *)
(* waits, by one frame that answers it, or by neither any more.            *)
TxnsOnce(o) ==
  /\ \A r \in Asked(o) : r.txn < Serial(o)
  /\ \A r, q \in Asked(o) : r.txn = q.txn => r = q
  /\ \A n \in Places(Told(o)) :
       /\ qmuxInbox[n].txn < Serial(o)
       /\ \A r \in Asked(o) : r.txn # qmuxInbox[n].txn
       /\ \A m \in Places(Told(o)) : qmuxInbox[m].txn = qmuxInbox[n].txn => m = n

(* A client id that was granted belongs to Kotlin, to the call, to one     *)
(* release on its way or to one grant that is not read, and to one of them *)
(* only.                                                                   *)
Mine == IF qmuxSock /\ qmuxPc \in {"send", "transact", "release"} THEN {call.cid} ELSE {}

OwnersOnce ==
  /\ kept \subseteq clients
  /\ Mine \subseteq clients \ kept
  /\ \A r \in Asked("release") : r.cid \in (clients \ kept) \ Mine
  /\ \A r, q \in Asked("release") : r.cid = q.cid => r = q
  /\ \A n \in Places({"grant"}) :
       /\ qmuxInbox[n].svc = "ctl"
       /\ qmuxInbox[n].cid \in (clients \ kept) \ Mine
       /\ \A r \in Asked("release") : r.cid # qmuxInbox[n].cid
       /\ \A m \in Places({"grant"}) : qmuxInbox[m].cid = qmuxInbox[n].cid => m = n

(* Everything but answers and indications comes from the daemon itself.    *)
FromDaemon == \A n \in Places({"grant", "refusal", "released"}) : qmuxInbox[n].svc = "ctl"

(* What the place of a call says of its variables.                         *)
CallAt ==
  /\ qmuxPc \in {"alloc", "send", "transact"} => qmuxSock
  /\ ~qmuxSock => qmuxInbox = <<>> /\ requests = {} /\ clients = {}
  /\ qmuxPc = "alloc" => /\ call.kind \in {"alloc", "band"} /\ call.what = "none"
                         /\ call.txn < ctlTxn /\ ctlTxn < MaxTxn /\ svcTxn < MaxTxn
  /\ qmuxPc \in {"send", "transact", "release"} => call.kind = "band" /\ ctlTxn < MaxTxn
  /\ qmuxPc = "send" => svcTxn < MaxTxn
  /\ qmuxPc = "transact" => call.what = "none" /\ call.txn < svcTxn

(* The answer that a call took is read and asked for no more.              *)
Done(o) ==
  /\ \A r \in Asked(o) : r.txn # call.txn
  /\ \A n \in Places(Told(o)) : qmuxInbox[n].txn # call.txn

Answered ==
  /\ qmuxPc = "release" /\ call.what = "answer" => Done("set")
  /\ qmuxPc = "idle" /\ qmuxSock /\ call.kind = "alloc" /\ call.rc = "ok" => Done("alloc")

QmuxInv ==
  /\ Qmux!TypeOK /\ CallAt /\ TxnsOnce("set") /\ TxnsOnce("alloc") /\ OwnersOnce
  /\ FromDaemon /\ Answered

LEMMA QmuxAssumed ==
  Budget \in Nat \ {0} /\ MaxTxn \in Nat \ {0} /\ MaxQueue \in Nat \ {0}
  BY TransportsAssumption DEF Qmux!QmuxAssumption

LEMMA QmuxSteps == [TransportsNext]_allVars => [Qmux!Next]_(Qmux!vars)
  BY DEF TransportsNext, IdsMove, DiagMoves, GatherMoves, QmuxMoves, QrtrMoves,
         ListMoves, ProbeMoves, VendorMoves, allVars, qmuxVars, Qmux!link, Qmux!vars

LEMMA QmuxStart == TransportsInit => Qmux!Init
  BY DEF TransportsInit

LEMMA QmuxInitially == Qmux!Init => QmuxInv
<1> SUFFICES ASSUME Qmux!Init PROVE QmuxInv
  OBVIOUS
<1>1. qmuxInbox \in Seq(Qmux!Frame \cup {Qmux!Body})
  BY EmptySeq DEF Qmux!Init
<1>2. DOMAIN qmuxInbox = {}
  BY DEF Qmux!Init
<1>3. 0 \in Qmux!Txns /\ 1 \in Qmux!Txns
  BY QmuxAssumed DEF Qmux!Txns
<1>4. call \in [kind : {"none", "alloc", "band"}, txn : Qmux!Txns, cid : Cids \cup {Qmux!NoCid},
                tries : 0 .. Budget, waited : Nat,
                what : {"none", "answer", "indication"}, rc : Qmux!Codes]
  BY <1>3, QmuxAssumed DEF Qmux!Init, Qmux!NoCall, Qmux!Codes
<1>5. Qmux!TypeOK
  BY <1>1, <1>3, <1>4 DEF Qmux!Init, Qmux!TypeOK
<1>6. Places(Told("set")) = {} /\ Places(Told("alloc")) = {} /\ Places({"grant"}) = {}
      /\ Places({"grant", "refusal", "released"}) = {}
  BY <1>2 DEF Places
<1>7. \A o : Asked(o) = {}
  BY DEF Qmux!Init, Asked
<1> QED
  BY <1>5, <1>6, <1>7
  DEF QmuxInv, CallAt, TxnsOnce, OwnersOnce, Mine, FromDaemon, Answered, Qmux!Init, Qmux!NoCall

-----------------------------------------------------------------------------
(* What a step can do with the frames that wait: nothing, take the first   *)
(* or put Body in its place, drop them all, or add one.                    *)
Fewer ==
  \E s \in {0, 1} : \A n \in DOMAIN qmuxInbox' :
    qmuxInbox'[n] # Qmux!Body =>
      n \in Nat /\ n + s \in DOMAIN qmuxInbox /\ qmuxInbox'[n] = qmuxInbox[n + s]

More(f) ==
  /\ Len(qmuxInbox) + 1 \notin DOMAIN qmuxInbox
  /\ DOMAIN qmuxInbox' = DOMAIN qmuxInbox \cup {Len(qmuxInbox) + 1}
  /\ qmuxInbox'[Len(qmuxInbox) + 1] = f
  /\ \A n \in DOMAIN qmuxInbox : qmuxInbox'[n] = qmuxInbox[n]

LEMMA FramesAreNotBody ==
  /\ Qmux!Body \notin Qmux!Frame
  /\ \A f \in Qmux!Frame : /\ f.svc \in {"ctl", "nas"} /\ f.cid \in Cids \cup {Qmux!NoCid}
                           /\ f.txn \in Qmux!Txns /\ f.form \in Qmux!Forms
                           /\ f.what \in {"grant", "refusal", "released", "answer", "indication"}
  BY DEF Qmux!Body, Qmux!Frame

(* A frame that waits is a frame or Body; a request has its fields.        *)
LEMMA WaitingTypes ==
  ASSUME Qmux!TypeOK
  PROVE  /\ DOMAIN qmuxInbox = 1 .. Len(qmuxInbox) /\ Len(qmuxInbox) \in Nat
         /\ \A n \in DOMAIN qmuxInbox : qmuxInbox[n] \in Qmux!Frame \cup {Qmux!Body}
         /\ \A r \in requests : /\ r.op \in {"alloc", "release", "set"} /\ r.txn \in Qmux!Txns
                                /\ r.cid \in Cids \cup {Qmux!NoCid}
<1> DEFINE F == Qmux!Frame \cup {Qmux!Body}
<1>1. qmuxInbox \in Seq(F)
  BY DEF Qmux!TypeOK
<1> HIDE DEF F
<1>2. DOMAIN qmuxInbox = 1 .. Len(qmuxInbox) /\ Len(qmuxInbox) \in Nat
  BY <1>1, LenProperties
<1>3. \A n \in DOMAIN qmuxInbox : qmuxInbox[n] \in F
  BY <1>1, <1>2, ElementOfSeq
<1>4. \A r \in requests : /\ r.op \in {"alloc", "release", "set"} /\ r.txn \in Qmux!Txns
                          /\ r.cid \in Cids \cup {Qmux!NoCid}
  BY DEF Qmux!TypeOK, Qmux!Request
<1> QED
  BY <1>2, <1>3, <1>4 DEF F

LEMMA FewerUnchanged ==
  ASSUME Qmux!TypeOK, UNCHANGED qmuxInbox PROVE Fewer
<1>1. \A n \in DOMAIN qmuxInbox' :
        n \in Nat /\ n + 0 \in DOMAIN qmuxInbox /\ qmuxInbox'[n] = qmuxInbox[n + 0]
  BY WaitingTypes
<1> QED
  BY <1>1 DEF Fewer

LEMMA FewerEmpty ==
  ASSUME qmuxInbox' = <<>> PROVE Fewer
  BY DEF Fewer

LEMMA TakesFirst ==
  ASSUME Qmux!TypeOK, qmuxInbox # <<>>
  PROVE  /\ 1 \in DOMAIN qmuxInbox /\ Head(qmuxInbox) = qmuxInbox[1]
         /\ Tail(qmuxInbox) \in Seq(Qmux!Frame \cup {Qmux!Body})
         /\ DOMAIN Tail(qmuxInbox) = 1 .. Len(qmuxInbox) - 1
         /\ \A n \in DOMAIN Tail(qmuxInbox) : /\ n + 1 \in DOMAIN qmuxInbox
                                              /\ Tail(qmuxInbox)[n] = qmuxInbox[n + 1]
<1> DEFINE F == Qmux!Frame \cup {Qmux!Body}
<1>1. qmuxInbox \in Seq(F)
  BY DEF Qmux!TypeOK
<1> HIDE DEF F
<1>2. DOMAIN qmuxInbox = 1 .. Len(qmuxInbox) /\ Len(qmuxInbox) \in Nat \ {0}
  BY <1>1, EmptySeq, LenProperties
<1>3. /\ Tail(qmuxInbox) \in Seq(F) /\ Len(Tail(qmuxInbox)) = Len(qmuxInbox) - 1
      /\ \A n \in 1 .. Len(Tail(qmuxInbox)) : Tail(qmuxInbox)[n] = qmuxInbox[n + 1]
  BY <1>1, HeadTailProperties
<1>4. DOMAIN Tail(qmuxInbox) = 1 .. Len(Tail(qmuxInbox))
  BY <1>3, LenProperties
<1>5. Head(qmuxInbox) = qmuxInbox[1]
  BY <1>1, <1>2
<1> QED
  BY <1>2, <1>3, <1>4, <1>5 DEF F

LEMMA FewerTail ==
  ASSUME Qmux!TypeOK, qmuxInbox # <<>>, qmuxInbox' = Tail(qmuxInbox) PROVE Fewer
  BY TakesFirst DEF Fewer

LEMMA FewerBody ==
  ASSUME Qmux!TypeOK, qmuxInbox # <<>>, qmuxInbox' = <<Qmux!Body>> \o Tail(qmuxInbox)
  PROVE  Fewer /\ qmuxInbox' \in Seq(Qmux!Frame \cup {Qmux!Body})
<1> DEFINE F == Qmux!Frame \cup {Qmux!Body}
           b == <<Qmux!Body>>
           t == Tail(qmuxInbox)
<1>1. b \in Seq(F) /\ Len(b) = 1 /\ b[1] = Qmux!Body
  OBVIOUS
<1>2. t \in Seq(F) /\ DOMAIN t = 1 .. Len(qmuxInbox) - 1 /\ DOMAIN qmuxInbox = 1 .. Len(qmuxInbox)
      /\ Len(qmuxInbox) \in Nat \ {0}
      /\ \A n \in DOMAIN t : t[n] = qmuxInbox[n + 1]
  BY TakesFirst, WaitingTypes
<1> HIDE DEF F, b, t
<1>3. DOMAIN t = 1 .. Len(t) /\ Len(t) \in Nat
  BY <1>2, LenProperties
<1>4. /\ b \o t \in Seq(F) /\ Len(b \o t) = 1 + Len(t)
      /\ \A n \in 1 .. 1 + Len(t) : (b \o t)[n] = IF n <= 1 THEN b[n] ELSE t[n - 1]
  <2>1. /\ b \o t \in Seq(F) /\ Len(b \o t) = Len(b) + Len(t)
        /\ \A n \in 1 .. Len(b) + Len(t) :
             (b \o t)[n] = IF n <= Len(b) THEN b[n] ELSE t[n - Len(b)]
    BY <1>1, <1>2, ConcatProperties
  <2> QED
    BY <1>1, <2>1
<1>5. DOMAIN (b \o t) = 1 .. 1 + Len(t)
  BY <1>4, LenProperties
<1>6. qmuxInbox' = b \o t
  BY DEF b, t
<1>7. ASSUME NEW n \in DOMAIN qmuxInbox', qmuxInbox'[n] # Qmux!Body
      PROVE  n \in Nat /\ n + 0 \in DOMAIN qmuxInbox /\ qmuxInbox'[n] = qmuxInbox[n + 0]
  <2>1. n \in 1 .. 1 + Len(t) /\ n # 1
    BY <1>1, <1>4, <1>5, <1>6, <1>7
  <2>2. n - 1 \in 1 .. Len(t)
    BY <1>3, <2>1
  <2>3. (b \o t)[n] = t[n - 1]
    BY <1>4, <2>1
  <2>4. t[n - 1] = qmuxInbox[n] /\ n \in DOMAIN qmuxInbox
    BY <1>2, <1>3, <2>1, <2>2
  <2> QED
    BY <1>6, <2>1, <2>3, <2>4
<1> QED
  BY <1>4, <1>6, <1>7 DEF Fewer, F

LEMMA MoreAppended ==
  ASSUME Qmux!TypeOK, NEW f \in Qmux!Frame, qmuxInbox' = Append(qmuxInbox, f)
  PROVE  More(f) /\ qmuxInbox' \in Seq(Qmux!Frame \cup {Qmux!Body})
<1> DEFINE F == Qmux!Frame \cup {Qmux!Body}
<1>1. qmuxInbox \in Seq(F) /\ f \in F
  BY DEF Qmux!TypeOK
<1> HIDE DEF F
<1>2. DOMAIN qmuxInbox = 1 .. Len(qmuxInbox) /\ Len(qmuxInbox) \in Nat
  BY <1>1, LenProperties
<1>3. /\ qmuxInbox' \in Seq(F) /\ Len(qmuxInbox') = Len(qmuxInbox) + 1
      /\ \A n \in 1 .. Len(qmuxInbox) : qmuxInbox'[n] = qmuxInbox[n]
      /\ qmuxInbox'[Len(qmuxInbox) + 1] = f
  BY <1>1, AppendProperties
<1>4. DOMAIN qmuxInbox' = 1 .. Len(qmuxInbox) + 1
  BY <1>3, LenProperties
<1> QED
  BY <1>2, <1>3, <1>4 DEF More, F

(* Where a frame is after a step, and where it was before.                 *)
LEMMA FewerPlaces ==
  ASSUME Fewer, NEW w
  PROVE  \E s \in {0, 1} : \A n \in Places(w)' :
           n + s \in Places(w) /\ qmuxInbox'[n] = qmuxInbox[n + s] /\ n \in Nat
  BY DEF Fewer, Places

LEMMA MorePlaces ==
  ASSUME NEW f \in Qmux!Frame, More(f), NEW w
  PROVE  /\ Places(w)' = Places(w) \cup {n \in {Len(qmuxInbox) + 1} : f.what \in w}
         /\ \A n \in Places(w) : qmuxInbox'[n] = qmuxInbox[n] /\ n # Len(qmuxInbox) + 1
         /\ qmuxInbox'[Len(qmuxInbox) + 1] = f
  BY FramesAreNotBody DEF More, Places

(* The ids of requests, of frames and the counters are numbers.            *)
LEMMA TxnNumbers ==
  ASSUME Qmux!TypeOK
  PROVE  /\ \A o : Serial(o) \in Nat /\ \A r \in Asked(o) : r.txn \in Nat
         /\ \A w : \A n \in Places(w) : /\ qmuxInbox[n] \in Qmux!Frame /\ qmuxInbox[n].txn \in Nat
                                        /\ n \in Nat
<1>1. \A w : \A n \in Places(w) : qmuxInbox[n] \in Qmux!Frame /\ n \in Nat
  BY WaitingTypes DEF Places
<1>2. Qmux!Txns \subseteq Nat
  BY QmuxAssumed DEF Qmux!Txns
<1>3. \A o : Serial(o) \in Nat
  BY <1>2 DEF Qmux!TypeOK, Serial
<1>4. \A o : \A r \in Asked(o) : r.txn \in Nat
  BY <1>2, WaitingTypes DEF Asked
<1> QED
  BY <1>1, <1>2, <1>3, <1>4, FramesAreNotBody

-----------------------------------------------------------------------------
(* Ids are used once still when frames and requests go,                    *)
LEMMA TxnsPass ==
  ASSUME NEW o, Qmux!TypeOK, TxnsOnce(o), Asked(o)' \subseteq Asked(o), Fewer,
         Serial(o)' \in Nat, Serial(o)' >= Serial(o)
  PROVE  TxnsOnce(o)'
<1> DEFINE w == Told(o)
<1>1. PICK s \in {0, 1} : \A n \in Places(w)' :
        n + s \in Places(w) /\ qmuxInbox'[n] = qmuxInbox[n + s] /\ n \in Nat
  BY FewerPlaces
<1>2. /\ Serial(o) \in Nat /\ \A r \in Asked(o) : r.txn \in Nat
      /\ \A n \in Places(w) : qmuxInbox[n].txn \in Nat
  BY TxnNumbers
<1>3. w' = w
  BY DEF Told
<1>4. \A r \in Asked(o)' : r.txn < Serial(o)'
  BY <1>2 DEF TxnsOnce
<1>5. \A n \in Places(w)' : qmuxInbox'[n].txn < Serial(o)'
  BY <1>1, <1>2 DEF TxnsOnce
<1>6. \A n \in Places(w)' : \A r \in Asked(o)' : r.txn # qmuxInbox'[n].txn
  BY <1>1 DEF TxnsOnce
<1>7. ASSUME NEW n \in Places(w)', NEW m \in Places(w)', qmuxInbox'[m].txn = qmuxInbox'[n].txn
      PROVE  m = n
  <2>1. m + s = n + s
    BY <1>1, <1>7 DEF TxnsOnce
  <2>2. m \in Nat /\ n \in Nat
    BY <1>1, <1>7
  <2> QED
    BY <2>1, <2>2
<1> QED
  BY <1>3, <1>4, <1>5, <1>6, <1>7 DEF TxnsOnce

(* when a request goes out with the next id,                               *)
LEMMA TxnsAsk ==
  ASSUME NEW o, Qmux!TypeOK, TxnsOnce(o), UNCHANGED qmuxInbox,
         NEW q, q.txn = Serial(o), Asked(o)' \subseteq Asked(o) \cup {q},
         Serial(o)' = Serial(o) + 1
  PROVE  TxnsOnce(o)'
<1> DEFINE w == Told(o)
<1>1. w' = w /\ Places(w)' = Places(w)
  BY DEF Told, Places
<1>2. /\ Serial(o) \in Nat /\ \A r \in Asked(o) : r.txn \in Nat
      /\ \A n \in Places(w) : qmuxInbox[n].txn \in Nat
  BY TxnNumbers
<1>3. \A r \in Asked(o)' : r.txn < Serial(o)'
  BY <1>2 DEF TxnsOnce
<1>4. \A r, t \in Asked(o)' : r.txn = t.txn => r = t
  BY <1>2 DEF TxnsOnce
<1>5. \A n \in Places(w) : /\ qmuxInbox[n].txn < Serial(o)'
                           /\ \A r \in Asked(o)' : r.txn # qmuxInbox[n].txn
  BY <1>2 DEF TxnsOnce
<1>6. \A n, m \in Places(w) : qmuxInbox[m].txn = qmuxInbox[n].txn => m = n
  BY DEF TxnsOnce
<1> QED
  BY <1>1, <1>3, <1>4, <1>5, <1>6 DEF TxnsOnce

(* when one is answered under its id,                                      *)
LEMMA TxnsTell ==
  ASSUME NEW o, Qmux!TypeOK, TxnsOnce(o), UNCHANGED Serial(o),
         NEW r \in Asked(o), Asked(o)' = Asked(o) \ {r},
         NEW f \in Qmux!Frame, f.txn = r.txn, More(f)
  PROVE  TxnsOnce(o)'
<1> DEFINE w == Told(o)
           z == Len(qmuxInbox) + 1
<1>1. w' = w /\ Places(w)' \subseteq Places(w) \cup {z} /\ qmuxInbox'[z] = f
      /\ \A n \in Places(w) : qmuxInbox'[n] = qmuxInbox[n] /\ n # z
  BY MorePlaces DEF Told
<1>2. /\ Serial(o) \in Nat /\ \A t \in Asked(o) : t.txn \in Nat
      /\ \A n \in Places(w) : qmuxInbox[n].txn \in Nat
  BY TxnNumbers
<1> HIDE DEF z
<1>3. \A t \in Asked(o)' : t.txn < Serial(o)' /\ t.txn # f.txn
  BY <1>2 DEF TxnsOnce
<1>4. \A t, q \in Asked(o)' : q.txn = t.txn => q = t
  BY DEF TxnsOnce
<1>5. \A n \in Places(w) : /\ qmuxInbox'[n].txn < Serial(o)' /\ qmuxInbox'[n].txn # f.txn
                           /\ \A t \in Asked(o)' : t.txn # qmuxInbox'[n].txn
  BY <1>1 DEF TxnsOnce
<1>6. f.txn < Serial(o)'
  BY DEF TxnsOnce
<1>7. \A n, m \in Places(w) : qmuxInbox'[m].txn = qmuxInbox'[n].txn => m = n
  BY <1>1 DEF TxnsOnce
<1>8. \A n \in Places(w)' : /\ qmuxInbox'[n].txn < Serial(o)'
                            /\ \A t \in Asked(o)' : t.txn # qmuxInbox'[n].txn
  BY <1>1, <1>3, <1>5, <1>6
<1>9. \A n, m \in Places(w)' : qmuxInbox'[m].txn = qmuxInbox'[n].txn => m = n
  BY <1>1, <1>5, <1>7
<1> QED
  BY <1>1, <1>3, <1>4, <1>8, <1>9 DEF TxnsOnce

(* and when something else is said.                                        *)
LEMMA TxnsAside ==
  ASSUME NEW o, Qmux!TypeOK, TxnsOnce(o), UNCHANGED Serial(o),
         Asked(o)' \subseteq Asked(o),
         NEW f \in Qmux!Frame, f.what \notin Told(o), More(f)
  PROVE  TxnsOnce(o)'
<1> DEFINE w == Told(o)
<1>1. w' = w /\ Places(w)' = Places(w) /\ \A n \in Places(w) : qmuxInbox'[n] = qmuxInbox[n]
  <2>1. PICK p : p = Told(o)
    OBVIOUS
  <2>2. Places(p)' = Places(p) /\ \A n \in Places(p) : qmuxInbox'[n] = qmuxInbox[n]
    <3>1. f.what \notin p
      BY <2>1
    <3>2. /\ Places(p)' = Places(p) \cup {n \in {Len(qmuxInbox) + 1} : f.what \in p}
          /\ \A n \in Places(p) : qmuxInbox'[n] = qmuxInbox[n]
      BY MorePlaces
    <3> QED
      BY <3>1, <3>2
  <2>3. w' = w
    BY DEF Told
  <2> QED
    BY <2>1, <2>2, <2>3
<1>2. \A n \in Places(w)' : /\ qmuxInbox'[n].txn < Serial(o)'
                            /\ \A t \in Asked(o)' : t.txn # qmuxInbox'[n].txn
  BY <1>1 DEF TxnsOnce
<1>3. \A n, m \in Places(w)' : qmuxInbox'[m].txn = qmuxInbox'[n].txn => m = n
  BY <1>1 DEF TxnsOnce
<1>4. \A r, q \in Asked(o)' : r.txn = q.txn => r = q
  BY DEF TxnsOnce
<1>5. \A r \in Asked(o)' : r.txn < Serial(o)'
  BY DEF TxnsOnce
<1> QED
  BY <1>1, <1>2, <1>3, <1>4, <1>5 DEF TxnsOnce

(* Ids of clients that still have one owner: when frames and releases go   *)
(* and nobody gets an id,                                                  *)
LEMMA OwnersPass ==
  ASSUME Qmux!TypeOK, OwnersOnce, Asked("release")' \subseteq Asked("release"), Fewer,
         Mine' \subseteq Mine, UNCHANGED <<clients, kept>>
  PROVE  OwnersOnce'
<1> DEFINE w == {"grant"}
<1>1. PICK s \in {0, 1} : \A n \in Places(w)' :
        n + s \in Places(w) /\ qmuxInbox'[n] = qmuxInbox[n + s] /\ n \in Nat
  BY FewerPlaces
<1>2. Mine' \subseteq clients' \ kept'
  BY DEF OwnersOnce
<1>3. /\ \A r \in Asked("release")' : r.cid \in (clients' \ kept') \ Mine'
      /\ \A r, q \in Asked("release")' : r.cid = q.cid => r = q
  BY DEF OwnersOnce
<1>4. \A n \in Places(w)' :
        /\ qmuxInbox'[n].svc = "ctl"
        /\ qmuxInbox'[n].cid \in (clients' \ kept') \ Mine'
        /\ \A r \in Asked("release")' : r.cid # qmuxInbox'[n].cid
  BY <1>1 DEF OwnersOnce
<1>5. ASSUME NEW n \in Places(w)', NEW m \in Places(w)', qmuxInbox'[m].cid = qmuxInbox'[n].cid
      PROVE  m = n
  <2>1. m + s = n + s /\ m \in Nat /\ n \in Nat
    BY <1>1, <1>5 DEF OwnersOnce
  <2> QED
    BY <2>1
<1> QED
  BY <1>2, <1>3, <1>4, <1>5 DEF OwnersOnce

(* when the first frame is a grant and the call takes it, for itself or    *)
(* for Kotlin,                                                             *)
LEMMA OwnersTake ==
  ASSUME Qmux!TypeOK, OwnersOnce, UNCHANGED <<requests, clients>>, Mine = {},
         1 \in Places({"grant"}), qmuxInbox' = Tail(qmuxInbox),
         NEW c, c = qmuxInbox[1].cid,
         \/ Mine' = {c} /\ UNCHANGED kept
         \/ Mine' = {} /\ kept' = kept \cup {c}
  PROVE  OwnersOnce'
<1> DEFINE w == {"grant"}
<1>1. qmuxInbox # <<>>
  BY DEF Places
<1>2. ASSUME NEW n \in Places(w)'
      PROVE  /\ n \in Nat \ {0} /\ n + 1 \in Places(w) /\ n + 1 # 1
             /\ qmuxInbox'[n] = qmuxInbox[n + 1]
  BY <1>1, <1>2, TakesFirst, WaitingTypes DEF Places
<1>3. UNCHANGED Asked("release")
  BY DEF Asked
<1>4. /\ c \in clients \ kept /\ \A r \in Asked("release") : r.cid # c
      /\ \A m \in Places(w) : m # 1 => qmuxInbox[m].cid # c
  BY DEF OwnersOnce
<1>5. \A m \in Places(w) : /\ qmuxInbox[m].svc = "ctl" /\ qmuxInbox[m].cid \in clients \ kept
                           /\ \A r \in Asked("release") : r.cid # qmuxInbox[m].cid
  BY DEF OwnersOnce
<1>6. ASSUME NEW n \in Places(w)'
      PROVE  /\ qmuxInbox'[n].svc = "ctl" /\ qmuxInbox'[n].cid \in (clients \ kept) \ {c}
             /\ \A r \in Asked("release") : r.cid # qmuxInbox'[n].cid
  <2> DEFINE m == n + 1
  <2>1. m \in Places(w) /\ m # 1 /\ qmuxInbox'[n] = qmuxInbox[m]
    BY <1>2
  <2> HIDE DEF m
  <2> QED
    BY <1>4, <1>5, <2>1
<1>7. ASSUME NEW n \in Places(w)', NEW m \in Places(w)', qmuxInbox'[m].cid = qmuxInbox'[n].cid
      PROVE  m = n
  <2> DEFINE k == n + 1
             l == m + 1
  <2>1. k \in Places(w) /\ l \in Places(w) /\ qmuxInbox[k].cid = qmuxInbox[l].cid
    BY <1>2, <1>7
  <2> HIDE DEF k, l
  <2>2. k = l
    BY <2>1 DEF OwnersOnce
  <2>3. m \in Nat /\ n \in Nat
    BY <1>2
  <2> QED
    BY <2>2, <2>3 DEF k, l
<1>8. /\ Mine' \subseteq clients' \ kept'
      /\ \A r \in Asked("release")' : r.cid \in (clients' \ kept') \ Mine'
      /\ \A r, q \in Asked("release")' : r.cid = q.cid => r = q
  BY <1>3, <1>4 DEF OwnersOnce
<1>9. (clients \ kept) \ {c} \subseteq (clients' \ kept') \ Mine'
  OBVIOUS
<1>10. ASSUME NEW n \in Places(w)' PROVE qmuxInbox'[n].cid \in (clients' \ kept') \ Mine'
  <2>1. qmuxInbox'[n].cid \in (clients \ kept) \ {c}
    BY <1>6
  <2> QED
    BY <1>9, <2>1
<1>11. ASSUME NEW n \in Places(w)'
       PROVE  qmuxInbox'[n].svc = "ctl" /\ \A r \in Asked("release")' : r.cid # qmuxInbox'[n].cid
  BY <1>3, <1>6
<1> QED
  <2>1. \A n \in Places({"grant"})' :
          /\ qmuxInbox'[n].svc = "ctl"
          /\ qmuxInbox'[n].cid \in (clients' \ kept') \ Mine'
          /\ \A r \in Asked("release")' : r.cid # qmuxInbox'[n].cid
          /\ \A m \in Places({"grant"})' : qmuxInbox'[m].cid = qmuxInbox'[n].cid => m = n
    BY <1>7, <1>10, <1>11
  <2>2. kept' \subseteq clients'
    BY <1>4 DEF OwnersOnce
  <2> QED
    BY <1>8, <2>1, <2>2 DEF OwnersOnce

(* when the call sends the release of its own,                             *)
LEMMA OwnersRelease ==
  ASSUME Qmux!TypeOK, OwnersOnce, UNCHANGED <<qmuxInbox, clients, kept>>,
         NEW q, Mine = {q.cid}, Mine' = {}, Asked("release")' \subseteq Asked("release") \cup {q}
  PROVE  OwnersOnce'
<1>1. Places({"grant"})' = Places({"grant"})
  BY DEF Places
<1>2. \A r, t \in Asked("release")' : r.cid = t.cid => r = t
  BY DEF OwnersOnce
<1>3. \A r \in Asked("release")' : r.cid \in clients \ kept
  BY DEF OwnersOnce
<1>4. \A n \in Places({"grant"}) : \A r \in Asked("release")' : r.cid # qmuxInbox[n].cid
  BY DEF OwnersOnce
<1> QED
  BY <1>1, <1>2, <1>3, <1>4 DEF OwnersOnce

(* when the daemon grants one that nobody has,                             *)
LEMMA OwnersGrant ==
  ASSUME Qmux!TypeOK, OwnersOnce, UNCHANGED <<kept, Mine, Asked("release")>>,
         NEW f \in Qmux!Frame, f.svc = "ctl", f.cid \notin clients, More(f),
         clients' = clients \cup {f.cid}
  PROVE  OwnersOnce'
<1> DEFINE w == {"grant"}
           z == Len(qmuxInbox) + 1
<1>1. Places(w)' \subseteq Places(w) \cup {z} /\ qmuxInbox'[z] = f
      /\ \A n \in Places(w) : qmuxInbox'[n] = qmuxInbox[n] /\ n # z
  BY MorePlaces
<1> HIDE DEF z
<1>2. /\ Mine' \subseteq clients' \ kept'
      /\ \A r \in Asked("release")' : r.cid \in (clients' \ kept') \ Mine' /\ r.cid # f.cid
      /\ \A r, q \in Asked("release")' : r.cid = q.cid => r = q
  BY DEF OwnersOnce
<1>3. f.cid \in (clients' \ kept') \ Mine'
  BY DEF OwnersOnce
<1>4. \A n \in Places(w) :
        /\ qmuxInbox'[n].svc = "ctl"
        /\ qmuxInbox'[n].cid \in (clients' \ kept') \ Mine'
        /\ \A r \in Asked("release")' : r.cid # qmuxInbox'[n].cid
        /\ qmuxInbox'[n].cid # f.cid
  BY <1>1 DEF OwnersOnce
<1>5. \A n, m \in Places(w) : qmuxInbox'[m].cid = qmuxInbox'[n].cid => m = n
  BY <1>1 DEF OwnersOnce
<1>6. \A n, m \in Places(w)' : qmuxInbox'[m].cid = qmuxInbox'[n].cid => m = n
  BY <1>1, <1>4, <1>5
<1>7. \A n \in Places(w)' :
        /\ qmuxInbox'[n].svc = "ctl"
        /\ qmuxInbox'[n].cid \in (clients' \ kept') \ Mine'
        /\ \A r \in Asked("release")' : r.cid # qmuxInbox'[n].cid
  BY <1>1, <1>2, <1>3, <1>4
<1> QED
  BY <1>2, <1>6, <1>7 DEF OwnersOnce

(* when it takes back the one of a release, and when it says anything else.*)
LEMMA OwnersAside ==
  ASSUME Qmux!TypeOK, OwnersOnce, UNCHANGED <<kept, Mine>>,
         NEW f \in Qmux!Frame, f.what # "grant", More(f),
         \/ Asked("release")' \subseteq Asked("release") /\ UNCHANGED clients
         \/ \E r \in Asked("release") : /\ Asked("release")' = Asked("release") \ {r}
                                        /\ clients' = clients \ {r.cid}
  PROVE  OwnersOnce'
<1>1. Places({"grant"})' = Places({"grant"})
      /\ \A n \in Places({"grant"}) : qmuxInbox'[n] = qmuxInbox[n]
  BY MorePlaces
<1>2. Mine' \subseteq clients' \ kept'
  BY DEF OwnersOnce
<1>3. /\ \A r \in Asked("release")' : r.cid \in (clients' \ kept') \ Mine'
      /\ \A r, q \in Asked("release")' : r.cid = q.cid => r = q
  BY DEF OwnersOnce
<1>4. \A n \in Places({"grant"}) :
        /\ qmuxInbox[n].cid \in (clients' \ kept') \ Mine'
        /\ \A r \in Asked("release")' : r.cid # qmuxInbox[n].cid
  BY DEF OwnersOnce
<1>5. \A n \in Places({"grant"})' :
        /\ qmuxInbox'[n].svc = "ctl"
        /\ qmuxInbox'[n].cid \in (clients' \ kept') \ Mine'
        /\ \A r \in Asked("release")' : r.cid # qmuxInbox'[n].cid
        /\ \A m \in Places({"grant"})' : qmuxInbox'[m].cid = qmuxInbox'[n].cid => m = n
  BY <1>1, <1>4 DEF OwnersOnce
<1> QED
  BY <1>2, <1>3, <1>5 DEF OwnersOnce

-----------------------------------------------------------------------------
(* What a call does to its variables: the same but for the time it took,   *)
(* or given up with an error.                                              *)
CallRecord ==
  [kind : {"none", "alloc", "band"}, txn : Qmux!Txns, cid : Cids \cup {Qmux!NoCid},
   tries : 0 .. Budget, waited : Nat,
   what : {"none", "answer", "indication"}, rc : Qmux!Codes]

SameCall ==
  call'.kind = call.kind /\ call'.txn = call.txn /\ call'.cid = call.cid /\ call'.what = call.what

GivesUp ==
  /\ Qmux!Waiting /\ SameCall /\ call'.rc # "ok"
  /\ qmuxPc' = IF qmuxPc = "alloc" THEN "idle" ELSE "release"

(* The fields of a call whose budget or code has changed.                  *)
LEMMA CallEdits ==
  ASSUME NEW c \in CallRecord, NEW rc \in Qmux!Codes
  PROVE  /\ [c EXCEPT !.rc = rc] \in CallRecord /\ [c EXCEPT !.rc = rc].rc = rc
         /\ [c EXCEPT !.rc = rc].kind = c.kind /\ [c EXCEPT !.rc = rc].txn = c.txn
         /\ [c EXCEPT !.rc = rc].cid = c.cid /\ [c EXCEPT !.rc = rc].what = c.what
  BY DEF CallRecord

LEMMA CallCharged ==
  ASSUME Qmux!TypeOK, ~Qmux!OutOfTime, NEW w \in {0, Budget - call.tries},
         NEW c, c = [call EXCEPT !.tries = @ + 1, !.waited = @ + w]
  PROVE  /\ c \in CallRecord /\ c.kind = call.kind /\ c.txn = call.txn /\ c.cid = call.cid
         /\ c.what = call.what /\ c.rc = call.rc
<1>1. call \in CallRecord
  BY DEF Qmux!TypeOK, CallRecord
<1>2. call.tries \in 0 .. Budget /\ call.waited \in Nat /\ ~(call.tries >= Budget)
  BY <1>1 DEF CallRecord, Qmux!OutOfTime
<1>3. call.tries + 1 \in 0 .. Budget /\ call.waited + w \in Nat
  BY <1>2, QmuxAssumed
<1>4. c = [call EXCEPT !.tries = call.tries + 1, !.waited = call.waited + w]
  OBVIOUS
<1> QED
  BY <1>1, <1>3, <1>4 DEF CallRecord

LEMMA Failing ==
  ASSUME NEW c \in CallRecord, NEW rc \in Qmux!Codes \ {"ok"}, Qmux!Fail(c, rc), Qmux!Waiting,
         c.kind = call.kind, c.txn = call.txn, c.cid = call.cid, c.what = call.what
  PROVE  GivesUp /\ call' \in CallRecord
<1>1. call' = [c EXCEPT !.rc = rc]
  BY DEF Qmux!Fail, Qmux!Goto
<1>2. qmuxPc' = IF qmuxPc = "alloc" THEN "idle" ELSE "release"
  BY DEF Qmux!Fail, Qmux!Goto
<1>3. SameCall /\ call'.rc = rc /\ call' \in CallRecord
  BY <1>1, CallEdits DEF SameCall
<1> QED
  BY <1>2, <1>3 DEF GivesUp

(* A frame that is read: it does not fit, it is the answer to the request  *)
(* of the band preference, it is the grant that the call waits for, or     *)
(* none of these.                                                          *)
Overflows ==
  qmuxPc = "alloc" /\ GivesUp /\ Fewer /\ UNCHANGED kept

TakesAnswer(f) ==
  /\ qmuxPc = "transact" /\ qmuxPc' = "release"
  /\ f.svc = "nas" /\ f.txn = call.txn /\ qmuxInbox' = Tail(qmuxInbox)
  /\ call'.kind = call.kind /\ call'.txn = call.txn /\ call'.cid = call.cid
  /\ call'.what = f.what /\ UNCHANGED kept

TakesGrant(f) ==
  /\ qmuxPc = "alloc" /\ f.svc = "ctl" /\ f.txn = call.txn /\ f.what = "grant"
  /\ qmuxInbox' = Tail(qmuxInbox)
  /\ call'.kind = call.kind /\ call'.txn = call.txn /\ call'.cid = f.cid
  /\ call'.what = call.what
  /\ IF call.kind = "band" THEN qmuxPc' = "send" /\ UNCHANGED kept
     ELSE qmuxPc' = "idle" /\ kept' = kept \cup {f.cid}

Skips(f) ==
  /\ ~Qmux!Matches(f) /\ qmuxInbox' = Tail(qmuxInbox) /\ UNCHANGED <<qmuxPc, kept>>
  /\ SameCall /\ call'.rc = call.rc

LEMMA Received ==
  ASSUME Qmux!TypeOK, FromDaemon, Qmux!RecvFrame
  PROVE  /\ UNCHANGED <<qmuxSock, torn, requests, clients, ctlTxn, svcTxn>>
         /\ qmuxInbox # <<>> /\ 1 \in DOMAIN qmuxInbox /\ qmuxInbox[1] \in Qmux!Frame
         /\ Fewer /\ qmuxInbox' \in Seq(Qmux!Frame \cup {Qmux!Body}) /\ Qmux!Waiting
         /\ (\/ Overflows \/ (GivesUp /\ UNCHANGED kept)
             \/ TakesAnswer(qmuxInbox[1]) \/ TakesGrant(qmuxInbox[1]) \/ Skips(qmuxInbox[1]))
         /\ call' \in CallRecord
<1> DEFINE f == qmuxInbox[1]
<1>1. /\ UNCHANGED <<qmuxSock, torn, requests, clients, ctlTxn, svcTxn>>
      /\ Qmux!Waiting /\ ~Qmux!OutOfTime /\ qmuxInbox # <<>> /\ Head(qmuxInbox) # Qmux!Body
  BY DEF Qmux!RecvFrame
<1>2. 1 \in DOMAIN qmuxInbox /\ Head(qmuxInbox) = f /\ Tail(qmuxInbox) \in Seq(Qmux!Frame \cup {Qmux!Body})
  BY <1>1, TakesFirst
<1>3. f \in Qmux!Frame
  BY <1>1, <1>2, WaitingTypes
<1> HIDE DEF f
<1>4. PICK w \in {0, Budget - call.tries} :
        LET c == [call EXCEPT !.tries = @ + 1, !.waited = @ + w]
        IN  IF f.form = "big" /\ qmuxPc = "alloc"
            THEN /\ qmuxInbox' = <<Qmux!Body>> \o Tail(qmuxInbox)
                 /\ Qmux!Fail(c, "BUF_OVERFLOW") /\ UNCHANGED kept
            ELSE /\ qmuxInbox' = Tail(qmuxInbox)
                 /\ IF Qmux!Matches(f) THEN Qmux!Accept(f, c) ELSE Qmux!Skip(c)
  BY <1>2 DEF Qmux!RecvFrame
<1> DEFINE c == [call EXCEPT !.tries = @ + 1, !.waited = @ + w]
<1>5. /\ c \in CallRecord /\ c.kind = call.kind /\ c.txn = call.txn /\ c.cid = call.cid
      /\ c.what = call.what /\ c.rc = call.rc
  BY <1>1, CallCharged
<1>6. \/ /\ f.form = "big" /\ qmuxPc = "alloc"
         /\ qmuxInbox' = <<Qmux!Body>> \o Tail(qmuxInbox)
         /\ Qmux!Fail(c, "BUF_OVERFLOW") /\ UNCHANGED kept
      \/ qmuxInbox' = Tail(qmuxInbox) /\ Qmux!Matches(f) /\ Qmux!Accept(f, c)
      \/ qmuxInbox' = Tail(qmuxInbox) /\ ~Qmux!Matches(f) /\ Qmux!Skip(c)
  BY <1>4
<1> HIDE DEF c
<1>7. Fewer /\ qmuxInbox' \in Seq(Qmux!Frame \cup {Qmux!Body})
  BY <1>1, <1>2, <1>6, FewerTail, FewerBody
<1>8. CASE /\ f.form = "big" /\ qmuxPc = "alloc"
           /\ Qmux!Fail(c, "BUF_OVERFLOW") /\ UNCHANGED kept
  <2>1. GivesUp /\ call' \in CallRecord
    BY <1>1, <1>5, <1>8, Failing DEF Qmux!Codes
  <2> QED
    BY <1>1, <1>2, <1>3, <1>7, <1>8, <2>1 DEF Overflows, f
<1>9. CASE qmuxInbox' = Tail(qmuxInbox) /\ ~Qmux!Matches(f) /\ Qmux!Skip(c)
  <2>1. Skips(f) /\ call' \in CallRecord
    BY <1>5, <1>9 DEF Skips, Qmux!Skip, SameCall
  <2> QED
    BY <1>1, <1>2, <1>3, <1>7, <2>1 DEF f
<1>10. CASE qmuxInbox' = Tail(qmuxInbox) /\ Qmux!Matches(f) /\ Qmux!Accept(f, c)
  <2>1. CASE qmuxPc = "transact"
    <3> DEFINE rc == IF f.form = "broken" THEN "BAD_FRAME" ELSE "ok"
    <3>1. qmuxPc' = "release" /\ call' = [c EXCEPT !.what = f.what, !.rc = rc] /\ UNCHANGED kept
      BY <1>10, <2>1 DEF Qmux!Accept, Qmux!Goto
    <3>2. f.svc = "nas" /\ f.txn = call.txn
      BY <1>10, <2>1 DEF Qmux!Matches
    <3>6. f.what \in {"answer", "indication"}
      BY <1>1, <1>2, <1>3, <3>2, FramesAreNotBody DEF FromDaemon, Places, f
    <3>3. rc \in Qmux!Codes
      BY DEF Qmux!Codes
    <3> HIDE DEF rc
    <3>4. /\ call'.kind = c.kind /\ call'.txn = c.txn /\ call'.cid = c.cid
          /\ call'.what = f.what
          /\ call' \in CallRecord
      BY <1>5, <3>1, <3>3, <3>6 DEF CallRecord
    <3>5. TakesAnswer(f)
      BY <1>5, <1>10, <2>1, <3>1, <3>2, <3>4 DEF TakesAnswer
    <3> QED
      BY <1>1, <1>2, <1>3, <1>7, <3>4, <3>5 DEF f
  <2>2. CASE qmuxPc # "transact"
    <3>1. qmuxPc = "alloc"
      BY <1>1, <2>2 DEF Qmux!Waiting
    <3>2. f.svc = "ctl" /\ f.txn = call.txn /\ f.what \in {"grant", "refusal"}
      BY <1>10, <3>1 DEF Qmux!Matches
    <3>3. CASE f.form = "broken" \/ f.what = "refusal"
      <4>1. (Qmux!Fail(c, "PROTO") \/ Qmux!Fail(c, "CLIENT_ALLOC")) /\ UNCHANGED kept
        BY <1>10, <3>1, <3>3 DEF Qmux!Accept
      <4>2. GivesUp /\ call' \in CallRecord
        BY <1>1, <1>5, <4>1, Failing DEF Qmux!Codes
      <4> QED
        BY <1>1, <1>2, <1>3, <1>7, <4>1, <4>2 DEF f
    <3>4. CASE f.form # "broken" /\ f.what # "refusal"
      <4>1. /\ qmuxPc' = (IF c.kind = "band" THEN "send" ELSE "idle")
            /\ call' = [c EXCEPT !.cid = f.cid]
            /\ kept' = IF c.kind = "band" THEN kept ELSE kept \cup {f.cid}
        BY <1>10, <3>1, <3>4 DEF Qmux!Accept, Qmux!Goto
      <4>2. f.cid \in Cids \cup {Qmux!NoCid}
        BY <1>3, FramesAreNotBody
      <4>3. /\ call' \in CallRecord /\ call'.kind = c.kind /\ call'.txn = c.txn
            /\ call'.cid = f.cid /\ call'.what = c.what
        BY <1>5, <4>1, <4>2 DEF CallRecord
      <4>4. TakesGrant(f)
        BY <1>5, <1>10, <3>1, <3>2, <3>4, <4>1, <4>3 DEF TakesGrant
      <4> QED
        BY <1>1, <1>2, <1>3, <1>7, <4>3, <4>4 DEF f
    <3> QED
      BY <3>3, <3>4
  <2> QED
    BY <2>1, <2>2
<1> QED
  BY <1>6, <1>8, <1>9, <1>10

-----------------------------------------------------------------------------
(* What the daemon and the modem do: each takes a request or none, and     *)
(* says one frame.                                                         *)
Grants(f) ==
  \E r \in requests :
    /\ r.op = "alloc" /\ requests' = requests \ {r} /\ f.txn = r.txn /\ f.what = "grant"
    /\ f.svc = "ctl" /\ f.cid \in Cids \ clients /\ clients' = clients \cup {f.cid}

Refuses(f) ==
  \E r \in requests :
    /\ r.op = "alloc" /\ requests' = requests \ {r} /\ f.txn = r.txn /\ f.what = "refusal"
    /\ f.svc = "ctl" /\ UNCHANGED clients

TakesBack(f) ==
  \E r \in requests :
    /\ r.op = "release" /\ requests' = requests \ {r} /\ f.what = "released"
    /\ f.svc = "ctl" /\ clients' = clients \ {r.cid}

Answers(f) ==
  \E r \in requests :
    /\ r.op = "set" /\ requests' = requests \ {r} /\ f.txn = r.txn /\ f.what = "answer"
    /\ f.svc = "nas" /\ UNCHANGED clients

Indicates(f) == f.what = "indication" /\ f.svc = "nas" /\ UNCHANGED <<requests, clients>>

LEMMA Delivered ==
  ASSUME Qmux!TypeOK,
         Qmux!Grant \/ Qmux!Refuse \/ Qmux!TakeBack \/ Qmux!Answer \/ Qmux!Indicate
  PROVE  \E f \in Qmux!Frame :
           /\ Qmux!Deliver(f) /\ requests' \subseteq requests /\ clients' \subseteq Cids
           /\ (\/ (Qmux!Grant /\ Grants(f)) \/ (Qmux!Refuse /\ Refuses(f))
               \/ TakesBack(f) \/ Answers(f) \/ Indicates(f))
<1>1. \A r \in requests : r.txn \in Qmux!Txns /\ r.cid \in Cids \cup {Qmux!NoCid}
  BY WaitingTypes
<1>2. clients \subseteq Cids
  BY DEF Qmux!TypeOK
<1>3. ASSUME NEW svc \in {"ctl", "nas"}, NEW cid \in Cids \cup {Qmux!NoCid}, NEW txn \in Qmux!Txns,
             NEW what \in {"grant", "refusal", "released", "answer", "indication"},
             NEW form \in Qmux!Forms, NEW f, f = Qmux!Reply(svc, cid, txn, what, form)
      PROVE  /\ f \in Qmux!Frame /\ f.svc = svc /\ f.cid = cid /\ f.txn = txn /\ f.what = what
  BY <1>3 DEF Qmux!Reply, Qmux!Frame
<1>4. /\ "good" \in Qmux!Forms /\ "broken" \in Qmux!Forms /\ "big" \in Qmux!Forms
      /\ Qmux!NoCid \in Cids \cup {Qmux!NoCid} /\ clients \subseteq Cids \cup {Qmux!NoCid}
  BY <1>2 DEF Qmux!Forms
<1>5. CASE Qmux!Grant
  <2>1. PICK r \in requests, form \in Qmux!Forms, cid \in Cids \ clients :
          /\ r.op = "alloc"
          /\ requests' = requests \ {r} /\ clients' = clients \cup {cid}
          /\ Qmux!Deliver(Qmux!Reply("ctl", cid, r.txn, "grant", form))
    BY <1>5 DEF Qmux!Grant
  <2> DEFINE f == Qmux!Reply("ctl", cid, r.txn, "grant", form)
  <2>2. f \in Qmux!Frame /\ f.svc = "ctl" /\ f.cid = cid /\ f.txn = r.txn /\ f.what = "grant"
    BY <1>1, <1>3
  <2>3. Qmux!Deliver(f)
    BY <2>1
  <2> HIDE DEF f
  <2>4. Grants(f)
    BY <2>1, <2>2 DEF Grants
  <2>5. clients' \subseteq Cids /\ requests' \subseteq requests
    BY <1>2, <2>1
  <2> QED
    BY <1>5, <2>2, <2>3, <2>4, <2>5
<1>6. CASE Qmux!Refuse
  <2>1. PICK r \in requests :
          /\ r.op = "alloc"
          /\ requests' = requests \ {r} /\ UNCHANGED clients
          /\ Qmux!Deliver(Qmux!Reply("ctl", Qmux!NoCid, r.txn, "refusal", "good"))
    BY <1>6 DEF Qmux!Refuse
  <2> DEFINE f == Qmux!Reply("ctl", Qmux!NoCid, r.txn, "refusal", "good")
  <2>2. f \in Qmux!Frame /\ f.svc = "ctl" /\ f.txn = r.txn /\ f.what = "refusal"
    BY <1>1, <1>4 DEF Qmux!Reply, Qmux!Frame
  <2>3. Qmux!Deliver(f)
    BY <2>1
  <2> HIDE DEF f
  <2>4. Refuses(f)
    BY <2>1, <2>2 DEF Refuses
  <2> QED
    BY <1>2, <1>6, <2>1, <2>2, <2>3, <2>4
<1>7. CASE Qmux!TakeBack
  <2>1. PICK r \in requests :
          /\ r.op = "release"
          /\ requests' = requests \ {r} /\ clients' = clients \ {r.cid}
          /\ Qmux!Deliver(Qmux!Reply("ctl", r.cid, r.txn, "released", "good"))
    BY <1>7 DEF Qmux!TakeBack
  <2> DEFINE f == Qmux!Reply("ctl", r.cid, r.txn, "released", "good")
  <2>2. f \in Qmux!Frame /\ f.svc = "ctl" /\ f.what = "released"
    BY <1>1, <1>3, <1>4
  <2>3. Qmux!Deliver(f)
    BY <2>1
  <2> HIDE DEF f
  <2>4. TakesBack(f)
    BY <2>1, <2>2 DEF TakesBack
  <2> QED
    BY <1>2, <2>1, <2>2, <2>3, <2>4
<1>8. CASE Qmux!Answer
  <2>1. PICK r \in requests, form \in {"good", "broken"} :
          /\ r.op = "set"
          /\ requests' = requests \ {r} /\ UNCHANGED clients
          /\ Qmux!Deliver(Qmux!Reply("nas", r.cid, r.txn, "answer", form))
    BY <1>8 DEF Qmux!Answer
  <2> DEFINE f == Qmux!Reply("nas", r.cid, r.txn, "answer", form)
  <2>2. f \in Qmux!Frame /\ f.svc = "nas" /\ f.txn = r.txn /\ f.what = "answer"
    BY <1>1, <1>3, <1>4
  <2>3. Qmux!Deliver(f)
    BY <2>1
  <2> HIDE DEF f
  <2>4. Answers(f)
    BY <2>1, <2>2 DEF Answers
  <2> QED
    BY <1>2, <2>1, <2>2, <2>3, <2>4
<1>9. CASE Qmux!Indicate
  <2>1. PICK cid \in clients \cup {Qmux!NoCid}, txn \in Qmux!Txns, form \in {"good", "big"} :
          /\ UNCHANGED <<requests, clients>>
          /\ Qmux!Deliver(Qmux!Reply("nas", cid, txn, "indication", form))
    BY <1>9 DEF Qmux!Indicate
  <2> DEFINE f == Qmux!Reply("nas", cid, txn, "indication", form)
  <2>2. f \in Qmux!Frame /\ f.svc = "nas" /\ f.what = "indication"
    <3>1. cid \in Cids \cup {Qmux!NoCid} /\ form \in Qmux!Forms
      BY <1>4, <2>1
    <3> QED
      BY <1>3, <3>1
  <2>3. Qmux!Deliver(f)
    BY <2>1
  <2> HIDE DEF f
  <2>4. Indicates(f)
    BY <2>1, <2>2 DEF Indicates
  <2> QED
    BY <1>2, <2>1, <2>2, <2>3, <2>4
<1> QED
  BY <1>5, <1>6, <1>7, <1>8, <1>9

-----------------------------------------------------------------------------
(* Where the call is and what it holds, and the types, at each step.       *)
LEMMA QmuxTypes ==
  ASSUME Qmux!TypeOK, CallAt, FromDaemon, OwnersOnce, [Qmux!Next]_(Qmux!vars)
  PROVE  Qmux!TypeOK' /\ CallAt'
<1> DEFINE F == Qmux!Frame \cup {Qmux!Body}
           Sets == requests \subseteq Qmux!Request /\ clients \subseteq Cids /\ kept \subseteq Cids
           Nums == ctlTxn \in Qmux!Txns /\ svcTxn \in Qmux!Txns
           Link == qmuxSock \in BOOLEAN /\ torn \in BOOLEAN
           Loc == qmuxPc \in {"idle", "alloc", "send", "transact", "release"}
           Box == qmuxInbox \in Seq(F)
           Cal == call \in CallRecord
<1>1. Sets /\ Nums /\ Link /\ Loc /\ Box /\ Cal
  BY DEF Qmux!TypeOK, CallRecord
<1>2. Sets' /\ Nums' /\ Link' /\ Loc' /\ Box' /\ Cal' => Qmux!TypeOK'
  BY DEF Qmux!TypeOK, CallRecord
<1>3. UNCHANGED <<requests, clients, kept>> => Sets'
  BY <1>1
<1>4. UNCHANGED <<ctlTxn, svcTxn>> => Nums'
  BY <1>1
<1>5. UNCHANGED <<qmuxSock, torn>> => Link'
  BY <1>1
<1>6. UNCHANGED qmuxPc => Loc'
  BY <1>1
<1>7. UNCHANGED qmuxInbox => Box'
  BY <1>1
<1>8. UNCHANGED call => Cal'
  BY <1>1
<1>9. Qmux!CloseSocket => Sets' /\ Link' /\ Box'
  BY EmptySeq DEF Qmux!CloseSocket
<1>10. ctlTxn \in Nat /\ svcTxn \in Nat
  BY <1>1, QmuxAssumed DEF Qmux!Txns
<1>11. \A n \in Nat : n < MaxTxn => n + 1 \in Qmux!Txns /\ n \in Qmux!Txns
  BY QmuxAssumed DEF Qmux!Txns
<1>12. \A r : Qmux!Post(r) /\ r \in Qmux!Request => Sets' /\ Link' /\ Box'
  BY <1>1, <1>7 DEF Qmux!Post
<1>13. call.cid \in Cids \cup {Qmux!NoCid}
  BY <1>1 DEF CallRecord
<1>14. Qmux!NoCall \in CallRecord
  BY QmuxAssumed DEF Qmux!NoCall, CallRecord, Qmux!Txns, Qmux!Codes
<1>15. ASSUME NEW kind \in {"alloc", "band"}, NEW txn \in Qmux!Txns,
              NEW cid \in Cids \cup {Qmux!NoCid}, NEW c, c = Qmux!Starting(kind, txn, cid)
       PROVE  /\ c \in CallRecord /\ [c EXCEPT !.rc = "SEND_FAIL"] \in CallRecord
              /\ c.kind = kind /\ c.txn = txn /\ c.cid = cid /\ c.what = "none"
              /\ [c EXCEPT !.rc = "SEND_FAIL"].kind = kind
  BY <1>14, <1>15 DEF Qmux!Starting, CallRecord, Qmux!NoCall, Qmux!Codes
<1>16. ASSUME NEW f \in Qmux!Frame, Qmux!Deliver(f) PROVE Box'
  BY <1>16, MoreAppended DEF Qmux!Deliver
<1> HIDE DEF F, Sets, Nums, Link, Loc, Box, Cal
<1>17. CASE Qmux!Open
  <2>1. Nums'
    BY <1>17, <1>11, QmuxAssumed DEF Qmux!Open, Nums, Qmux!Txns
  <2>2. Link'
    BY <1>1, <1>17 DEF Qmux!Open, Link
  <2>3. Cal'
    BY <1>14, <1>17 DEF Qmux!Open, Cal
  <2>4. Qmux!TypeOK'
    BY <1>2, <1>3, <1>6, <1>7, <1>17, <2>1, <2>2, <2>3 DEF Qmux!Open
  <2> QED
    BY <1>17, <2>4 DEF Qmux!Open, CallAt
<1>18. CASE Qmux!Close
  <2>1. Cal'
    BY <1>14, <1>18 DEF Qmux!Close, Cal
  <2>2. Qmux!TypeOK'
    BY <1>2, <1>4, <1>6, <1>9, <1>18, <2>1 DEF Qmux!Close
  <2> QED
    BY <1>18, <2>2 DEF Qmux!Close, Qmux!CloseSocket, CallAt
<1>19. ASSUME NEW kind \in {"alloc", "band"}, Qmux!AllocSend(kind) PROVE Qmux!TypeOK' /\ CallAt'
  <2> DEFINE c == Qmux!Starting(kind, ctlTxn, Qmux!NoCid)
             r == [op |-> "alloc", txn |-> ctlTxn, cid |-> Qmux!NoCid]
  <2>1. /\ qmuxPc = "idle" /\ qmuxSock /\ ctlTxn < MaxTxn - 1 /\ svcTxn < MaxTxn
        /\ ctlTxn' = ctlTxn + 1 /\ svcTxn' = svcTxn
        /\ \/ Qmux!Post(r) /\ qmuxPc' = "alloc" /\ call' = c
           \/ Qmux!CloseSocket /\ qmuxPc' = "idle" /\ call' = [c EXCEPT !.rc = "SEND_FAIL"]
    BY <1>19 DEF Qmux!AllocSend, Qmux!Goto
  <2>2. r \in Qmux!Request
    BY <1>1 DEF Nums, Qmux!Request
  <2>3. ctlTxn < MaxTxn /\ ctlTxn + 1 < MaxTxn /\ ctlTxn < ctlTxn + 1
    BY <1>10, <2>1, QmuxAssumed
  <2>4. Nums'
    BY <1>1, <1>10, <1>11, <2>1, <2>3 DEF Nums
  <2>5. /\ c \in CallRecord /\ [c EXCEPT !.rc = "SEND_FAIL"] \in CallRecord
        /\ c.kind = kind /\ c.txn = ctlTxn /\ c.what = "none"
    BY <1>1, <1>15 DEF Nums
  <2> HIDE DEF c, r
  <2>6. CASE Qmux!Post(r) /\ qmuxPc' = "alloc" /\ call' = c
    <3>1. Qmux!TypeOK'
      BY <1>2, <1>12, <2>2, <2>4, <2>5, <2>6 DEF Loc, Cal
    <3> QED
      BY <2>1, <2>3, <2>5, <2>6, <3>1 DEF CallAt, Qmux!Post
  <2>7. CASE Qmux!CloseSocket /\ qmuxPc' = "idle" /\ call' = [c EXCEPT !.rc = "SEND_FAIL"]
    <3>1. Qmux!TypeOK'
      BY <1>2, <1>9, <2>4, <2>5, <2>7 DEF Loc, Cal
    <3> QED
      BY <2>7, <3>1 DEF CallAt, Qmux!CloseSocket
  <2> QED
    BY <2>1, <2>6, <2>7
<1>20. CASE Qmux!TransactSend
  <2> DEFINE c == Qmux!Starting("band", svcTxn, call.cid)
             r == [op |-> "set", txn |-> svcTxn, cid |-> c.cid]
  <2>1. /\ qmuxPc = "send" /\ svcTxn' = svcTxn + 1 /\ ctlTxn' = ctlTxn
        /\ \/ Qmux!Post(r) /\ qmuxPc' = "transact" /\ call' = c
           \/ Qmux!CloseSocket /\ qmuxPc' = "release" /\ call' = [c EXCEPT !.rc = "SEND_FAIL"]
    BY <1>20 DEF Qmux!TransactSend, Qmux!Goto
  <2>2. /\ c \in CallRecord /\ [c EXCEPT !.rc = "SEND_FAIL"] \in CallRecord
        /\ c.kind = "band" /\ c.txn = svcTxn /\ c.what = "none" /\ c.cid = call.cid
        /\ [c EXCEPT !.rc = "SEND_FAIL"].kind = "band"
    BY <1>1, <1>13, <1>15 DEF Nums
  <2>3. r \in Qmux!Request
    BY <1>1, <1>13, <2>2 DEF Nums, Qmux!Request
  <2>4. qmuxSock /\ svcTxn < MaxTxn /\ ctlTxn < MaxTxn /\ svcTxn < svcTxn + 1
    BY <1>10, <2>1 DEF CallAt
  <2>5. Nums'
    BY <1>1, <1>10, <1>11, <2>1, <2>4 DEF Nums
  <2> HIDE DEF c, r
  <2>6. CASE Qmux!Post(r) /\ qmuxPc' = "transact" /\ call' = c
    <3>1. Qmux!TypeOK'
      BY <1>2, <1>12, <2>2, <2>3, <2>5, <2>6 DEF Loc, Cal
    <3> QED
      BY <2>1, <2>2, <2>4, <2>6, <3>1 DEF CallAt, Qmux!Post
  <2>7. CASE Qmux!CloseSocket /\ qmuxPc' = "release" /\ call' = [c EXCEPT !.rc = "SEND_FAIL"]
    <3>1. Qmux!TypeOK'
      BY <1>2, <1>9, <2>2, <2>5, <2>7 DEF Loc, Cal
    <3> QED
      BY <2>1, <2>2, <2>4, <2>7, <3>1 DEF CallAt, Qmux!CloseSocket
  <2> QED
    BY <2>1, <2>6, <2>7
<1>21. CASE Qmux!RecvFrame
  <2> DEFINE f == qmuxInbox[1]
  <2>1. /\ UNCHANGED <<qmuxSock, torn, requests, clients, ctlTxn, svcTxn>>
        /\ 1 \in DOMAIN qmuxInbox /\ f \in Qmux!Frame /\ Box' /\ Qmux!Waiting /\ Cal'
        /\ (\/ Overflows \/ (GivesUp /\ UNCHANGED kept)
            \/ TakesAnswer(f) \/ TakesGrant(f) \/ Skips(f))
    BY <1>21, Received DEF Box, F, Cal
  <2>2. TakesGrant(f) => f.cid \in Cids
    BY <1>1, <2>1, FramesAreNotBody DEF TakesGrant, OwnersOnce, Places, Sets
  <2>3. qmuxSock
    BY <2>1 DEF CallAt, Qmux!Waiting
  <2> HIDE DEF f
  <2>4. Sets' /\ Loc'
    BY <1>1, <2>1, <2>2
    DEF Sets, Loc, Overflows, GivesUp, TakesAnswer, TakesGrant, Skips, Qmux!Waiting
  <2>5. Qmux!TypeOK'
    BY <1>2, <1>4, <1>5, <2>1, <2>4
  <2>6. call.kind \in {"none", "alloc", "band"} /\ call'.kind = call.kind
    BY <1>1, <2>1
    DEF Cal, CallRecord, SameCall, Overflows, GivesUp, TakesAnswer, TakesGrant, Skips
  <2>7. ctlTxn < MaxTxn /\ (qmuxPc' = "send" => svcTxn < MaxTxn /\ call.kind = "band")
    BY <2>1 DEF CallAt, Qmux!Waiting, Overflows, GivesUp, TakesAnswer, TakesGrant, Skips
  <2>8. qmuxPc' \in {"alloc", "transact"} => Skips(f) /\ qmuxPc' = qmuxPc
    BY <2>1 DEF Qmux!Waiting, Overflows, GivesUp, TakesAnswer, TakesGrant, Skips
  <2>9. qmuxPc' = "release" => qmuxPc = "transact"
    BY <2>1 DEF Qmux!Waiting, Overflows, GivesUp, TakesAnswer, TakesGrant, Skips
  <2>10. CallAt'
    BY <2>1, <2>3, <2>6, <2>7, <2>8, <2>9 DEF CallAt, Skips, SameCall
  <2> QED
    BY <2>5, <2>10
<1>22. ASSUME NEW rc \in Qmux!Codes \ {"ok"}, Qmux!Fail(call, rc), Qmux!Waiting,
              UNCHANGED <<ctlTxn, svcTxn>>,
              Qmux!CloseSocket \/ UNCHANGED <<qmuxSock, qmuxInbox, torn, requests, clients, kept>>
       PROVE  Qmux!TypeOK' /\ CallAt'
  <2>1. GivesUp /\ Cal'
    BY <1>1, <1>22, Failing DEF Cal
  <2>2. Loc'
    BY <2>1 DEF GivesUp, Loc
  <2>3. Qmux!TypeOK'
    BY <1>2, <1>3, <1>4, <1>5, <1>7, <1>9, <1>22, <2>1, <2>2
  <2>4. CallAt'
    BY <1>22, <2>1 DEF CallAt, GivesUp, SameCall, Qmux!CloseSocket, Qmux!Waiting
  <2> QED
    BY <2>3, <2>4
<1>23. CASE Qmux!RecvGarbage
  <2>1. Qmux!Waiting /\ ~Qmux!OutOfTime /\ UNCHANGED <<qmuxSock, qmuxInbox, torn, requests, clients, kept, ctlTxn, svcTxn>>
    BY <1>23 DEF Qmux!RecvGarbage, Qmux!link
  <2>2. CASE Qmux!Fail(call, "BUF_OVERFLOW")
    BY <1>22, <2>1, <2>2 DEF Qmux!Codes
  <2>3. CASE Qmux!Goto(qmuxPc, [call EXCEPT !.tries = @ + 1])
    <3>1. call.tries + 1 \in 0 .. Budget
      BY <1>1, <2>1, QmuxAssumed DEF Cal, CallRecord, Qmux!OutOfTime
    <3>2. UNCHANGED qmuxPc /\ call' = [call EXCEPT !.tries = call.tries + 1]
      BY <2>3 DEF Qmux!Goto
    <3>3. Cal' /\ SameCall
      BY <1>1, <3>1, <3>2 DEF Cal, CallRecord, SameCall
    <3>4. Qmux!TypeOK'
      BY <1>2, <1>3, <1>4, <1>5, <1>6, <1>7, <2>1, <3>2, <3>3
    <3>5. CallAt'
      BY <2>1, <3>2, <3>3 DEF CallAt, SameCall
    <3> QED
      BY <3>4, <3>5
  <2> QED
    BY <1>23, <2>2, <2>3 DEF Qmux!RecvGarbage
<1>24. CASE Qmux!RecvFails
  BY <1>22, <1>24 DEF Qmux!RecvFails, Qmux!Codes
<1>25. CASE Qmux!RecvTimeout
  BY <1>22, <1>25 DEF Qmux!RecvTimeout, Qmux!link, Qmux!Codes
<1>26. CASE Qmux!Release
  <2> DEFINE r == [op |-> "release", txn |-> ctlTxn, cid |-> call.cid]
  <2>1. qmuxPc = "release" /\ qmuxPc' = "idle" /\ UNCHANGED <<call, svcTxn>> /\ ctlTxn < MaxTxn
    BY <1>26 DEF Qmux!Release, Qmux!Goto, CallAt
  <2>2. Loc'
    BY <2>1 DEF Loc
  <2>3. CASE ~qmuxSock
    <3>1. UNCHANGED <<qmuxSock, qmuxInbox, torn, requests, clients, kept, ctlTxn>>
      BY <1>26, <2>3 DEF Qmux!Release, Qmux!link
    <3>2. Qmux!TypeOK'
      BY <1>2, <1>3, <1>4, <1>5, <1>7, <1>8, <2>1, <2>2, <3>1
    <3> QED
      BY <2>1, <2>3, <3>1, <3>2 DEF CallAt
  <2>4. CASE qmuxSock
    <3>1. /\ ctlTxn' = ctlTxn + 1
          /\ \/ Qmux!Post(r)
             \/ torn' = TRUE /\ UNCHANGED <<qmuxSock, qmuxInbox, requests, clients, kept>>
      BY <1>26, <2>4 DEF Qmux!Release
    <3>2. Nums'
      BY <1>1, <1>10, <1>11, <2>1, <3>1 DEF Nums
    <3>3. r \in Qmux!Request
      BY <1>1, <1>13 DEF Nums, Qmux!Request
    <3>4. Sets' /\ Link' /\ Box' /\ qmuxSock' = qmuxSock
      <4>1. CASE Qmux!Post(r)
        BY <1>12, <3>3, <4>1 DEF Qmux!Post
      <4>2. CASE torn' = TRUE /\ UNCHANGED <<qmuxSock, qmuxInbox, requests, clients, kept>>
        BY <1>1, <1>3, <1>7, <4>2 DEF Link
      <4> QED
        BY <3>1, <4>1, <4>2
    <3>5. Qmux!TypeOK'
      BY <1>2, <1>8, <2>1, <2>2, <3>2, <3>4
    <3> QED
      BY <2>1, <2>4, <3>4, <3>5 DEF CallAt
  <2> QED
    BY <1>1, <2>3, <2>4 DEF Link
<1>27. ASSUME NEW f \in Qmux!Frame, Qmux!Deliver(f), requests' \subseteq requests,
              clients' \subseteq Cids
       PROVE  Qmux!TypeOK' /\ CallAt'
  <2>1. UNCHANGED <<qmuxSock, torn, kept, ctlTxn, svcTxn, qmuxPc, call>> /\ qmuxSock
    BY <1>27 DEF Qmux!Deliver
  <2>2. Sets'
    BY <1>1, <1>27, <2>1 DEF Sets
  <2>3. Qmux!TypeOK'
    BY <1>2, <1>4, <1>5, <1>6, <1>8, <1>16, <1>27, <2>1, <2>2
  <2> QED
    BY <2>1, <2>3 DEF CallAt
<1>28. clients \subseteq Cids
  BY <1>1 DEF Sets
<1>29. CASE Qmux!Grant \/ Qmux!Refuse \/ Qmux!TakeBack \/ Qmux!Answer \/ Qmux!Indicate
  <2>1. PICK f \in Qmux!Frame : Qmux!Deliver(f) /\ requests' \subseteq requests /\ clients' \subseteq Cids
    BY <1>28, <1>29, Delivered
  <2> QED
    BY <1>27, <2>1
<1>30. CASE UNCHANGED Qmux!vars
  <2>1. UNCHANGED <<qmuxSock, qmuxInbox, torn, requests, clients, kept, ctlTxn, svcTxn, qmuxPc, call>>
    BY <1>30 DEF Qmux!vars, Qmux!link
  <2>2. Qmux!TypeOK'
    BY <1>2, <1>3, <1>4, <1>5, <1>6, <1>7, <1>8, <2>1
  <2> QED
    BY <2>1, <2>2 DEF CallAt
<1> QED
  BY <1>17, <1>18, <1>19, <1>20, <1>21, <1>23, <1>24, <1>25, <1>26, <1>29, <1>30
  DEF Qmux!Next, Qmux!CallStep

-----------------------------------------------------------------------------
(* Only the daemon and the modem add frames.                               *)
LEMMA CallerFewer ==
  ASSUME Qmux!TypeOK, FromDaemon,
         \/ Qmux!Open \/ Qmux!Close \/ (\E kind \in {"alloc", "band"} : Qmux!AllocSend(kind))
         \/ Qmux!CallStep \/ UNCHANGED Qmux!vars
  PROVE  Fewer
<1>1. Qmux!CloseSocket => Fewer
  BY FewerEmpty DEF Qmux!CloseSocket
<1>2. Qmux!RecvFrame => Fewer
  BY Received
<1>3. \A r : Qmux!Post(r) => UNCHANGED qmuxInbox
  BY DEF Qmux!Post
<1> QED
  BY <1>1, <1>2, <1>3, FewerUnchanged
  DEF Qmux!Open, Qmux!Close, Qmux!AllocSend, Qmux!CallStep, Qmux!TransactSend, Qmux!RecvGarbage,
      Qmux!RecvFails, Qmux!RecvTimeout, Qmux!Release, Qmux!vars, Qmux!link

(* A step is one of the caller's or says one frame.                        *)
LEMMA Speaks ==
  ASSUME Qmux!TypeOK, Qmux!Grant \/ Qmux!Refuse \/ Qmux!TakeBack \/ Qmux!Answer \/ Qmux!Indicate
  PROVE  /\ UNCHANGED <<qmuxSock, torn, kept, ctlTxn, svcTxn, qmuxPc, call>> /\ qmuxSock
         /\ \E f \in Qmux!Frame :
              /\ More(f)
              /\ \/ Grants(f) \/ Refuses(f) \/ TakesBack(f) \/ Answers(f) \/ Indicates(f)
<1>1. PICK f \in Qmux!Frame : /\ Qmux!Deliver(f)
                              /\ \/ Grants(f) \/ Refuses(f) \/ TakesBack(f) \/ Answers(f)
                                 \/ Indicates(f)
  BY Delivered
<1>2. More(f)
  BY <1>1, MoreAppended DEF Qmux!Deliver
<1> QED
  BY <1>1, <1>2 DEF Qmux!Deliver

LEMMA FromDaemonInductive ==
  ASSUME Qmux!TypeOK, FromDaemon, [Qmux!Next]_(Qmux!vars) PROVE FromDaemon'
<1> DEFINE w == {"grant", "refusal", "released"}
<1>1. CASE Fewer
  BY <1>1, FewerPlaces DEF FromDaemon
<1>2. CASE Qmux!Grant \/ Qmux!Refuse \/ Qmux!TakeBack \/ Qmux!Answer \/ Qmux!Indicate
  <2>1. PICK f \in Qmux!Frame :
          /\ More(f)
          /\ \/ Grants(f) \/ Refuses(f) \/ TakesBack(f) \/ Answers(f) \/ Indicates(f)
    BY <1>2, Speaks
  <2>2. f.what \in w => f.svc = "ctl"
    BY <2>1 DEF Grants, Refuses, TakesBack, Answers, Indicates
  <2> QED
    BY <2>1, <2>2, MorePlaces DEF FromDaemon
<1> QED
  BY <1>1, <1>2, CallerFewer DEF Qmux!Next

-----------------------------------------------------------------------------
(* Nothing waits on a socket that is closed.                               *)
LEMMA TxnsNone ==
  ASSUME NEW o, qmuxInbox' = <<>>, requests' = {} PROVE TxnsOnce(o)'
<1>1. Asked(o)' = {} /\ Places(Told(o))' = {}
  BY DEF Asked, Places
<1> QED
  BY <1>1 DEF TxnsOnce

LEMMA TxnsInductive ==
  ASSUME NEW o \in {"set", "alloc"}, Qmux!TypeOK, CallAt, FromDaemon, TxnsOnce(o),
         [Qmux!Next]_(Qmux!vars)
  PROVE  TxnsOnce(o)'
<1>1. ctlTxn \in Nat /\ svcTxn \in Nat
  BY QmuxAssumed DEF Qmux!TypeOK, Qmux!Txns
<1>2. ASSUME UNCHANGED <<ctlTxn, svcTxn, requests>>, Fewer PROVE TxnsOnce(o)'
  <2>1. UNCHANGED Serial(o) /\ UNCHANGED Asked(o) /\ Serial(o) \in Nat
    BY <1>1, <1>2 DEF Serial, Asked
  <2> QED
    BY <1>2, <2>1, TxnsPass
<1>3. Qmux!CloseSocket => TxnsOnce(o)'
  BY TxnsNone DEF Qmux!CloseSocket
<1>4. CASE Qmux!Open
  BY <1>4, TxnsNone DEF Qmux!Open, CallAt
<1>5. CASE Qmux!Close
  BY <1>3, <1>5 DEF Qmux!Close
<1>6. ASSUME NEW p, NEW q, q.op = p, q.txn = Serial(p), Qmux!Post(q),
             Serial(p)' = Serial(p) + 1, p # o => UNCHANGED Serial(o)
      PROVE  TxnsOnce(o)'
  <2>1. requests' \subseteq requests \cup {q} /\ UNCHANGED qmuxInbox
    BY <1>6 DEF Qmux!Post
  <2>2. CASE p = o
    BY <1>6, <2>1, <2>2, TxnsAsk DEF Asked
  <2>3. CASE p # o
    <3>1. Asked(o)' \subseteq Asked(o) /\ Serial(o)' = Serial(o) /\ Serial(o) \in Nat
      BY <1>1, <1>6, <2>1, <2>3 DEF Asked, Serial
    <3> QED
      BY <2>1, <3>1, TxnsPass, FewerUnchanged
  <2> QED
    BY <2>2, <2>3
<1>7. ASSUME NEW kind \in {"alloc", "band"}, Qmux!AllocSend(kind) PROVE TxnsOnce(o)'
  <2> DEFINE q == [op |-> "alloc", txn |-> ctlTxn, cid |-> Qmux!NoCid]
  <2>1. /\ ctlTxn' = ctlTxn + 1 /\ svcTxn' = svcTxn /\ (Qmux!Post(q) \/ Qmux!CloseSocket)
    BY <1>7 DEF Qmux!AllocSend
  <2>2. q.op = "alloc" /\ q.txn = ctlTxn
    OBVIOUS
  <2> HIDE DEF q
  <2>3. /\ Serial("alloc")' = Serial("alloc") + 1 /\ q.txn = Serial("alloc")
        /\ "alloc" # o => UNCHANGED Serial(o)
    BY <2>1, <2>2 DEF Serial
  <2> QED
    BY <1>3, <1>6, <2>1, <2>2, <2>3
<1>8. CASE Qmux!TransactSend
  <2> DEFINE q == [op |-> "set", txn |-> svcTxn, cid |-> Qmux!Starting("band", svcTxn, call.cid).cid]
  <2>1. /\ svcTxn' = svcTxn + 1 /\ ctlTxn' = ctlTxn /\ (Qmux!Post(q) \/ Qmux!CloseSocket)
    BY <1>8 DEF Qmux!TransactSend
  <2>2. q.op = "set" /\ q.txn = svcTxn
    OBVIOUS
  <2> HIDE DEF q
  <2>3. /\ Serial("set")' = Serial("set") + 1 /\ q.txn = Serial("set")
        /\ "set" # o => UNCHANGED Serial(o)
    BY <2>1, <2>2 DEF Serial
  <2> QED
    BY <1>3, <1>6, <2>1, <2>2, <2>3
<1>9. CASE Qmux!RecvFrame
  BY <1>2, <1>9, Received
<1>10. CASE Qmux!RecvGarbage \/ Qmux!RecvTimeout \/ UNCHANGED Qmux!vars
  BY <1>2, <1>10, FewerUnchanged DEF Qmux!RecvGarbage, Qmux!RecvTimeout, Qmux!vars, Qmux!link
<1>11. CASE Qmux!RecvFails
  BY <1>3, <1>11 DEF Qmux!RecvFails
<1>12. CASE Qmux!Release
  <2>1. /\ ctlTxn' \in {ctlTxn, ctlTxn + 1} /\ svcTxn' = svcTxn /\ UNCHANGED qmuxInbox
        /\ requests' \subseteq requests \cup
             {[op |-> "release", txn |-> ctlTxn, cid |-> call.cid]}
    BY <1>12 DEF Qmux!Release, Qmux!Post, Qmux!link
  <2>2. Asked(o)' \subseteq Asked(o)
    BY <2>1 DEF Asked
  <2>3. Serial(o)' \in Nat /\ Serial(o)' >= Serial(o)
    BY <1>1, <2>1 DEF Serial
  <2> QED
    BY <2>1, <2>2, <2>3, TxnsPass, FewerUnchanged
<1>13. CASE Qmux!Grant \/ Qmux!Refuse \/ Qmux!TakeBack \/ Qmux!Answer \/ Qmux!Indicate
  <2>1. PICK f \in Qmux!Frame :
          /\ More(f)
          /\ \/ Grants(f) \/ Refuses(f) \/ TakesBack(f) \/ Answers(f) \/ Indicates(f)
    BY <1>13, Speaks
  <2>2. UNCHANGED Serial(o)
    BY <1>13, Speaks DEF Serial
  <2>3. CASE f.what \notin Told(o)
    <3>1. requests' \subseteq requests
      BY <2>1 DEF Grants, Refuses, TakesBack, Answers, Indicates
    <3>2. Asked(o)' \subseteq Asked(o)
      BY <3>1 DEF Asked
    <3> QED
      BY <2>1, <2>2, <2>3, <3>2, TxnsAside
  <2>4. CASE f.what \in Told(o)
    <3>1. PICK r \in requests : r.op = o /\ requests' = requests \ {r} /\ f.txn = r.txn
      BY <2>1, <2>4 DEF Told, Grants, Refuses, TakesBack, Answers, Indicates
    <3>2. r \in Asked(o) /\ Asked(o)' = Asked(o) \ {r}
      BY <3>1 DEF Asked
    <3> QED
      BY <2>1, <2>2, <3>1, <3>2, TxnsTell
  <2> QED
    BY <2>3, <2>4
<1> QED
  BY <1>4, <1>5, <1>7, <1>8, <1>9, <1>10, <1>11, <1>12, <1>13 DEF Qmux!Next, Qmux!CallStep

-----------------------------------------------------------------------------
LEMMA OwnersInductive ==
  ASSUME Qmux!TypeOK, CallAt, FromDaemon, OwnersOnce, [Qmux!Next]_(Qmux!vars) PROVE OwnersOnce'
<1>1. Qmux!CloseSocket => OwnersOnce'
  <2>1. Qmux!CloseSocket => /\ Asked("release")' = {} /\ Places({"grant"})' = {}
                            /\ Mine' = {} /\ kept' = {}
    BY DEF Qmux!CloseSocket, Asked, Places, Mine
  <2> QED
    BY <2>1 DEF OwnersOnce
<1>2. ASSUME Fewer, requests' \subseteq requests \cup Asked("set")' \cup Asked("alloc")',
             UNCHANGED <<clients, kept>>, Mine' \subseteq Mine
      PROVE  OwnersOnce'
  <2>1. Asked("release")' \subseteq Asked("release")
    BY <1>2 DEF Asked
  <2> QED
    BY <1>2, <2>1, OwnersPass
<1>3. \A r : Qmux!Post(r) /\ r.op \in {"set", "alloc"} =>
               requests' \subseteq requests \cup Asked("set")' \cup Asked("alloc")'
  BY DEF Qmux!Post, Asked
<1>4. \A r : Qmux!Post(r) => UNCHANGED <<qmuxSock, qmuxInbox, clients, kept>>
  BY DEF Qmux!Post
<1>5. CASE Qmux!Open
  <2>1. Mine' = {}
    BY <1>5 DEF Qmux!Open, Mine
  <2> QED
    BY <1>2, <1>5, <2>1, FewerUnchanged DEF Qmux!Open
<1>6. CASE Qmux!Close
  BY <1>1, <1>6 DEF Qmux!Close
<1>7. ASSUME NEW kind \in {"alloc", "band"}, Qmux!AllocSend(kind) PROVE OwnersOnce'
  <2> DEFINE q == [op |-> "alloc", txn |-> ctlTxn, cid |-> Qmux!NoCid]
  <2>1. (Qmux!Post(q) /\ qmuxPc' = "alloc") \/ Qmux!CloseSocket
    BY <1>7 DEF Qmux!AllocSend, Qmux!Goto
  <2>2. q.op = "alloc"
    OBVIOUS
  <2> HIDE DEF q
  <2>3. qmuxPc' = "alloc" => Mine' = {}
    BY DEF Mine
  <2> QED
    BY <1>1, <1>2, <1>3, <1>4, <2>1, <2>2, <2>3, FewerUnchanged
<1>8. CASE Qmux!TransactSend
  <2> DEFINE c == Qmux!Starting("band", svcTxn, call.cid)
             q == [op |-> "set", txn |-> svcTxn, cid |-> c.cid]
  <2>1. qmuxPc = "send" /\ ((Qmux!Post(q) /\ qmuxPc' = "transact" /\ call' = c) \/ Qmux!CloseSocket)
    BY <1>8 DEF Qmux!TransactSend, Qmux!Goto
  <2>2. q.op = "set" /\ c.cid = call.cid
    BY DEF Qmux!Starting, Qmux!NoCall
  <2> HIDE DEF q, c
  <2>3. Qmux!Post(q) /\ qmuxPc' = "transact" /\ call' = c => Mine' = Mine
    BY <1>4, <2>1, <2>2 DEF Mine
  <2> QED
    BY <1>1, <1>2, <1>3, <1>4, <2>1, <2>2, <2>3, FewerUnchanged
<1>9. GivesUp /\ UNCHANGED qmuxSock => Mine' = Mine
  BY DEF GivesUp, Mine, SameCall, Qmux!Waiting
<1>10. CASE Qmux!RecvFrame
  <2> DEFINE f == qmuxInbox[1]
  <2>1. /\ UNCHANGED <<qmuxSock, requests, clients>>
        /\ Fewer /\ Qmux!Waiting /\ 1 \in DOMAIN qmuxInbox /\ f \in Qmux!Frame
        /\ (\/ Overflows \/ (GivesUp /\ UNCHANGED kept)
            \/ TakesAnswer(f) \/ TakesGrant(f) \/ Skips(f))
    BY <1>10, Received
  <2>2. CASE TakesGrant(f)
    <3>1. 1 \in Places({"grant"})
      BY <2>1, <2>2, FramesAreNotBody DEF TakesGrant, Places
    <3>2. Mine = {}
      BY <2>2 DEF TakesGrant, Mine
    <3>3. qmuxSock' = TRUE
      BY <2>1, <2>2 DEF TakesGrant, CallAt, Qmux!TypeOK
    <3> HIDE DEF f
    <3>4. \/ Mine' = {f.cid} /\ UNCHANGED kept
          \/ Mine' = {} /\ kept' = kept \cup {f.cid}
      BY <2>2, <3>3 DEF TakesGrant, Mine
    <3> QED
      BY <2>1, <2>2, <3>1, <3>2, <3>4, OwnersTake DEF TakesGrant, f
  <2>3. CASE ~TakesGrant(f)
    <3>1. UNCHANGED kept
      BY <2>1, <2>3 DEF Overflows, TakesAnswer, Skips
    <3>2. Mine' = Mine
      BY <1>9, <2>1, <2>3 DEF Overflows, TakesAnswer, Skips, SameCall, Mine
    <3> QED
      BY <1>2, <2>1, <3>1, <3>2
  <2> QED
    BY <2>2, <2>3
<1>11. CASE Qmux!RecvGarbage \/ Qmux!RecvTimeout \/ UNCHANGED Qmux!vars
  <2>1. UNCHANGED <<qmuxSock, qmuxInbox, requests, clients, kept>>
    BY <1>11 DEF Qmux!RecvGarbage, Qmux!RecvTimeout, Qmux!vars, Qmux!link
  <2>2. Mine' \subseteq Mine
    BY <1>11, <2>1
    DEF Mine, Qmux!RecvGarbage, Qmux!RecvTimeout, Qmux!vars, Qmux!Fail, Qmux!Goto, Qmux!Waiting,
        Qmux!TypeOK
  <2> QED
    BY <1>2, <2>1, <2>2, FewerUnchanged
<1>12. CASE Qmux!RecvFails
  BY <1>1, <1>12 DEF Qmux!RecvFails
<1>13. CASE Qmux!Release
  <2> DEFINE q == [op |-> "release", txn |-> ctlTxn, cid |-> call.cid]
  <2>1. /\ qmuxPc = "release" /\ qmuxPc' = "idle"
        /\ UNCHANGED <<qmuxSock, qmuxInbox, clients, kept>>
        /\ requests' = requests \/ (qmuxSock /\ requests' \subseteq requests \cup {q})
    BY <1>13 DEF Qmux!Release, Qmux!Goto, Qmux!Post, Qmux!link
  <2>2. q.cid = call.cid
    OBVIOUS
  <2> HIDE DEF q
  <2>3. Mine' = {}
    BY <2>1 DEF Mine
  <2>4. CASE requests' = requests
    BY <1>2, <2>1, <2>3, <2>4, FewerUnchanged
  <2>5. CASE qmuxSock /\ requests' \subseteq requests \cup {q}
    <3>1. Mine = {q.cid}
      BY <2>1, <2>2, <2>5 DEF Mine
    <3>2. Asked("release")' \subseteq Asked("release") \cup {q}
      BY <2>5 DEF Asked
    <3> QED
      BY <2>1, <2>3, <3>1, <3>2, OwnersRelease
  <2> QED
    BY <2>1, <2>4, <2>5
<1>14. CASE Qmux!Grant \/ Qmux!Refuse \/ Qmux!TakeBack \/ Qmux!Answer \/ Qmux!Indicate
  <2>1. PICK f \in Qmux!Frame :
          /\ More(f)
          /\ \/ Grants(f) \/ Refuses(f) \/ TakesBack(f) \/ Answers(f) \/ Indicates(f)
    BY <1>14, Speaks
  <2>2. UNCHANGED <<kept, Mine>>
    BY <1>14, Speaks DEF Mine
  <2>3. CASE Grants(f)
    <3>1. UNCHANGED Asked("release")
      BY <2>3 DEF Grants, Asked
    <3>2. f.svc = "ctl" /\ f.cid \notin clients /\ clients' = clients \cup {f.cid}
      BY <2>3 DEF Grants
    <3> QED
      BY <2>1, <2>2, <3>1, <3>2, OwnersGrant
  <2>4. CASE TakesBack(f)
    <3>1. PICK r \in Asked("release") : requests' = requests \ {r} /\ clients' = clients \ {r.cid}
      BY <2>4 DEF TakesBack, Asked
    <3>2. Asked("release")' = Asked("release") \ {r}
      BY <3>1 DEF Asked
    <3>3. f.what # "grant"
      BY <2>4 DEF TakesBack
    <3> QED
      BY <2>1, <2>2, <3>1, <3>2, <3>3, OwnersAside
  <2>5. CASE Refuses(f) \/ Answers(f) \/ Indicates(f)
    <3>1. f.what # "grant" /\ requests' \subseteq requests /\ UNCHANGED clients
      BY <2>5 DEF Refuses, Answers, Indicates
    <3>2. Asked("release")' \subseteq Asked("release")
      BY <3>1 DEF Asked
    <3> QED
      BY <2>1, <2>2, <3>1, <3>2, OwnersAside
  <2> QED
    BY <2>1, <2>3, <2>4, <2>5
<1> QED
  BY <1>5, <1>6, <1>7, <1>8, <1>10, <1>11, <1>12, <1>13, <1>14 DEF Qmux!Next, Qmux!CallStep

-----------------------------------------------------------------------------
(* The answer that is taken was the only one, and no other comes.          *)
LEMMA DoneTaken ==
  ASSUME NEW o, Qmux!TypeOK, TxnsOnce(o), UNCHANGED requests,
         1 \in Places(Told(o)), qmuxInbox' = Tail(qmuxInbox), call'.txn = qmuxInbox[1].txn
  PROVE  Done(o)'
<1> DEFINE w == Told(o)
<1>1. w' = w /\ UNCHANGED Asked(o)
  BY DEF Told, Asked
<1>2. qmuxInbox # <<>>
  BY DEF Places
<1>3. ASSUME NEW n \in Places(w)' PROVE qmuxInbox'[n].txn # call'.txn
  <2> DEFINE m == n + 1
  <2>1. m \in Places(w) /\ m # 1 /\ qmuxInbox'[n] = qmuxInbox[m]
    BY <1>1, <1>2, <1>3, TakesFirst, WaitingTypes DEF Places
  <2> HIDE DEF m
  <2> QED
    BY <2>1 DEF TxnsOnce
<1>4. \A r \in Asked(o)' : r.txn # call'.txn
  BY <1>1 DEF TxnsOnce
<1> QED
  BY <1>1, <1>3, <1>4 DEF Done

LEMMA DoneStays ==
  ASSUME NEW o, Qmux!TypeOK, Done(o), UNCHANGED call, Asked(o)' \subseteq Asked(o),
         NEW f \in Qmux!Frame, More(f), f.what \in Told(o) => \E r \in Asked(o) : f.txn = r.txn
  PROVE  Done(o)'
<1> DEFINE w == Told(o)
<1>1. /\ w' = w
      /\ Places(w)' = Places(w) \cup {n \in {Len(qmuxInbox) + 1} : f.what \in w}
      /\ \A n \in Places(w) : qmuxInbox'[n] = qmuxInbox[n]
      /\ qmuxInbox'[Len(qmuxInbox) + 1] = f
  BY MorePlaces DEF Told
<1>2. f.what \in w => f.txn # call.txn
  BY DEF Done
<1>3. \A n \in Places(w) : qmuxInbox[n].txn # call.txn
  BY DEF Done
<1>4. \A r \in Asked(o)' : r.txn # call'.txn
  BY DEF Done
<1>5. \A n \in Places(w)' : qmuxInbox'[n].txn # call'.txn
  BY <1>1, <1>2, <1>3
<1> QED
  BY <1>1, <1>4, <1>5 DEF Done

LEMMA AnsweredInductive ==
  ASSUME QmuxInv, [Qmux!Next]_(Qmux!vars) PROVE Answered'
<1> USE DEF QmuxInv
<1>1. Qmux!CloseSocket /\ (qmuxPc' = "release" => call'.what # "answer") => Answered'
  BY DEF Qmux!CloseSocket, Answered
<1>2. CASE Qmux!Open \/ Qmux!Close
  <2>1. qmuxPc' = "idle" /\ call'.kind = "none"
    BY <1>2 DEF Qmux!Open, Qmux!Close, Qmux!NoCall
  <2> QED
    BY <2>1 DEF Answered
<1>3. CASE \E kind \in {"alloc", "band"} : Qmux!AllocSend(kind)
  <2>1. qmuxPc' = "alloc" \/ (qmuxPc' = "idle" /\ Qmux!CloseSocket)
    BY <1>3 DEF Qmux!AllocSend, Qmux!Goto
  <2> QED
    BY <1>1, <2>1 DEF Answered
<1>4. CASE Qmux!TransactSend
  <2> DEFINE c == Qmux!Starting("band", svcTxn, call.cid)
  <2>1. \/ qmuxPc' = "transact"
        \/ qmuxPc' = "release" /\ Qmux!CloseSocket /\ call' = [c EXCEPT !.rc = "SEND_FAIL"]
    BY <1>4 DEF Qmux!TransactSend, Qmux!Goto
  <2>2. [c EXCEPT !.rc = "SEND_FAIL"].what = "none"
    BY DEF Qmux!Starting, Qmux!NoCall
  <2> HIDE DEF c
  <2> QED
    BY <1>1, <2>1, <2>2 DEF Answered
<1>5. ASSUME GivesUp PROVE Answered' /\ (qmuxPc' = "release" => call'.what # "answer")
  BY <1>5 DEF GivesUp, SameCall, Qmux!Waiting, CallAt, Answered
<1>6. CASE Qmux!RecvFrame
  <2> DEFINE f == qmuxInbox[1]
  <2>1. /\ UNCHANGED requests /\ Qmux!Waiting /\ 1 \in DOMAIN qmuxInbox /\ f \in Qmux!Frame
        /\ (\/ Overflows \/ (GivesUp /\ UNCHANGED kept)
            \/ TakesAnswer(f) \/ TakesGrant(f) \/ Skips(f))
    BY <1>6, Received
  <2> HIDE DEF f
  <2>2. CASE Overflows \/ GivesUp
    BY <1>5, <2>2 DEF Overflows
  <2>3. CASE TakesAnswer(f)
    <3>1. qmuxPc' = "release" /\ call'.what = f.what /\ call'.txn = f.txn
          /\ qmuxInbox' = Tail(qmuxInbox)
      BY <2>3 DEF TakesAnswer
    <3>2. CASE f.what = "answer"
      <4>1. 1 \in Places(Told("set"))
        BY <2>1, <3>2, FramesAreNotBody DEF Places, Told, f
      <4> QED
        BY <2>1, <3>1, <4>1, DoneTaken DEF Answered, f
    <3> QED
      BY <3>1, <3>2 DEF Answered
  <2>4. CASE TakesGrant(f)
    <3>1. qmuxPc' \in {"idle", "send"} /\ call'.txn = f.txn /\ qmuxInbox' = Tail(qmuxInbox)
          /\ f.what = "grant"
      BY <2>4 DEF TakesGrant
    <3>2. 1 \in Places(Told("alloc"))
      BY <2>1, <3>1, FramesAreNotBody DEF Places, Told, f
    <3> QED
      BY <2>1, <3>1, <3>2, DoneTaken DEF Answered, f
  <2>5. CASE Skips(f)
    BY <2>1, <2>5 DEF Skips, Answered, Qmux!Waiting
  <2> QED
    BY <2>1, <2>2, <2>3, <2>4, <2>5
<1>7. call \in CallRecord
  BY DEF Qmux!TypeOK, CallRecord
<1>8. CASE Qmux!RecvGarbage
  <2>1. Qmux!Waiting /\ (Qmux!Fail(call, "BUF_OVERFLOW") \/ qmuxPc' = qmuxPc)
    BY <1>8 DEF Qmux!RecvGarbage, Qmux!Goto
  <2>2. CASE Qmux!Fail(call, "BUF_OVERFLOW")
    BY <1>5, <1>7, <2>1, <2>2, Failing DEF Qmux!Codes
  <2> QED
    BY <2>1, <2>2 DEF Answered, Qmux!Waiting
<1>9. CASE Qmux!RecvFails
  <2>1. PICK rc \in {"RECV_FAIL", "PROTO"} : Qmux!Fail(call, rc)
    BY <1>9 DEF Qmux!RecvFails
  <2>2. rc \in Qmux!Codes \ {"ok"} /\ Qmux!Waiting
    BY <1>9 DEF Qmux!RecvFails, Qmux!Codes
  <2> QED
    BY <1>5, <1>7, <2>1, <2>2, Failing
<1>10. CASE Qmux!RecvTimeout
  BY <1>5, <1>7, <1>10, Failing DEF Qmux!RecvTimeout, Qmux!Codes
<1>11. CASE Qmux!Release
  <2>1. qmuxPc' = "idle" /\ call'.kind = "band"
    BY <1>11 DEF Qmux!Release, Qmux!Goto, CallAt
  <2> QED
    BY <2>1 DEF Answered
<1>12. CASE Qmux!Grant \/ Qmux!Refuse \/ Qmux!TakeBack \/ Qmux!Answer \/ Qmux!Indicate
  <2>1. PICK f \in Qmux!Frame :
          /\ More(f)
          /\ \/ Grants(f) \/ Refuses(f) \/ TakesBack(f) \/ Answers(f) \/ Indicates(f)
    BY <1>12, Speaks
  <2>2. UNCHANGED <<qmuxSock, qmuxPc, call>>
    BY <1>12, Speaks
  <2>3. ASSUME NEW o \in {"set", "alloc"}, Done(o) PROVE Done(o)'
    <3>1. requests' \subseteq requests
      BY <2>1 DEF Grants, Refuses, TakesBack, Answers, Indicates
    <3>2. Asked(o)' \subseteq Asked(o)
      BY <3>1 DEF Asked
    <3>3. f.what \in Told(o) => \E r \in Asked(o) : f.txn = r.txn
      BY <2>1 DEF Told, Asked, Grants, Refuses, TakesBack, Answers, Indicates
    <3> QED
      BY <2>1, <2>2, <2>3, <3>2, <3>3, DoneStays
  <2> QED
    BY <2>2, <2>3 DEF Answered
<1>13. CASE UNCHANGED Qmux!vars
  <2>1. UNCHANGED <<qmuxSock, qmuxPc, call, requests, qmuxInbox>>
    BY <1>13 DEF Qmux!vars, Qmux!link
  <2>2. \A o \in {"set", "alloc"} : Done(o)' = Done(o)
    BY <2>1 DEF Done, Asked, Places, Told
  <2> QED
    BY <2>1, <2>2 DEF Answered
<1> QED
  BY <1>2, <1>3, <1>4, <1>6, <1>8, <1>9, <1>10, <1>11, <1>12, <1>13 DEF Qmux!Next, Qmux!CallStep

LEMMA QmuxInvariant == TransportsSpec => []QmuxInv
<1>1. QmuxInv /\ [Qmux!Next]_(Qmux!vars) => QmuxInv'
  <2> SUFFICES ASSUME QmuxInv, [Qmux!Next]_(Qmux!vars) PROVE QmuxInv'
    OBVIOUS
  <2>1. TxnsOnce("set")' /\ TxnsOnce("alloc")'
    BY TxnsInductive DEF QmuxInv
  <2> QED
    BY <2>1, QmuxTypes, OwnersInductive, FromDaemonInductive, AnsweredInductive DEF QmuxInv
<1> QED
  BY <1>1, QmuxStart, QmuxSteps, QmuxInitially, PTL DEF TransportsSpec

(* A response that a call over QMUX accepts answers its own request, and a *)
(* client id that a call has in hand is its own: for all client ids,       *)
(* budgets, numbers of transactions and of frames that wait.               *)
THEOREM AnswerIsOwnTheorem == TransportsSpec => []AnswerIsOwn
<1>1. ASSUME QmuxInv PROVE AnswerIsOwn
  <2>1. ASSUME NEW o \in {"set", "alloc"}, Done(o)
        PROVE  ~Qmux!Outstanding(o, call.txn, Told(o))
    BY <1>1, <2>1 DEF Done, Asked, Places, Qmux!Outstanding, Qmux!ToSet
  <2>2. qmuxPc = "release" /\ call.what = "answer" => ~Qmux!Outstanding("set", call.txn, {"answer"})
    BY <1>1, <2>1 DEF QmuxInv, Answered, Told
  <2>3. qmuxPc = "idle" /\ qmuxSock /\ call.kind = "alloc" /\ call.rc = "ok"
          => ~Qmux!Outstanding("alloc", call.txn, {"grant", "refusal"})
    BY <1>1, <2>1 DEF QmuxInv, Answered, Told
  <2>4. qmuxPc = "send" => call.cid \in clients \ kept
    BY <1>1 DEF QmuxInv, CallAt, OwnersOnce, Mine
  <2> QED
    BY <2>2, <2>3, <2>4 DEF AnswerIsOwn, Qmux!AnswerIsOwn, Qmux!Idle
<1> QED
  BY <1>1, QmuxInvariant, PTL

-----------------------------------------------------------------------------
(* The ids of the releases on their way, and those of the grants that the  *)
(* call waits for.                                                         *)
Expected(cid) ==
  \E n \in Places({"grant"}) : /\ qmuxPc = "alloc" /\ qmuxInbox[n].txn = call.txn
                              /\ qmuxInbox[n].cid = cid

LEMMA Expecting ==
  /\ qmuxPc \notin {"send", "transact", "release"} =>
       \A cid : cid \in Qmux!InHand <=> Expected(cid)
  /\ qmuxPc' \notin {"send", "transact", "release"} =>
       \A cid : cid \in Qmux!InHand' <=> Expected(cid)'
<1>1. ASSUME qmuxPc \notin {"send", "transact", "release"}
      PROVE  \A cid : cid \in Qmux!InHand <=> Expected(cid)
  <2>1. Qmux!InHand = {f.cid : f \in {g \in Qmux!ToSet(qmuxInbox) \ {Qmux!Body} :
                                        g.what = "grant" /\ qmuxPc = "alloc" /\ g.txn = call.txn}}
    BY <1>1 DEF Qmux!InHand
  <2> QED
    BY <2>1 DEF Qmux!ToSet, Places, Expected
<1>2. ASSUME qmuxPc' \notin {"send", "transact", "release"}
      PROVE  \A cid : cid \in Qmux!InHand' <=> Expected(cid)'
  <2>1. Qmux!InHand' = {f.cid : f \in {g \in Qmux!ToSet(qmuxInbox)' \ {Qmux!Body} :
                                         g.what = "grant" /\ qmuxPc' = "alloc" /\ g.txn = call'.txn}}
    BY <1>2 DEF Qmux!InHand
  <2> QED
    BY <2>1 DEF Qmux!ToSet, Places, Expected
<1> QED
  BY <1>1, <1>2

LEMMA ReleasingAsked ==
  /\ \A cid : cid \in Qmux!Releasing <=> \E r \in Asked("release") : r.cid = cid
  /\ \A cid : cid \in Qmux!Releasing' <=> \E r \in Asked("release")' : r.cid = cid
  BY DEF Qmux!Releasing, Asked

(* Who gives an id away: the four cases of the property.                   *)
Explained ==
  \/ Qmux!Orphans' \subseteq Qmux!Orphans
  \/ qmuxPc = "alloc" /\ qmuxPc' = "idle" /\ call'.rc # "ok"
  \/ \E r \in requests \ requests' : r.op = "alloc" /\ ~(qmuxPc = "alloc" /\ r.txn = call.txn)
  \/ Qmux!Release /\ torn'

LEMMA NoClients ==
  ASSUME clients' = {} PROVE Explained
  BY DEF Explained, Qmux!Orphans, Qmux!Unaccounted

LEMMA NothingLost ==
  ASSUME clients' \subseteq clients, kept \subseteq kept',
         \A r \in Asked("release") : r \in Asked("release")' \/ r.cid \notin clients',
         Qmux!InHand \subseteq Qmux!InHand' \cup kept' \cup Qmux!Releasing'
  PROVE  Explained
<1>1. \A cid \in clients' : cid \in Qmux!Releasing => cid \in Qmux!Releasing'
  BY ReleasingAsked
<1> QED
  BY <1>1 DEF Explained, Qmux!Orphans, Qmux!Unaccounted

LEMMA OrphansStep ==
  ASSUME QmuxInv, Qmux!Next PROVE Explained
<1>1. Qmux!TypeOK /\ CallAt /\ FromDaemon /\ OwnersOnce /\ TxnsOnce("alloc")
  BY DEF QmuxInv
<1>2. Qmux!CloseSocket => Explained
  BY NoClients DEF Qmux!CloseSocket
<1>3. ASSUME UNCHANGED <<clients, kept>>, requests \subseteq requests',
             Qmux!InHand \subseteq Qmux!InHand'
      PROVE  Explained
  <2>1. Asked("release") \subseteq Asked("release")'
    BY <1>3 DEF Asked
  <2> QED
    BY <1>3, <2>1, NothingLost
<1>4. \A r : Qmux!Post(r) => UNCHANGED <<clients, kept, qmuxInbox>> /\ requests \subseteq requests'
  BY DEF Qmux!Post
<1>5. CASE Qmux!Open
  BY <1>1, <1>5, NoClients DEF Qmux!Open, CallAt
<1>6. CASE Qmux!Close
  BY <1>2, <1>6 DEF Qmux!Close
<1>7. ASSUME NEW kind \in {"alloc", "band"}, Qmux!AllocSend(kind) PROVE Explained
  <2>1. Qmux!InHand = {}
    BY <1>7, Expecting DEF Qmux!AllocSend, Expected
  <2> QED
    BY <1>2, <1>3, <1>4, <1>7, <2>1 DEF Qmux!AllocSend
<1>8. CASE Qmux!TransactSend
  <2> DEFINE c == Qmux!Starting("band", svcTxn, call.cid)
             q == [op |-> "set", txn |-> svcTxn, cid |-> c.cid]
  <2>1. qmuxPc = "send" /\ ((Qmux!Post(q) /\ qmuxPc' = "transact" /\ call' = c) \/ Qmux!CloseSocket)
    BY <1>8 DEF Qmux!TransactSend, Qmux!Goto
  <2>2. c.cid = call.cid
    BY DEF Qmux!Starting, Qmux!NoCall
  <2> HIDE DEF q, c
  <2>3. qmuxPc' = "transact" /\ call' = c => Qmux!InHand' = Qmux!InHand
    BY <2>1, <2>2 DEF Qmux!InHand
  <2> QED
    BY <1>2, <1>3, <1>4, <2>1, <2>3
<1>9. ASSUME GivesUp, UNCHANGED <<clients, kept, requests>> PROVE Explained
  <2>1. CASE qmuxPc = "alloc"
    BY <1>9, <2>1 DEF GivesUp, Explained
  <2>2. CASE qmuxPc # "alloc"
    <3>1. qmuxPc = "transact" /\ qmuxPc' = "release" /\ call'.cid = call.cid
      BY <1>9, <2>2 DEF GivesUp, Qmux!Waiting, SameCall
    <3>2. Qmux!InHand' = Qmux!InHand
      BY <3>1 DEF Qmux!InHand
    <3> QED
      BY <1>3, <1>9, <3>2
  <2> QED
    BY <2>1, <2>2
<1>10. CASE Qmux!RecvFrame
  <2> DEFINE f == qmuxInbox[1]
  <2>1. /\ UNCHANGED <<qmuxSock, requests, clients>>
        /\ qmuxInbox # <<>> /\ Qmux!Waiting /\ 1 \in DOMAIN qmuxInbox /\ f \in Qmux!Frame
        /\ (\/ Overflows \/ (GivesUp /\ UNCHANGED kept)
            \/ TakesAnswer(f) \/ TakesGrant(f) \/ Skips(f))
    BY <1>1, <1>10, Received
  <2> HIDE DEF f
  <2>2. CASE Overflows \/ (GivesUp /\ UNCHANGED kept)
    BY <1>9, <2>1, <2>2 DEF Overflows
  <2>3. CASE TakesAnswer(f)
    <3>1. Qmux!InHand' = Qmux!InHand /\ UNCHANGED kept
      BY <2>3 DEF TakesAnswer, Qmux!InHand
    <3> QED
      BY <1>3, <2>1, <3>1
  <2>4. CASE TakesGrant(f)
    <3>1. /\ qmuxPc = "alloc" /\ f.txn = call.txn /\ f.what = "grant"
          /\ \/ qmuxPc' = "send" /\ call'.cid = f.cid /\ kept' = kept
             \/ kept' = kept \cup {f.cid}
      BY <2>4 DEF TakesGrant
    <3>2. 1 \in Places(Told("alloc")) /\ Places({"grant"}) \subseteq Places(Told("alloc"))
      BY <2>1, <3>1, FramesAreNotBody DEF Places, Told, f
    <3>3. \A n \in Places({"grant"}) : qmuxInbox[n].txn = call.txn => n = 1
      BY <1>1, <3>1, <3>2 DEF TxnsOnce, f
    <3>4. \A cid : cid \in Qmux!InHand => cid = f.cid
      BY <3>1, <3>3, Expecting DEF Expected, f
    <3>5. f.cid \in Qmux!InHand' \cup kept'
      BY <3>1 DEF Qmux!InHand
    <3>6. Asked("release") = Asked("release")'
      BY <2>1 DEF Asked
    <3> QED
      BY <2>1, <3>1, <3>4, <3>5, <3>6, NothingLost
  <2>5. CASE Skips(f)
    <3>1. UNCHANGED <<qmuxPc, kept>> /\ call'.cid = call.cid /\ call'.txn = call.txn
          /\ qmuxInbox' = Tail(qmuxInbox) /\ ~Qmux!Matches(f)
      BY <2>5 DEF Skips, SameCall
    <3>2. CASE qmuxPc = "transact"
      <4>1. Qmux!InHand' = Qmux!InHand
        BY <3>1, <3>2 DEF Qmux!InHand
      <4> QED
        BY <1>3, <2>1, <3>1, <4>1
    <3>3. CASE qmuxPc = "alloc"
      <4>1. ASSUME NEW cid, NEW n \in Places({"grant"}), qmuxInbox[n].txn = call.txn,
                   qmuxInbox[n].cid = cid
            PROVE  Expected(cid)'
        <5>1. n # 1
          BY <1>1, <3>1, <3>3, <4>1 DEF OwnersOnce, Places, Qmux!Matches, f
        <5> DEFINE m == n - 1
        <5>2. n \in 1 .. Len(qmuxInbox) /\ Len(qmuxInbox) \in Nat
          BY <1>1, WaitingTypes DEF Places
        <5>3. m \in 1 .. Len(qmuxInbox) - 1 /\ m + 1 = n
          BY <5>1, <5>2
        <5> HIDE DEF m
        <5>4. m \in DOMAIN qmuxInbox' /\ qmuxInbox'[m] = qmuxInbox[n]
          BY <1>1, <2>1, <3>1, <5>3, TakesFirst
        <5>5. m \in Places({"grant"})'
          BY <5>4 DEF Places
        <5> QED
          BY <3>1, <3>3, <4>1, <5>4, <5>5 DEF Expected
      <4>2. Qmux!InHand \subseteq Qmux!InHand'
        BY <3>1, <3>3, <4>1, Expecting DEF Expected
      <4> QED
        BY <1>3, <2>1, <3>1, <4>2
    <3> QED
      BY <2>1, <3>2, <3>3 DEF Qmux!Waiting
  <2> QED
    BY <2>1, <2>2, <2>3, <2>4, <2>5
<1>11. call \in CallRecord
  BY <1>1 DEF Qmux!TypeOK, CallRecord
<1>12. CASE Qmux!RecvGarbage
  <2>1. Qmux!Waiting /\ UNCHANGED <<clients, kept, requests, qmuxInbox>>
    BY <1>12 DEF Qmux!RecvGarbage, Qmux!link
  <2>2. CASE Qmux!Fail(call, "BUF_OVERFLOW")
    BY <1>9, <1>11, <2>1, <2>2, Failing DEF Qmux!Codes
  <2>3. CASE Qmux!Goto(qmuxPc, [call EXCEPT !.tries = @ + 1])
    <3>1. UNCHANGED qmuxPc /\ call'.cid = call.cid /\ call'.txn = call.txn
      BY <1>11, <2>3 DEF Qmux!Goto, CallRecord
    <3>2. Qmux!InHand' = Qmux!InHand
      BY <2>1, <3>1 DEF Qmux!InHand, Qmux!ToSet
    <3> QED
      BY <1>3, <2>1, <3>2
  <2> QED
    BY <1>12, <2>2, <2>3 DEF Qmux!RecvGarbage
<1>13. CASE Qmux!RecvFails
  BY <1>2, <1>13 DEF Qmux!RecvFails
<1>14. CASE Qmux!RecvTimeout
  BY <1>9, <1>11, <1>14, Failing DEF Qmux!RecvTimeout, Qmux!Codes, Qmux!link
<1>15. CASE Qmux!Release
  <2> DEFINE q == [op |-> "release", txn |-> ctlTxn, cid |-> call.cid]
  <2>1. /\ qmuxPc = "release" /\ UNCHANGED <<clients, kept>>
        /\ \/ ~qmuxSock
           \/ torn' = TRUE
           \/ requests' = requests \cup {q}
    BY <1>15 DEF Qmux!Release, Qmux!Post, Qmux!link, Qmux!Goto, QmuxInv, Qmux!TypeOK
  <2>2. CASE ~qmuxSock
    BY <1>1, <2>1, <2>2, NoClients DEF CallAt
  <2>3. CASE torn' = TRUE
    BY <1>15, <2>3 DEF Explained
  <2>4. CASE requests' = requests \cup {q}
    <3>1. q.op = "release" /\ q.cid = call.cid /\ q \in requests'
      BY <2>4
    <3>2. call.cid \in Qmux!Releasing' /\ Asked("release") \subseteq Asked("release")'
      BY <2>4, <3>1 DEF Qmux!Releasing, Asked
    <3>3. Qmux!InHand = {call.cid}
      BY <2>1 DEF Qmux!InHand
    <3> QED
      BY <2>1, <3>2, <3>3, NothingLost
  <2> QED
    BY <2>1, <2>2, <2>3, <2>4
<1>16. CASE Qmux!Grant \/ Qmux!Refuse \/ Qmux!TakeBack \/ Qmux!Answer \/ Qmux!Indicate
  <2>1. PICK f \in Qmux!Frame :
          /\ More(f)
          /\ \/ Grants(f) \/ Refuses(f) \/ TakesBack(f) \/ Answers(f) \/ Indicates(f)
    BY <1>1, <1>16, Speaks
  <2>2. UNCHANGED <<kept, qmuxPc, call>>
    BY <1>1, <1>16, Speaks
  <2>3. Qmux!InHand \subseteq Qmux!InHand'
    <3>1. CASE qmuxPc \in {"send", "transact", "release"}
      BY <2>2, <3>1 DEF Qmux!InHand
    <3>2. CASE qmuxPc \notin {"send", "transact", "release"}
      <4>1. \A cid : Expected(cid) => Expected(cid)'
        BY <2>1, <2>2, MorePlaces DEF Expected
      <4> QED
        BY <2>2, <3>2, <4>1, Expecting
    <3> QED
      BY <3>1, <3>2
  <2>4. CASE Grants(f)
    <3>1. PICK r \in requests : /\ r.op = "alloc" /\ requests' = requests \ {r} /\ f.txn = r.txn
                                /\ clients' = clients \cup {f.cid} /\ f.what = "grant"
      BY <2>4 DEF Grants
    <3>2. CASE ~(qmuxPc = "alloc" /\ r.txn = call.txn)
      BY <3>1, <3>2 DEF Explained
    <3>3. CASE qmuxPc = "alloc" /\ r.txn = call.txn
      <4>1. Len(qmuxInbox) + 1 \in Places({"grant"})' /\ qmuxInbox'[Len(qmuxInbox) + 1] = f
        BY <2>1, <3>1, MorePlaces
      <4>2. f.cid \in Qmux!InHand'
        BY <2>2, <3>1, <3>3, <4>1, Expecting DEF Expected
      <4>3. Asked("release") \subseteq Asked("release")'
        BY <3>1 DEF Asked
      <4>4. Qmux!Releasing \subseteq Qmux!Releasing'
        BY <4>3, ReleasingAsked
      <4> QED
        BY <2>2, <2>3, <3>1, <4>2, <4>4 DEF Explained, Qmux!Orphans, Qmux!Unaccounted
    <3> QED
      BY <3>2, <3>3
  <2>5. CASE ~Grants(f)
    <3>1. clients' \subseteq clients /\ \A r \in Asked("release") : r \in Asked("release")' \/ r.cid \notin clients'
      BY <2>1, <2>5 DEF Refuses, TakesBack, Answers, Indicates, Asked
    <3> QED
      BY <2>2, <2>3, <3>1, NothingLost
  <2> QED
    BY <2>4, <2>5
<1> QED
  BY <1>5, <1>6, <1>7, <1>8, <1>10, <1>12, <1>13, <1>14, <1>15, <1>16 DEF Qmux!Next, Qmux!CallStep

(* A client id is orphaned only by an allocation that was given up, or is  *)
(* granted after that, or by a release that could not be written: once     *)
(* qmuxSetBandPref has its client, no failure loses it.                    *)
THEOREM OrphansExplainedTheorem == TransportsSpec => OrphansExplained
<1>1. ASSUME QmuxInv, [Qmux!Next]_(Qmux!vars)
      PROVE  [\/ Qmux!Orphans' \subseteq Qmux!Orphans
              \/ qmuxPc = "alloc" /\ qmuxPc' = "idle" /\ call'.rc # "ok"
              \/ \E r \in requests \ requests' :
                   r.op = "alloc" /\ ~(qmuxPc = "alloc" /\ r.txn = call.txn)
              \/ Qmux!Release /\ torn']_(Qmux!vars)
  BY <1>1, OrphansStep DEF Explained
<1>2. []QmuxInv /\ [][Qmux!Next]_(Qmux!vars) => OrphansExplained
  BY <1>1, PTL DEF OrphansExplained, Qmux!OrphansExplained
<1> QED
  BY <1>2, QmuxSteps, QmuxInvariant, PTL DEF TransportsSpec

-----------------------------------------------------------------------------
(* The operations over QRTR.  The requests whose replies are not read: the *)
(* modem has not answered them, or their reply waits in the socket.        *)
Ids     == (1 .. MaxOps) \X (1 .. Items)
ReplyAt == {n \in DOMAIN qrtrInbox : qrtrInbox[n].what = "reply"}
Waits(id) == \E n \in ReplyAt : qrtrInbox[n].id = id
Open(id)  == id \in qrtrPending \/ Waits(id)

(* They are of this operation, sent already, and for the band preference   *)
(* the first one is read before the second one is sent.                    *)
OpenAreOwn ==
  \A id : Open(id) =>
    /\ id[1] = ops /\ id[2] \in 1 .. i /\ id = <<id[1], id[2]>>
    /\ qrtrPc = "send" => id[2] # i
    /\ Qrtr!IsBand(op) /\ i # 1 => id[2] # 1

RepliesOnce ==
  \A n \in ReplyAt :
    /\ qrtrInbox[n].id \notin qrtrPending
    /\ qrtrInbox[n].verdict = "accepted" => qrtrInbox[n].id[2] \in accepted
    /\ \A m \in ReplyAt : qrtrInbox[m].id = qrtrInbox[n].id => m = n

(* A lookup comes before all requests.  What an operation has counted as a *)
(* success the modem did accept, and it returns 0 with a success only.     *)
OperationAt ==
  /\ qrtrPc = "lookup" => /\ accepted = {} /\ success = FALSE
                          /\ \A id : ~Open(id)
  /\ qrtrPc # "idle" => i \in 1 .. Qrtr!LastRequest /\ qrtrRc = "none" /\ ops # 0
  /\ success = TRUE => IF Qrtr!IsBand(op) THEN 1 \in accepted ELSE accepted # {}
  /\ qrtrRc = "ok" => success = TRUE

(* The reply to a request that the modem carried out waits or was taken.   *)
AcceptedIsTold ==
  qrtrSock = TRUE =>
    \A id : id = <<ops, id[2]>> /\ id[2] \in accepted => Waits(id) \/ id[2] \in Qrtr!Judged

(* A reply that was taken for the one to a request of the band preference  *)
(* is the one to that request.                                             *)
QrtrInv ==
  /\ Qrtr!TypeOK /\ OpenAreOwn /\ RepliesOnce /\ OperationAt
  /\ Qrtr!BandCreditsOwn /\ AcceptedIsTold

LEMMA QrtrAssumed ==
  /\ Kinds \subseteq {"band", "bandNr", "probe", "clear"}
  /\ Flood \in BOOLEAN /\ Items \in Nat \ {0, 1} /\ MaxNoise \in Nat /\ MaxOps \in Nat
  BY TransportsAssumption DEF Qrtr!QrtrAssumption

LEMMA QrtrSteps == [TransportsNext]_allVars => [Qrtr!Next]_(Qrtr!vars)
  BY DEF TransportsNext, IdsMove, DiagMoves, GatherMoves, QmuxMoves, QrtrMoves,
         ListMoves, ProbeMoves, VendorMoves, allVars, qrtrVars, Qrtr!wire, Qrtr!local, Qrtr!vars

LEMMA QrtrStart == TransportsInit => Qrtr!Init
  BY DEF TransportsInit

LEMMA QrtrInitially == Qrtr!Init => QrtrInv
<1> SUFFICES ASSUME Qrtr!Init PROVE QrtrInv
  OBVIOUS
<1>1. qrtrInbox \in Seq(Qrtr!Datagram) /\ ReplyAt = {}
  BY EmptySeq DEF Qrtr!Init, ReplyAt
<1>2. \A id : ~Open(id)
  BY <1>1 DEF Open, Waits, Qrtr!Init
<1>3. Qrtr!TypeOK
  <2>1. 0 \in 0 .. MaxNoise /\ 0 \in 0 .. MaxOps /\ 0 \in 0 .. Items
    BY QrtrAssumed
  <2> QED
    BY <1>1, <2>1 DEF Qrtr!Init, Qrtr!TypeOK
<1> QED
  BY <1>1, <1>2, <1>3
  DEF QrtrInv, OpenAreOwn, RepliesOnce, OperationAt, AcceptedIsTold, Qrtr!BandCreditsOwn, Qrtr!Init

(* The places of the replies after a datagram is read and after one comes. *)
FirstGone ==
  /\ \A n \in ReplyAt' : n \in Nat \ {0} /\ n + 1 \in ReplyAt /\ qrtrInbox'[n] = qrtrInbox[n + 1]
  /\ \A n \in ReplyAt : n # 1 => n - 1 \in ReplyAt' /\ qrtrInbox'[n - 1] = qrtrInbox[n]

LastIs(d) ==
  \E z : /\ z \notin ReplyAt /\ qrtrInbox'[z] = d
         /\ ReplyAt' = ReplyAt \cup {n \in {z} : d.what = "reply"}
         /\ \A n \in ReplyAt : qrtrInbox'[n] = qrtrInbox[n]

LEMMA DatagramTypes ==
  \A d \in Qrtr!Datagram : d.what = "reply" => d.id \in Ids /\ d.verdict \in Qrtr!Verdicts
  BY DEF Qrtr!Datagram, Qrtr!Requests, Ids

LEMMA RepliesRead ==
  ASSUME Qrtr!TypeOK, qrtrInbox # <<>>, qrtrInbox' = Tail(qrtrInbox)
  PROVE  /\ qrtrInbox' \in Seq(Qrtr!Datagram) /\ Head(qrtrInbox) = qrtrInbox[1]
         /\ Head(qrtrInbox) \in Qrtr!Datagram /\ 1 \in DOMAIN qrtrInbox
         /\ FirstGone
<1> DEFINE D == Qrtr!Datagram
<1>1. qrtrInbox \in Seq(D)
  BY DEF Qrtr!TypeOK
<1> HIDE DEF D
<1>2. DOMAIN qrtrInbox = 1 .. Len(qrtrInbox) /\ Len(qrtrInbox) \in Nat \ {0}
  BY <1>1, EmptySeq, LenProperties
<1>3. /\ Tail(qrtrInbox) \in Seq(D) /\ Len(Tail(qrtrInbox)) = Len(qrtrInbox) - 1
      /\ \A n \in 1 .. Len(Tail(qrtrInbox)) : Tail(qrtrInbox)[n] = qrtrInbox[n + 1]
      /\ Head(qrtrInbox) \in D
  BY <1>1, HeadTailProperties
<1>4. DOMAIN Tail(qrtrInbox) = 1 .. Len(Tail(qrtrInbox))
  BY <1>3, LenProperties
<1>5. Head(qrtrInbox) = qrtrInbox[1]
  BY <1>1, <1>2
<1>6. \A n \in ReplyAt' : /\ n \in Nat \ {0} /\ n + 1 \in ReplyAt
                          /\ qrtrInbox'[n] = qrtrInbox[n + 1]
  BY <1>2, <1>3, <1>4 DEF ReplyAt
<1>7. ASSUME NEW n \in ReplyAt, n # 1
      PROVE  n - 1 \in ReplyAt' /\ qrtrInbox'[n - 1] = qrtrInbox[n]
  <2> DEFINE m == n - 1
  <2>1. m \in 1 .. Len(Tail(qrtrInbox)) /\ m + 1 = n
    BY <1>2, <1>3, <1>7 DEF ReplyAt
  <2> HIDE DEF m
  <2>2. m \in DOMAIN qrtrInbox' /\ qrtrInbox'[m] = qrtrInbox[n]
    BY <1>3, <1>4, <2>1
  <2> QED
    BY <1>7, <2>2 DEF ReplyAt, m
<1>8. 1 \in DOMAIN qrtrInbox /\ qrtrInbox' \in Seq(D) /\ Head(qrtrInbox) \in D
  BY <1>2, <1>3
<1> QED
  BY <1>5, <1>6, <1>7, <1>8 DEF FirstGone, D

LEMMA RepliesCome ==
  ASSUME Qrtr!TypeOK, NEW d \in Qrtr!Datagram, qrtrInbox' = Append(qrtrInbox, d)
  PROVE  qrtrInbox' \in Seq(Qrtr!Datagram) /\ LastIs(d)
<1> DEFINE D == Qrtr!Datagram
<1>1. qrtrInbox \in Seq(D) /\ d \in D
  BY DEF Qrtr!TypeOK
<1> HIDE DEF D
<1>2. DOMAIN qrtrInbox = 1 .. Len(qrtrInbox) /\ Len(qrtrInbox) \in Nat
  BY <1>1, LenProperties
<1>3. /\ qrtrInbox' \in Seq(D) /\ Len(qrtrInbox') = Len(qrtrInbox) + 1
      /\ \A n \in 1 .. Len(qrtrInbox) : qrtrInbox'[n] = qrtrInbox[n]
      /\ qrtrInbox'[Len(qrtrInbox) + 1] = d
  BY <1>1, AppendProperties
<1>4. DOMAIN qrtrInbox' = 1 .. Len(qrtrInbox) + 1
  BY <1>3, LenProperties
<1> QED
  BY <1>2, <1>3, <1>4 DEF ReplyAt, LastIs, D

(* What is read is open no more; the rest is as it was.                    *)
LEMMA ReadOpens ==
  ASSUME RepliesOnce, FirstGone, UNCHANGED <<qrtrPending, accepted>>
  PROVE  /\ \A id : Open(id)' => Open(id)
         /\ \A id : Open(id) => Open(id)' \/ (1 \in ReplyAt /\ id = qrtrInbox[1].id)
         /\ \A id : Waits(id) => Waits(id)' \/ (1 \in ReplyAt /\ id = qrtrInbox[1].id)
         /\ 1 \in ReplyAt => Open(qrtrInbox[1].id) /\ \A id : id = qrtrInbox[1].id => ~Open(id)'
         /\ RepliesOnce'
<1>1. \A n \in ReplyAt' : n \in Nat \ {0} /\ n + 1 \in ReplyAt /\ qrtrInbox'[n] = qrtrInbox[n + 1]
  BY DEF FirstGone
<1>2. \A n \in ReplyAt : n # 1 => n - 1 \in ReplyAt' /\ qrtrInbox'[n - 1] = qrtrInbox[n]
  BY DEF FirstGone
<1>3. \A id : Open(id)' => Open(id)
  BY <1>1 DEF Open, Waits
<1>4. \A id : Open(id) => Open(id)' \/ (1 \in ReplyAt /\ id = qrtrInbox[1].id)
  BY <1>2 DEF Open, Waits
<1>5. \A id : Waits(id) => Waits(id)' \/ (1 \in ReplyAt /\ id = qrtrInbox[1].id)
  BY <1>2 DEF Waits
<1>6. ASSUME NEW n \in ReplyAt' PROVE 1 \in ReplyAt => qrtrInbox'[n].id # qrtrInbox[1].id
  <2> DEFINE m == n + 1
  <2>1. n \in Nat \ {0} /\ n + 1 \in ReplyAt /\ qrtrInbox'[n] = qrtrInbox[n + 1]
    BY <1>1
  <2>2. m \in ReplyAt /\ m # 1 /\ qrtrInbox'[n] = qrtrInbox[m]
    BY <2>1
  <2> HIDE DEF m
  <2> QED
    BY <2>2 DEF RepliesOnce
<1>7. 1 \in ReplyAt => Open(qrtrInbox[1].id) /\ \A id : id = qrtrInbox[1].id => ~Open(id)'
  BY <1>6 DEF Open, Waits, RepliesOnce
<1>8. ASSUME NEW n \in ReplyAt'
      PROVE  /\ qrtrInbox'[n].id \notin qrtrPending'
             /\ qrtrInbox'[n].verdict = "accepted" => qrtrInbox'[n].id[2] \in accepted'
  <2> DEFINE m == n + 1
  <2>1. m \in ReplyAt /\ qrtrInbox'[n] = qrtrInbox[m]
    BY <1>1
  <2> HIDE DEF m
  <2> QED
    BY <2>1 DEF RepliesOnce
<1>9. ASSUME NEW n \in ReplyAt', NEW m \in ReplyAt', qrtrInbox'[m].id = qrtrInbox'[n].id PROVE m = n
  <2> DEFINE k == n + 1
             l == m + 1
  <2>1. k \in ReplyAt /\ l \in ReplyAt /\ qrtrInbox[l].id = qrtrInbox[k].id
    BY <1>1, <1>9
  <2> HIDE DEF k, l
  <2>2. l = k
    BY <2>1 DEF RepliesOnce
  <2>3. m \in Nat /\ n \in Nat
    BY <1>1
  <2> QED
    BY <2>2, <2>3 DEF k, l
<1> QED
  BY <1>3, <1>4, <1>5, <1>7, <1>8, <1>9 DEF RepliesOnce

(* What comes and is no reply opens nothing.                               *)
LEMMA NoiseOpens ==
  ASSUME RepliesOnce, NEW d \in Qrtr!Datagram, d.what # "reply", LastIs(d),
         UNCHANGED <<qrtrPending, accepted>>
  PROVE  (\A id : (Open(id)' <=> Open(id)) /\ (Waits(id)' <=> Waits(id))) /\ RepliesOnce'
<1>1. ReplyAt' = ReplyAt /\ \A n \in ReplyAt : qrtrInbox'[n] = qrtrInbox[n]
  BY DEF LastIs
<1>2. qrtrPending' = qrtrPending /\ accepted' = accepted
  OBVIOUS
<1>3. \A id : Waits(id)' <=> Waits(id)
  BY <1>1 DEF Waits
<1>4. \A id : Open(id)' <=> Open(id)
  BY <1>2, <1>3 DEF Open
<1>5. RepliesOnce'
  BY <1>1, <1>2 DEF RepliesOnce
<1> QED
  BY <1>3, <1>4, <1>5

(* What the modem answers stays open until the answer is read.             *)
LEMMA ReplyOpens ==
  ASSUME RepliesOnce, NEW r \in qrtrPending, NEW v,
         NEW d \in Qrtr!Datagram, d.what = "reply", d.id = r, d.verdict = v,
         LastIs(d), qrtrPending' = qrtrPending \ {r},
         accepted \subseteq accepted', v = "accepted" => r[2] \in accepted'
  PROVE  /\ \A id : (Open(id)' <=> Open(id)) /\ (Waits(id)' <=> Waits(id) \/ id = r)
         /\ RepliesOnce'
<1>1. PICK z : /\ ReplyAt' = ReplyAt \cup {z} /\ z \notin ReplyAt
               /\ \A n \in ReplyAt : qrtrInbox'[n] = qrtrInbox[n]
               /\ qrtrInbox'[z] = d
  BY DEF LastIs
<1>2. \A id : Waits(id)' <=> Waits(id) \/ id = r
  BY <1>1 DEF Waits
<1>3. \A id : Open(id)' <=> Open(id)
  BY <1>2 DEF Open
<1>4. \A n \in ReplyAt : qrtrInbox[n].id # r
  BY DEF RepliesOnce
<1>5. \A n \in ReplyAt' : /\ qrtrInbox'[n].id \notin qrtrPending'
                          /\ qrtrInbox'[n].verdict = "accepted" => qrtrInbox'[n].id[2] \in accepted'
  BY <1>1 DEF RepliesOnce
<1>6. \A n, m \in ReplyAt : qrtrInbox'[m].id = qrtrInbox'[n].id => m = n
  BY <1>1 DEF RepliesOnce
<1>7. \A n \in ReplyAt : qrtrInbox'[n].id # qrtrInbox'[z].id
  BY <1>1, <1>4
<1>8. ASSUME NEW n \in ReplyAt', NEW m \in ReplyAt', qrtrInbox'[m].id = qrtrInbox'[n].id
      PROVE  m = n
  BY <1>1, <1>6, <1>7, <1>8
<1> QED
  BY <1>2, <1>3, <1>5, <1>8 DEF RepliesOnce

(* How an operation goes on after an outcome.                              *)
LEMMA Outcomes ==
  ASSUME Qrtr!TypeOK, OperationAt, qrtrPc \in {"send", "transact"},
         NEW outcome \in {"accepted", "rejected", "garbled", "failed"}, Qrtr!After(outcome)
  PROVE  /\ qrtrPc' \in {"send", "idle"} /\ draining' = FALSE /\ success' \in BOOLEAN
         /\ i' \in 1 .. Qrtr!LastRequest /\ qrtrRc' \in {"none", "ok", "rejected", "failed"}
         /\ qrtrPc' = "send" => i' = i + 1 /\ qrtrRc' = "none"
         /\ qrtrPc' = "idle" => i' = i
         /\ qrtrRc' = "ok" => success' = TRUE
         /\ success' = TRUE =>
              \/ success = TRUE
              \/ outcome = "accepted" /\ (Qrtr!IsBand(op) => i = 1)
         /\ Qrtr!IsBand(op) /\ qrtrPc' = "send" => outcome \in {"accepted", "rejected"} /\ i = 1
<1>1. i \in 1 .. Qrtr!LastRequest /\ qrtrRc = "none" /\ success \in BOOLEAN
  BY DEF OperationAt, Qrtr!TypeOK
<1>2. Qrtr!LastRequest \in Nat /\ (Qrtr!IsBand(op) => Qrtr!LastRequest \in {1, 2})
  BY QrtrAssumed DEF Qrtr!LastRequest, Qrtr!IsBand
<1>3. ASSUME NEW ok \in BOOLEAN, Qrtr!Continue(ok)
      PROVE  /\ success' = ok /\ draining' = FALSE
             /\ \/ i < Qrtr!LastRequest /\ qrtrPc' = "send" /\ i' = i + 1 /\ qrtrRc' = "none"
                \/ /\ qrtrPc' = "idle" /\ i' = i
                   /\ qrtrRc' = IF ok = TRUE THEN "ok" ELSE "rejected"
  BY <1>1, <1>3 DEF Qrtr!Continue, Qrtr!Return
<1>4. CASE ~Qrtr!IsBand(op)
  <2> DEFINE ok == (success \/ outcome = "accepted")
  <2>1. Qrtr!Continue(ok) /\ ok \in BOOLEAN
    BY <1>4 DEF Qrtr!After
  <2>2. ok = TRUE => success = TRUE \/ outcome = "accepted"
    BY <1>1
  <2> HIDE DEF ok
  <2>3. /\ success' = ok /\ draining' = FALSE
        /\ \/ i < Qrtr!LastRequest /\ qrtrPc' = "send" /\ i' = i + 1 /\ qrtrRc' = "none"
           \/ /\ qrtrPc' = "idle" /\ i' = i
              /\ qrtrRc' = IF ok = TRUE THEN "ok" ELSE "rejected"
    BY <1>3, <2>1
  <2> QED
    BY <1>1, <1>2, <1>4, <2>1, <2>2, <2>3
<1>5. CASE Qrtr!IsBand(op) /\ i = 1 /\ outcome \in {"garbled", "failed"}
  <2>1. Qrtr!Stop("failed")
    BY <1>5 DEF Qrtr!After
  <2> QED
    BY <1>1, <2>1 DEF Qrtr!Stop, Qrtr!Return
<1>6. CASE Qrtr!IsBand(op) /\ ~(i = 1 /\ outcome \in {"garbled", "failed"})
  <2> DEFINE ok == IF i = 1 THEN outcome = "accepted" ELSE (success /\ outcome # "rejected")
  <2>1. Qrtr!Continue(ok) /\ ok \in BOOLEAN
    BY <1>1, <1>6 DEF Qrtr!After
  <2>2. ok = TRUE => success = TRUE \/ (outcome = "accepted" /\ i = 1)
    BY <1>1
  <2> HIDE DEF ok
  <2>3. /\ success' = ok /\ draining' = FALSE
        /\ \/ i < Qrtr!LastRequest /\ qrtrPc' = "send" /\ i' = i + 1 /\ qrtrRc' = "none"
           \/ /\ qrtrPc' = "idle" /\ i' = i
              /\ qrtrRc' = IF ok = TRUE THEN "ok" ELSE "rejected"
    BY <1>3, <2>1
  <2> QED
    BY <1>1, <1>2, <1>6, <2>1, <2>2, <2>3
<1> QED
  BY <1>4, <1>5, <1>6

-----------------------------------------------------------------------------
LEMMA QrtrInductive == QrtrInv /\ [Qrtr!Next]_(Qrtr!vars) => QrtrInv'
<1> SUFFICES ASSUME QrtrInv, [Qrtr!Next]_(Qrtr!vars) PROVE QrtrInv'
  OBVIOUS
<1> DEFINE Link == /\ qrtrSock \in BOOLEAN /\ qrtrInbox \in Seq(Qrtr!Datagram)
                   /\ qrtrPending \subseteq Ids /\ accepted \subseteq 1 .. Items
                   /\ noise \in 0 .. MaxNoise
           Oper == op \in Kinds \cup {"none"} /\ ops \in 0 .. MaxOps
           Loc  == /\ qrtrPc \in {"idle", "lookup", "send", "transact"}
                   /\ instance \in {0, 1} /\ draining \in BOOLEAN /\ i \in 0 .. Items
                   /\ success \in BOOLEAN /\ qrtrRc \in {"none", "ok", "rejected", "failed"}
           Cred == credit \subseteq Ids \X Ids
           Last == IF op = "band" THEN 1 ELSE IF op = "bandNr" THEN 2 ELSE Items
           Band == op = "band" \/ op = "bandNr"
<1>1. Link /\ Oper /\ Loc /\ Cred
  BY DEF QrtrInv, Qrtr!TypeOK, Qrtr!Requests, Ids
<1>2. Link' /\ Oper' /\ Loc' /\ Cred' => Qrtr!TypeOK'
  BY DEF Qrtr!TypeOK, Qrtr!Requests, Ids
<1>3. /\ Qrtr!TypeOK /\ OpenAreOwn /\ RepliesOnce /\ OperationAt
      /\ Qrtr!BandCreditsOwn /\ AcceptedIsTold
  BY DEF QrtrInv
<1>4. UNCHANGED <<op, ops>> => Oper'
  BY <1>1
<1>5. UNCHANGED credit => Cred'
  BY <1>1
<1>6. /\ Qrtr!LastRequest = Last /\ Qrtr!LastRequest' = Last'
      /\ \A kind : Qrtr!IsBand(kind) <=> kind = "band" \/ kind = "bandNr"
  BY DEF Qrtr!LastRequest, Qrtr!IsBand
<1>7. Last \in 1 .. Items /\ (Band => Last \in {1, 2}) /\ (Oper' => Last' \in 1 .. Items)
  BY QrtrAssumed
<1>8. /\ qrtrPc = "lookup" => accepted = {} /\ success = FALSE
      /\ qrtrPc = "lookup" => \A id : ~Open(id)
      /\ qrtrPc # "idle" => i \in 1 .. Last /\ qrtrRc = "none" /\ ops # 0
      /\ success = TRUE /\ Band => 1 \in accepted
      /\ success = TRUE /\ ~Band => accepted # {}
      /\ qrtrRc = "ok" => success = TRUE
  BY <1>3, <1>6 DEF OperationAt
<1>9. \A id : Open(id) => /\ id[1] = ops /\ id[2] \in 1 .. i /\ id = <<id[1], id[2]>>
                          /\ qrtrPc = "send" => id[2] # i
                          /\ Band /\ i # 1 => id[2] # 1
  BY <1>3, <1>6 DEF OpenAreOwn
<1>10. ASSUME qrtrPc' = "lookup" => accepted' = {} /\ success' = FALSE,
              qrtrPc' = "lookup" => \A id : ~Open(id)',
              qrtrPc' # "idle" => i' \in 1 .. Last' /\ qrtrRc' = "none" /\ ops' # 0,
              success' = TRUE /\ Band' => 1 \in accepted',
              success' = TRUE /\ ~Band' => accepted' # {},
              qrtrRc' = "ok" => success' = TRUE
       PROVE  OperationAt'
  BY <1>6, <1>10 DEF OperationAt
<1>11. ASSUME \A id : Open(id)' => /\ id[1] = ops' /\ id[2] \in 1 .. i' /\ id = <<id[1], id[2]>>
                                   /\ qrtrPc' = "send" => id[2] # i'
                                   /\ Band' /\ i' # 1 => id[2] # 1
       PROVE  OpenAreOwn'
  BY <1>6, <1>11 DEF OpenAreOwn
<1> HIDE DEF Link, Oper, Loc, Cred, Last, Band
<1>12. UNCHANGED op => Last' = Last /\ (Band' <=> Band)
  BY DEF Last, Band
<1>13. ASSUME UNCHANGED <<success, op, ops, i>>, accepted \subseteq accepted',
              qrtrPc' = "lookup" => accepted' = accepted /\ \A id : Open(id)' => Open(id),
              \/ qrtrRc' = qrtrRc /\ qrtrPc' = qrtrPc
              \/ qrtrRc' = qrtrRc /\ qrtrPc # "idle" /\ qrtrPc' # "lookup"
              \/ qrtrPc' = "idle" /\ qrtrRc' = "failed"
       PROVE  OperationAt'
  <2>1. Last' = Last /\ (Band' <=> Band)
    BY <1>12, <1>13
  <2>2. qrtrPc' = "lookup" => accepted' = {} /\ success' = FALSE
    BY <1>8, <1>13
  <2>3. qrtrPc' = "lookup" => \A id : ~Open(id)'
    BY <1>8, <1>13
  <2>4. qrtrPc' # "idle" => i' \in 1 .. Last' /\ qrtrRc' = "none" /\ ops' # 0
    BY <1>8, <1>13, <2>1
  <2>5. success' = TRUE /\ Band' => 1 \in accepted'
    BY <1>8, <1>13, <2>1
  <2>6. success' = TRUE /\ ~Band' => accepted' # {}
    BY <1>8, <1>13, <2>1
  <2>7. qrtrRc' = "ok" => success' = TRUE
    BY <1>8, <1>13
  <2> QED
    BY <1>10, <2>2, <2>3, <2>4, <2>5, <2>6, <2>7
<1>14. ASSUME UNCHANGED credit, UNCHANGED op PROVE Qrtr!BandCreditsOwn'
  BY <1>3, <1>14 DEF Qrtr!BandCreditsOwn
<1>15. ASSUME UNCHANGED <<accepted, ops, credit>>, qrtrSock' = TRUE => qrtrSock = TRUE,
              \A id : Waits(id) => Waits(id)' \/ id[2] \in Qrtr!Judged
       PROVE  AcceptedIsTold'
  BY <1>3, <1>15 DEF AcceptedIsTold, Qrtr!Judged
<1>16. UNCHANGED <<qrtrInbox, qrtrPending, accepted>> =>
         (\A id : (Open(id)' <=> Open(id)) /\ (Waits(id)' <=> Waits(id))) /\ RepliesOnce'
  BY <1>3 DEF Open, Waits, ReplyAt, RepliesOnce
<1>17. qrtrInbox' = <<>> /\ qrtrPending' = {} => (\A id : ~Open(id)') /\ RepliesOnce'
  BY DEF Open, Waits, ReplyAt, RepliesOnce
<1> USE DEF Qrtr!wire, Qrtr!local
<1>18. ASSUME NEW kind \in Kinds, Qrtr!Start(kind) \/ Qrtr!StartFails(kind) PROVE QrtrInv'
  <2>1. /\ ops < MaxOps /\ op' = kind /\ ops' = ops + 1
        /\ qrtrInbox' = <<>> /\ qrtrPending' = {} /\ accepted' = {} /\ noise' = 0
        /\ i' = 1 /\ success' = FALSE /\ credit' = {} /\ qrtrSock' \in BOOLEAN
        /\ instance' \in {instance, 1} /\ draining' = FALSE
        /\ \/ qrtrPc' = "lookup" /\ qrtrRc' = "none"
           \/ qrtrPc' = "idle" /\ qrtrRc' = "failed"
    BY <1>18 DEF Qrtr!Start, Qrtr!StartFails, Qrtr!Reopen, Qrtr!Return
  <2>2. Oper'
    BY <1>1, <2>1, QrtrAssumed DEF Oper
  <2>3. Link' /\ Loc' /\ Cred'
    <3>1. 0 \in 0 .. MaxNoise /\ 1 \in 0 .. Items
      BY QrtrAssumed
    <3>2. Link'
      BY <2>1, <3>1, EmptySeq DEF Link
    <3>3. Loc'
      <4>1. instance' \in {0, 1} /\ draining' \in BOOLEAN /\ success' \in BOOLEAN
        BY <1>1, <2>1 DEF Loc
      <4> QED
        BY <2>1, <3>1, <4>1 DEF Loc
    <3> QED
      BY <2>1, <3>2, <3>3 DEF Cred
  <2>4. ops' # 0 /\ i' \in 1 .. Last'
    BY <1>1, <1>7, <2>1, <2>2 DEF Oper
  <2>5. OperationAt'
    BY <1>10, <1>17, <2>1, <2>4
  <2>6. OpenAreOwn' /\ RepliesOnce' /\ AcceptedIsTold' /\ Qrtr!BandCreditsOwn'
    BY <1>11, <1>17, <2>1 DEF AcceptedIsTold, Qrtr!BandCreditsOwn
  <2> QED
    BY <1>2, <2>2, <2>3, <2>5, <2>6 DEF QrtrInv
<1>19. ASSUME UNCHANGED <<qrtrSock, qrtrInbox, qrtrPending, accepted, noise, op, ops, i, success, credit>>,
              draining' \in BOOLEAN, instance' \in {0, 1},
              \/ UNCHANGED <<qrtrPc, qrtrRc>>
              \/ qrtrPc' = "idle" /\ qrtrRc' = "failed"
       PROVE  QrtrInv'
  <2>1. Link' /\ Oper' /\ Loc' /\ Cred'
    BY <1>1, <1>19 DEF Link, Oper, Loc, Cred
  <2>2. OpenAreOwn'
    BY <1>9, <1>11, <1>12, <1>16, <1>19
  <2>3. OperationAt'
    BY <1>13, <1>16, <1>19
  <2> QED
    BY <1>2, <1>14, <1>15, <1>16, <1>19, <2>1, <2>2, <2>3 DEF QrtrInv
<1>20. CASE Qrtr!PollWakes \/ Qrtr!DrainEnds \/ Qrtr!LookupMisses \/ UNCHANGED Qrtr!vars
  <2>1. instance \in {0, 1} /\ draining \in BOOLEAN
    BY <1>1 DEF Loc
  <2>2. /\ UNCHANGED <<qrtrSock, qrtrInbox, qrtrPending, accepted, noise, op, ops, i, success, credit>>
        /\ draining' \in BOOLEAN /\ instance' \in {0, 1}
        /\ \/ UNCHANGED <<qrtrPc, qrtrRc>>
           \/ qrtrPc' = "idle" /\ qrtrRc' = "failed"
    BY <1>20, <2>1
    DEF Qrtr!PollWakes, Qrtr!DrainEnds, Qrtr!LookupMisses, Qrtr!Return, Qrtr!vars
  <2> QED
    BY <1>19, <2>2
<1>21. ASSUME qrtrInbox # <<>>, qrtrInbox' = Tail(qrtrInbox), UNCHANGED <<qrtrPending, accepted>>
       PROVE  /\ qrtrInbox' \in Seq(Qrtr!Datagram) /\ RepliesOnce' /\ 1 \in DOMAIN qrtrInbox
              /\ Head(qrtrInbox) = qrtrInbox[1] /\ qrtrInbox[1] \in Qrtr!Datagram
              /\ \A id : Open(id)' => Open(id)
              /\ \A id : Open(id) => Open(id)' \/ (1 \in ReplyAt /\ id = qrtrInbox[1].id)
              /\ \A id : Waits(id) => Waits(id)' \/ (1 \in ReplyAt /\ id = qrtrInbox[1].id)
              /\ 1 \in ReplyAt => Open(qrtrInbox[1].id) /\ \A id : id = qrtrInbox[1].id => ~Open(id)'
  <2>1. /\ qrtrInbox' \in Seq(Qrtr!Datagram) /\ 1 \in DOMAIN qrtrInbox /\ FirstGone
        /\ Head(qrtrInbox) = qrtrInbox[1] /\ qrtrInbox[1] \in Qrtr!Datagram
    BY <1>3, <1>21, RepliesRead
  <2> QED
    BY <1>3, <1>21, <2>1, ReadOpens
<1>22. CASE Qrtr!LookupRead
  <2>1. /\ qrtrPc = "lookup" /\ qrtrInbox # <<>> /\ qrtrInbox' = Tail(qrtrInbox)
        /\ UNCHANGED <<qrtrPending, accepted, qrtrSock, noise, op, ops, instance, i, success, credit, qrtrRc>>
        /\ qrtrPc' \in {"lookup", "send"} /\ draining' \in {FALSE, draining}
    BY <1>22 DEF Qrtr!LookupRead
  <2>2. \A id : ~Open(id) /\ ~Open(id)' /\ ~Waits(id)
    BY <1>8, <1>21, <2>1 DEF Open
  <2>3. Link' /\ Oper' /\ Loc' /\ Cred'
    BY <1>1, <1>21, <2>1 DEF Link, Oper, Loc, Cred
  <2>4. OperationAt'
    BY <1>13, <2>1, <2>2
  <2>5. OpenAreOwn' /\ AcceptedIsTold'
    BY <1>11, <1>15, <2>1, <2>2
  <2> QED
    BY <1>2, <1>14, <1>21, <2>1, <2>3, <2>4, <2>5 DEF QrtrInv
<1>23. CASE Qrtr!Send
  <2>1. /\ qrtrPc = "send" /\ qrtrPc' = "transact" /\ qrtrPending' = qrtrPending \cup {<<ops, i>>}
        /\ UNCHANGED <<qrtrSock, qrtrInbox, accepted, noise, op, ops, instance, draining, i, success, credit, qrtrRc>>
    BY <1>23 DEF Qrtr!Send
  <2>2. i \in 1 .. Last /\ ops # 0 /\ ops \in 0 .. MaxOps /\ Last \in 1 .. Items
    BY <1>1, <1>7, <1>8, <2>1 DEF Oper
  <2>3. <<ops, i>> \in Ids
    BY <2>2, QrtrAssumed DEF Ids
  <2>4. Link' /\ Oper' /\ Loc' /\ Cred'
    BY <1>1, <2>1, <2>3 DEF Link, Oper, Loc, Cred
  <2>5. \A id : (Open(id)' <=> Open(id) \/ id = <<ops, i>>) /\ (Waits(id)' <=> Waits(id))
    BY <2>1 DEF Open, Waits, ReplyAt
  <2>6. <<ops, i>>[1] = ops /\ <<ops, i>>[2] = i
    OBVIOUS
  <2>7. ~Open(<<ops, i>>)
    BY <1>9, <2>1, <2>6
  <2>8. OpenAreOwn'
    <3>1. \A id : Open(id) => /\ id[1] = ops' /\ id[2] \in 1 .. i' /\ id = <<id[1], id[2]>>
                              /\ Band' /\ i' # 1 => id[2] # 1
      BY <1>9, <1>12, <2>1
    <3>2. i \in 1 .. i
      BY <2>2, QrtrAssumed
    <3>3. \A id : id = <<ops, i>> => /\ id[1] = ops' /\ id[2] \in 1 .. i' /\ id = <<id[1], id[2]>>
                                     /\ i' # 1 => id[2] # 1
      BY <2>1, <3>2
    <3> QED
      BY <1>11, <2>1, <2>5, <3>1, <3>3
  <2>9. RepliesOnce'
    <3>1. ReplyAt' = ReplyAt /\ \A n \in ReplyAt : qrtrInbox'[n] = qrtrInbox[n] /\ Open(qrtrInbox[n].id)
      BY <2>1 DEF ReplyAt, Open, Waits
    <3>2. \A n \in ReplyAt : qrtrInbox[n].id \notin qrtrPending'
      BY <1>3, <2>1, <2>7, <3>1 DEF RepliesOnce
    <3> QED
      BY <1>3, <2>1, <3>1, <3>2 DEF RepliesOnce
  <2>10. OperationAt'
    BY <1>13, <2>1
  <2> QED
    BY <1>2, <1>14, <1>15, <2>1, <2>4, <2>5, <2>8, <2>9, <2>10 DEF QrtrInv
<1>24. ASSUME qrtrPc \in {"send", "transact"},
              UNCHANGED <<qrtrSock, accepted, noise, op, ops, instance>>,
              NEW outcome \in {"accepted", "rejected", "garbled", "failed"}, Qrtr!After(outcome),
              outcome = "accepted" => accepted # {} /\ (Band /\ i = 1 => 1 \in accepted),
              \A id : Open(id)' => Open(id),
              outcome \in {"accepted", "rejected"} /\ i = 1 => \A id : id[2] = 1 => ~Open(id)'
       PROVE  Loc' /\ OpenAreOwn' /\ OperationAt'
  <2>1. /\ qrtrPc' \in {"send", "idle"} /\ draining' = FALSE /\ success' \in BOOLEAN
        /\ i' \in 1 .. Last /\ qrtrRc' \in {"none", "ok", "rejected", "failed"}
        /\ qrtrPc' = "send" => i' = i + 1 /\ qrtrRc' = "none"
        /\ qrtrPc' = "idle" => i' = i
        /\ qrtrRc' = "ok" => success' = TRUE
        /\ success' = TRUE =>
             \/ success = TRUE
             \/ outcome = "accepted" /\ (Qrtr!IsBand(op) => i = 1)
        /\ Qrtr!IsBand(op) /\ qrtrPc' = "send" => outcome \in {"accepted", "rejected"} /\ i = 1
    BY <1>3, <1>6, <1>24, Outcomes
  <2>2. Qrtr!IsBand(op) <=> Band
    BY <1>6 DEF Band
  <2>3. i \in 1 .. Last /\ qrtrRc = "none" /\ ops # 0 /\ Last \in 1 .. Items /\ Items \in Nat
    BY <1>7, <1>8, <1>24, QrtrAssumed
  <2>4. Loc'
    <3>1. i' \in 0 .. Items
      BY <2>1, <2>3
    <3>2. instance' \in {0, 1} /\ draining' \in BOOLEAN
      BY <1>1, <1>24, <2>1 DEF Loc
    <3> QED
      BY <2>1, <3>1, <3>2 DEF Loc
  <2>5. OperationAt'
    <3>1. Last' = Last /\ (Band' <=> Band) /\ accepted' = accepted
      BY <1>12, <1>24
    <3>2. success' = TRUE /\ Band' => 1 \in accepted'
      BY <1>8, <1>24, <2>1, <2>2, <3>1
    <3>3. success' = TRUE /\ ~Band' => accepted' # {}
      BY <1>8, <1>24, <2>1, <2>2, <3>1
    <3>4. qrtrPc' # "idle" => i' \in 1 .. Last' /\ qrtrRc' = "none" /\ ops' # 0
      BY <1>24, <2>1, <2>3, <3>1
    <3> QED
      BY <1>10, <2>1, <3>2, <3>3, <3>4
  <2>6. ASSUME NEW id, Open(id)'
        PROVE  /\ id[1] = ops' /\ id[2] \in 1 .. i' /\ id = <<id[1], id[2]>>
               /\ qrtrPc' = "send" => id[2] # i'
               /\ Band' /\ i' # 1 => id[2] # 1
    <3>1. /\ id[1] = ops /\ id[2] \in 1 .. i /\ id = <<id[1], id[2]>>
          /\ Band /\ i # 1 => id[2] # 1
      BY <1>9, <1>24, <2>6
    <3>2. id[2] \in 1 .. i' /\ (qrtrPc' = "send" => id[2] # i')
      BY <2>1, <2>3, <3>1
    <3>3. Band /\ i' # 1 => id[2] # 1
      BY <1>24, <2>1, <2>2, <2>6, <3>1
    <3> QED
      BY <1>12, <1>24, <3>1, <3>2, <3>3
  <2>7. OpenAreOwn'
    BY <1>11, <2>6
  <2> QED
    BY <2>4, <2>5, <2>7
<1>25. CASE Qrtr!SendFails \/ Qrtr!TransactTimeout
  <2>1. /\ qrtrPc \in {"send", "transact"} /\ Qrtr!After("failed")
        /\ UNCHANGED <<qrtrSock, qrtrInbox, qrtrPending, accepted, noise, op, ops, instance, credit>>
    BY <1>25 DEF Qrtr!SendFails, Qrtr!TransactTimeout
  <2>2. (\A id : (Open(id)' <=> Open(id)) /\ (Waits(id)' <=> Waits(id))) /\ RepliesOnce'
    BY <1>16, <2>1
  <2>3. Loc' /\ OpenAreOwn' /\ OperationAt'
    BY <1>24, <2>1, <2>2
  <2>4. Link' /\ Oper' /\ Cred'
    BY <1>1, <2>1 DEF Link, Oper, Cred
  <2> QED
    BY <1>2, <1>14, <1>15, <2>1, <2>2, <2>3, <2>4 DEF QrtrInv
<1>26. CASE Qrtr!TransactRead
  <2> DEFINE d == qrtrInbox[1]
  <2>1. /\ qrtrPc = "transact" /\ qrtrInbox # <<>> /\ qrtrInbox' = Tail(qrtrInbox)
        /\ UNCHANGED <<qrtrSock, qrtrPending, accepted, noise, op, ops, instance>>
        /\ IF Head(qrtrInbox).what = "reply"
           THEN /\ credit' = credit \cup {<<<<ops, i>>, Head(qrtrInbox).id>>}
                /\ Qrtr!After(Head(qrtrInbox).verdict)
           ELSE UNCHANGED <<credit, qrtrPc, draining, i, success, qrtrRc>>
    BY <1>26 DEF Qrtr!TransactRead, Qrtr!IsReply
  <2>2. /\ qrtrInbox' \in Seq(Qrtr!Datagram) /\ RepliesOnce' /\ 1 \in DOMAIN qrtrInbox
        /\ Head(qrtrInbox) = d /\ d \in Qrtr!Datagram
        /\ \A id : Open(id)' => Open(id)
        /\ \A id : Open(id) => Open(id)' \/ (1 \in ReplyAt /\ id = d.id)
        /\ \A id : Waits(id) => Waits(id)' \/ (1 \in ReplyAt /\ id = d.id)
        /\ 1 \in ReplyAt => Open(d.id) /\ \A id : id = d.id => ~Open(id)'
    BY <1>21, <2>1
  <2>3. 1 \in ReplyAt <=> d.what = "reply"
    BY <2>2 DEF ReplyAt
  <2>4. 1 \in ReplyAt => (d.verdict = "accepted" => d.id[2] \in accepted)
    BY <1>3 DEF RepliesOnce
  <2> HIDE DEF d
  <2>5. Link' /\ Oper'
    BY <1>1, <2>1, <2>2 DEF Link, Oper
  <2>6. i \in 1 .. Last /\ ops # 0 /\ ops \in 0 .. MaxOps /\ Last \in 1 .. Items /\ Items \in Nat
        /\ MaxOps \in Nat
    BY <1>1, <1>7, <1>8, <2>1, QrtrAssumed DEF Oper
  <2>7. CASE d.what # "reply"
    <3>1. /\ UNCHANGED <<credit, qrtrPc, draining, i, success, qrtrRc>>
          /\ \A id : (Open(id)' <=> Open(id)) /\ (Waits(id) => Waits(id)')
      BY <2>1, <2>2, <2>3, <2>7
    <3>2. Loc' /\ Cred'
      BY <1>1, <2>1, <3>1 DEF Loc, Cred
    <3>3. OpenAreOwn'
      BY <1>9, <1>11, <1>12, <2>1, <3>1
    <3>4. OperationAt'
      BY <1>13, <2>1, <3>1
    <3> QED
      BY <1>2, <1>14, <1>15, <2>1, <2>2, <2>5, <3>1, <3>2, <3>3, <3>4 DEF QrtrInv
  <2>8. CASE d.what = "reply"
    <3>1. /\ credit' = credit \cup {<<<<ops, i>>, d.id>>} /\ Qrtr!After(d.verdict)
          /\ Open(d.id) /\ (\A id : id = d.id => ~Open(id)')
          /\ d.verdict = "accepted" => d.id[2] \in accepted
      BY <2>1, <2>2, <2>3, <2>4, <2>8
    <3>2. d.verdict \in {"accepted", "rejected", "garbled", "failed"} /\ d.id \in Ids
      BY <2>2, <2>8, DatagramTypes DEF Qrtr!Verdicts
    <3>3. /\ d.id[1] = ops /\ d.id[2] \in 1 .. i /\ d.id = <<d.id[1], d.id[2]>>
          /\ Band /\ i # 1 => d.id[2] # 1
      BY <1>9, <3>1
    <3>4. i = 1 => d.id[2] = 1
      BY <3>3
    <3>5. ASSUME i = 1, NEW id, id[2] = 1 PROVE ~Open(id)'
      <4>1. Open(id) => id = <<ops, 1>>
        BY <1>9, <3>5
      <4>2. d.id = <<ops, 1>>
        BY <3>3, <3>4, <3>5
      <4> QED
        BY <2>2, <3>1, <4>1, <4>2
    <3>6. Loc' /\ OpenAreOwn' /\ OperationAt'
      <4>1. d.verdict = "accepted" => accepted # {} /\ (Band /\ i = 1 => 1 \in accepted)
        BY <3>1, <3>4
      <4> DEFINE outcome == d.verdict
      <4>2. Qrtr!After(outcome) /\ outcome \in {"accepted", "rejected", "garbled", "failed"}
        BY <3>1, <3>2
      <4>3. outcome = "accepted" => accepted # {} /\ (Band /\ i = 1 => 1 \in accepted)
        BY <4>1
      <4> HIDE DEF outcome
      <4>4. qrtrPc \in {"send", "transact"} /\ \A id : Open(id)' => Open(id)
        BY <2>1, <2>2
      <4> QED
        BY <1>24, <2>1, <3>5, <4>2, <4>3, <4>4
    <3>7. Cred'
      <4>1. <<ops, i>> \in Ids
        BY <2>6 DEF Ids
      <4> QED
        BY <1>1, <3>1, <3>2, <4>1 DEF Cred
    <3>8. Band => d.id = <<ops, i>>
      <4>1. Band => i \in {1, 2}
        BY <1>7, <2>6
      <4>2. Band => d.id[2] = i
        BY <3>3, <3>4, <4>1
      <4> QED
        BY <3>3, <4>2
    <3>9. Qrtr!BandCreditsOwn'
      BY <1>3, <1>6, <2>1, <3>1, <3>8 DEF Qrtr!BandCreditsOwn, Band
    <3>10. AcceptedIsTold'
      <4>1. \A r : r = d.id[2] \/ r \in Qrtr!Judged => r \in Qrtr!Judged'
        <5> DEFINE c == <<<<ops, i>>, d.id>>
        <5>1. c \in credit' /\ c[2][2] = d.id[2]
          BY <3>1
        <5> QED
          BY <3>1, <5>1 DEF Qrtr!Judged
      <4>2. \A id : Waits(id) => Waits(id)' \/ id = d.id
        BY <2>2
      <4>3. ops' = ops /\ accepted' = accepted /\ qrtrSock' = qrtrSock
        BY <2>1
      <4> QED
        BY <1>3, <4>1, <4>2, <4>3 DEF AcceptedIsTold
    <3> QED
      BY <1>2, <2>2, <2>5, <3>6, <3>7, <3>9, <3>10 DEF QrtrInv
  <2> QED
    BY <2>7, <2>8
<1>27. CASE Qrtr!Noise
  <2>1. PICK d \in {e \in Qrtr!Datagram : e.what # "reply"} : qrtrInbox' = Append(qrtrInbox, d)
    BY <1>27 DEF Qrtr!Noise
  <2>2. d \in Qrtr!Datagram /\ d.what # "reply"
    OBVIOUS
  <2>3. /\ UNCHANGED <<qrtrSock, qrtrPending, accepted, op, ops, qrtrPc, instance, draining, i, success, credit, qrtrRc>>
        /\ noise' \in 0 .. MaxNoise
    <3>1. /\ (IF Flood THEN Len(qrtrInbox) ELSE noise) < MaxNoise
          /\ noise' = IF Flood THEN noise ELSE noise + 1
      BY <1>27 DEF Qrtr!Noise
    <3>2. noise' \in 0 .. MaxNoise
      BY <1>1, <3>1, QrtrAssumed DEF Link
    <3> QED
      BY <1>27, <3>2 DEF Qrtr!Noise
  <2>4. qrtrInbox' \in Seq(Qrtr!Datagram) /\ LastIs(d)
    BY <1>3, <2>1, <2>2, RepliesCome
  <2>5. (\A id : (Open(id)' <=> Open(id)) /\ (Waits(id)' <=> Waits(id))) /\ RepliesOnce'
    BY <1>3, <2>2, <2>3, <2>4, NoiseOpens
  <2>6. Link' /\ Oper' /\ Loc' /\ Cred'
    BY <1>1, <2>3, <2>4 DEF Link, Oper, Loc, Cred
  <2>7. OpenAreOwn'
    BY <1>9, <1>11, <1>12, <2>3, <2>5
  <2>8. OperationAt'
    BY <1>13, <2>3, <2>5
  <2> QED
    BY <1>2, <1>14, <1>15, <2>3, <2>5, <2>6, <2>7, <2>8 DEF QrtrInv
<1>28. CASE Qrtr!ModemReply
  <2>1. PICK r \in qrtrPending, done \in BOOLEAN, v \in Qrtr!Verdicts :
          /\ v \in {IF done THEN "accepted" ELSE "rejected", "garbled"}
          /\ qrtrPending' = qrtrPending \ {r}
          /\ accepted' = IF done /\ r[1] = ops THEN accepted \cup {r[2]} ELSE accepted
          /\ qrtrInbox' = Append(qrtrInbox, [what |-> "reply", id |-> r, verdict |-> v])
    BY <1>28 DEF Qrtr!ModemReply
  <2>2. UNCHANGED <<qrtrSock, noise, op, ops, qrtrPc, instance, draining, i, success, credit, qrtrRc>>
    BY <1>28 DEF Qrtr!ModemReply
  <2> DEFINE d == [what |-> "reply", id |-> r, verdict |-> v]
  <2>3. r \in Ids /\ Open(r) /\ r[1] = ops /\ r = <<r[1], r[2]>> /\ r[2] \in 1 .. Items
    <3>1. r \in Ids /\ Open(r)
      BY <1>1 DEF Link, Open
    <3> QED
      BY <1>9, <3>1 DEF Ids
  <2>4. d \in Qrtr!Datagram
    BY <2>3 DEF Qrtr!Datagram, Qrtr!Requests, Ids
  <2>5. d.what = "reply" /\ d.id = r /\ d.verdict = v /\ qrtrInbox' = Append(qrtrInbox, d)
    BY <2>1
  <2>6. /\ accepted \subseteq accepted' /\ accepted' \subseteq accepted \cup {r[2]}
        /\ v = "accepted" => r[2] \in accepted'
    BY <2>1, <2>3
  <2>7. qrtrPending' = qrtrPending \ {r} /\ accepted' \subseteq 1 .. Items
    BY <1>1, <2>1, <2>3, <2>6 DEF Link
  <2> HIDE DEF d
  <2>8. qrtrInbox' \in Seq(Qrtr!Datagram) /\ LastIs(d)
    BY <1>3, <2>4, <2>5, RepliesCome
  <2>9. /\ \A id : (Open(id)' <=> Open(id)) /\ (Waits(id)' <=> Waits(id) \/ id = r)
        /\ RepliesOnce'
    BY <1>3, <2>4, <2>5, <2>6, <2>7, <2>8, ReplyOpens
  <2>10. Link' /\ Oper' /\ Loc' /\ Cred'
    BY <1>1, <2>2, <2>7, <2>8 DEF Link, Oper, Loc, Cred
  <2>11. OpenAreOwn'
    BY <1>9, <1>11, <1>12, <2>2, <2>9
  <2>12. OperationAt'
    <3>1. qrtrPc # "lookup"
      BY <1>8, <2>3
    <3> QED
      BY <1>13, <2>2, <2>6, <3>1
  <2>13. AcceptedIsTold'
    <3>1. ASSUME NEW id, id = <<ops, id[2]>>, id[2] \in accepted', qrtrSock = TRUE
          PROVE  Waits(id)' \/ id[2] \in Qrtr!Judged
      <4>1. CASE id[2] \in accepted
        BY <1>3, <2>9, <3>1, <4>1 DEF AcceptedIsTold
      <4>2. CASE id[2] = r[2]
        BY <2>3, <2>9, <3>1, <4>2
      <4> QED
        BY <2>6, <3>1, <4>1, <4>2
    <3> QED
      BY <2>2, <3>1 DEF AcceptedIsTold, Qrtr!Judged
  <2> QED
    BY <1>2, <1>14, <2>2, <2>9, <2>10, <2>11, <2>12, <2>13 DEF QrtrInv
<1>29. CASE Qrtr!Close
  <2>1. /\ qrtrPc = "idle" /\ qrtrSock' = FALSE /\ qrtrInbox' = <<>> /\ qrtrPending' = {}
        /\ UNCHANGED <<accepted, noise, op, ops, qrtrPc, instance, draining, i, success, credit, qrtrRc>>
    BY <1>29 DEF Qrtr!Close
  <2>2. (\A id : ~Open(id)') /\ RepliesOnce'
    BY <1>17, <2>1
  <2>3. Link' /\ Oper' /\ Loc' /\ Cred'
    BY <1>1, <2>1, EmptySeq DEF Link, Oper, Loc, Cred
  <2>4. OpenAreOwn' /\ AcceptedIsTold'
    BY <1>11, <2>1, <2>2 DEF AcceptedIsTold
  <2>5. OperationAt'
    BY <1>13, <2>1, <2>2
  <2> QED
    BY <1>2, <1>14, <2>1, <2>2, <2>3, <2>4, <2>5 DEF QrtrInv
<1> QED
  BY <1>18, <1>20, <1>22, <1>23, <1>25, <1>26, <1>27, <1>28, <1>29 DEF Qrtr!Next, Qrtr!CallStep

LEMMA QrtrInvariant == TransportsSpec => []QrtrInv
  BY QrtrStart, QrtrInitially, QrtrInductive, QrtrSteps, PTL DEF TransportsSpec

(* An operation over QRTR that returns 0 had a request accepted by the     *)
(* modem, the LTE request when it sets the band preference; and that       *)
(* preference is never judged by the reply to another request.             *)
THEOREM OkMeansAcceptedTheorem == TransportsSpec => []OkMeansAccepted
<1>1. QrtrInv => OkMeansAccepted
  BY DEF QrtrInv, OperationAt, OkMeansAccepted, Qrtr!OkMeansAccepted
<1> QED
  BY <1>1, QrtrInvariant, PTL

(* A write that the modem accepted and that a probe or a clear reports as  *)
(* rejected is one whose reply the operation has not read, or has taken    *)
(* for the reply to a write after it.                                      *)
THEOREM RejectedMeansUnreadTheorem == TransportsSpec => []RejectedMeansUnread
<1>1. ASSUME QrtrInv PROVE RejectedMeansUnread
  <2>1. ASSUME NEW r \in accepted, qrtrSock = TRUE PROVE r \in Qrtr!Unread \cup Qrtr!Judged
    <3> DEFINE id == <<ops, r>>
    <3>1. id = <<ops, id[2]>> /\ id[2] = r
      OBVIOUS
    <3> HIDE DEF id
    <3>2. Waits(id) \/ id[2] \in Qrtr!Judged
      BY <1>1, <2>1, <3>1 DEF QrtrInv, AcceptedIsTold
    <3>3. qrtrInbox \in Seq(Qrtr!Datagram) /\ r \in Qrtr!Requests
      BY <1>1 DEF QrtrInv, Qrtr!TypeOK
    <3>4. CASE Waits(id)
      <4>1. PICK n \in ReplyAt : qrtrInbox[n].id = id
        BY <3>4 DEF Waits
      <4>2. qrtrInbox[n] \in Qrtr!ToSet(qrtrInbox) /\ qrtrInbox[n].what = "reply"
        BY <4>1 DEF ReplyAt, Qrtr!ToSet
      <4> QED
        BY <3>3, <4>1, <4>2 DEF Qrtr!Unread, id
    <3> QED
      BY <3>1, <3>2, <3>4
  <2>2. qrtrSock \in BOOLEAN
    BY <1>1 DEF QrtrInv, Qrtr!TypeOK
  <2> QED
    BY <2>1, <2>2 DEF RejectedMeansUnread, Qrtr!RejectedMeansUnread
<1> QED
  BY <1>1, QrtrInvariant, PTL

-----------------------------------------------------------------------------
(* The capture's bytes. What the loop over a sequence finds of it rests on *)
(* an enumeration of positions in order, which exists by induction: there  *)
(* is no least bound below which a set of numbers has none.                *)
LEMMA Least ==
  ASSUME NEW T \in SUBSET Nat, T # {}
  PROVE  \E n \in T : \A m \in T : n <= m
<1> DEFINE R == OpToRel(<, Nat)
<1>1. \A x, y \in Nat : <<x, y>> \in R <=> x < y
  BY DEF OpToRel
<1>2. IsWellFoundedOn(R, Nat)
  BY NatLessThanWellFounded
<1> HIDE DEF R
<1>3. PICK x \in T : \A y \in T : ~(<<y, x>> \in R)
  BY <1>2, WFMin
<1>4. \A y \in T : y \in Nat /\ x \in Nat /\ ~(y < x)
  BY <1>1, <1>3
<1>5. \A y \in T : x <= y
  BY <1>4
<1> QED
  BY <1>5

Enumerates(s, S) ==
  /\ s \in [1 .. Cardinality(S) -> S]
  /\ \A j, k \in DOMAIN s : j < k => s[j] < s[k]

LEMMA EnumerationGrows ==
  ASSUME NEW n \in Nat, NEW S \in SUBSET (1 .. n), NEW s, Enumerates(s, S), NEW x \in Nat, n < x
  PROVE  \E t : Enumerates(t, S \cup {x})
<1>1. IsFiniteSet(S)
  <2>1. 1 \in Int /\ n \in Int
    OBVIOUS
  <2>2. IsFiniteSet(1 .. n)
    BY <2>1, FS_Interval
  <2> QED
    BY <2>2, FS_Subset
<1>2. PICK c \in Nat : c = Cardinality(S)
  BY <1>1, FS_CardinalityType
<1>3. x \notin S
  OBVIOUS
<1>4. Cardinality(S \cup {x}) = c + 1
  BY <1>1, <1>2, <1>3, FS_AddElement
<1> DEFINE m == c + 1
           t == [k \in 1 .. m |-> IF k = m THEN x ELSE s[k]]
<1>5. m \in Nat /\ 1 .. c \subseteq 1 .. m /\ \A k \in 1 .. m : k # m => k \in 1 .. c
  BY <1>2
<1>6. s \in [1 .. c -> S] /\ \A j, k \in 1 .. c : j < k => s[j] < s[k]
  BY <1>2 DEF Enumerates
<1>7. \A j, k \in 1 .. m : j < k => j \in 1 .. c
  BY <1>2
<1> HIDE DEF m
<1>8. t \in [1 .. m -> S \cup {x}]
  BY <1>5, <1>6
<1>9. ASSUME NEW j \in 1 .. m, NEW k \in 1 .. m, j < k PROVE t[j] < t[k]
  <2>0. j \in 1 .. c /\ j # m
    BY <1>5, <1>7, <1>9
  <2>1. t[j] = s[j] /\ s[j] \in 1 .. n
    BY <1>6, <2>0
  <2>2. CASE k = m
    BY <2>1, <2>2
  <2>3. CASE k # m
    BY <1>5, <1>6, <1>9, <2>0, <2>1, <2>3
  <2> QED
    BY <2>2, <2>3
<1>10. DOMAIN t = 1 .. m /\ Cardinality(S \cup {x}) = m
  BY <1>4 DEF m
<1> HIDE DEF t
<1> QED
  BY <1>8, <1>9, <1>10 DEF Enumerates

LEMMA EnumerationExists ==
  ASSUME NEW n \in Nat, NEW S \in SUBSET (1 .. n)
  PROVE  \E s : Enumerates(s, S)
<1> DEFINE Bad == {m \in Nat : \E U \in SUBSET (1 .. m) : ~\E s : Enumerates(s, U)}
<1>1. SUFFICES ASSUME Bad # {} PROVE FALSE
  OBVIOUS
<1>2. PICK m \in Bad : \A k \in Bad : m <= k
  BY <1>1, Least
<1>3. PICK U \in SUBSET (1 .. m) : ~\E s : Enumerates(s, U)
  BY <1>2
<1>4. m \in Nat
  BY <1>2
<1>5. CASE m = 0
  <2>1. U = {}
    BY <1>4, <1>5
  <2>2. Cardinality({}) = 0
    BY FS_EmptySet
  <2>3. <<>> \in [1 .. 0 -> {}] /\ DOMAIN <<>> = 1 .. 0
    OBVIOUS
  <2>4. Enumerates(<<>>, {})
    BY <2>2, <2>3 DEF Enumerates
  <2> QED
    BY <1>3, <2>1, <2>4
<1>6. CASE m # 0
  <2> DEFINE l == m - 1
  <2>1. l \in Nat /\ l < m
    BY <1>4, <1>6
  <2>2. U \ {m} \in SUBSET (1 .. l)
    BY <1>4
  <2>3. l \notin Bad
    BY <1>2, <2>1
  <2>4. \A V \in SUBSET (1 .. l) : \E s : Enumerates(s, V)
    BY <2>1, <2>3
  <2> HIDE DEF l, Bad
  <2>5. PICK s : Enumerates(s, U \ {m})
    BY <2>2, <2>4
  <2>6. \E t : Enumerates(t, (U \ {m}) \cup {m})
    BY <1>4, <2>1, <2>2, <2>5, EnumerationGrows
  <2>7. CASE m \in U
    <3>1. (U \ {m}) \cup {m} = U
      BY <2>7
    <3> QED
      BY <1>3, <2>6, <3>1
  <2>8. CASE m \notin U
    <3>1. U \ {m} = U
      BY <2>8
    <3> QED
      BY <1>3, <2>5, <3>1
  <2> QED
    BY <2>7, <2>8
<1> QED
  BY <1>5, <1>6

(* InOrder lists the whole set, each element once, by size.                *)
LEMMA InOrderLists ==
  ASSUME NEW n \in Nat, NEW S \in SUBSET (1 .. n)
  PROVE  \E m \in Nat :
           /\ Gather!InOrder(S) \in [1 .. m -> S]
           /\ \A j, k \in 1 .. m : j < k => Gather!InOrder(S)[j] < Gather!InOrder(S)[k]
           /\ \A x \in S : \E k \in 1 .. m : Gather!InOrder(S)[k] = x
<1> DEFINE s == Gather!InOrder(S)
<1>1. IsFiniteSet(S)
  <2>1. 1 \in Int /\ n \in Int
    OBVIOUS
  <2>2. IsFiniteSet(1 .. n)
    BY <2>1, FS_Interval
  <2> QED
    BY <2>2, FS_Subset
<1>2. PICK c \in Nat : c = Cardinality(S)
  BY <1>1, FS_CardinalityType
<1>3. s = CHOOSE t \in [1 .. Cardinality(S) -> S] : \A j, k \in DOMAIN t : j < k => t[j] < t[k]
  BY DEF Gather!InOrder, Gather!Cardinality, Cardinality
<1>4. Enumerates(s, S)
  BY <1>3, EnumerationExists DEF Enumerates
<1> HIDE DEF s
<1>5. s \in [1 .. c -> S] /\ \A j, k \in 1 .. c : j < k => s[j] < s[k]
  BY <1>2, <1>4 DEF Enumerates
<1>6. ASSUME NEW j \in 1 .. c, NEW k \in 1 .. c, s[j] = s[k] PROVE j = k
  <2>1. s[j] \in S /\ s[k] \in S
    BY <1>5
  <2>3. s[j] \in Nat
    <3>1. \A x \in S : x \in Nat
      OBVIOUS
    <3> QED
      BY <2>1, <3>1
  <2>2. ~(s[j] < s[k]) /\ ~(s[k] < s[j])
    BY <1>6, <2>3
  <2>4. j \in Nat /\ k \in Nat /\ ~(j < k) /\ ~(k < j)
    BY <1>5, <2>2
  <2> QED
    BY <2>4
<1>7. s \in Injection(1 .. c, S)
  BY <1>5, <1>6 DEF Injection, IsInjective
<1>8. Cardinality(1 .. c) = c
  <2>0. 1 \in Int /\ c \in Int
    BY <1>2
  <2>1. Cardinality(1 .. c) = IF 1 > c THEN 0 ELSE c - 1 + 1
    BY <2>0, FS_Interval
  <2> QED
    BY <1>2, <2>1
<1>9. s \in Surjection(1 .. c, S)
  BY <1>1, <1>2, <1>7, <1>8, FS_Injection
<1>10. \A x \in S : \E k \in 1 .. c : s[k] = x
  BY <1>9 DEF Surjection
<1> QED
  BY <1>2, <1>5, <1>10 DEF s

-----------------------------------------------------------------------------
Bytes == {c \in [frame : DOMAIN sent, at : Nat] : c.at \in 1 .. sent[c.frame].raw}

LEMMA KindsAssumed ==
  /\ AccCap \in Nat /\ Chunk \in 1 .. AccCap /\ DecodeCap \in Nat
  /\ MaxFrames \in Nat /\ MaxTaken \in Nat
  /\ \A k \in FrameKinds : /\ k.raw \in Nat \ {0} /\ k.plain \in Nat
                           /\ k.plain + 1 <= k.raw /\ k.raw <= 2 * k.plain + 1
  BY TransportsAssumption DEF Gather!AccumulatorAssumption

LEMMA KindOf ==
  ASSUME sent \in Seq(FrameKinds), NEW f \in DOMAIN sent
  PROVE  /\ f \in Nat /\ sent[f].raw \in Nat \ {0} /\ sent[f].plain \in Nat
         /\ sent[f].plain + 1 <= sent[f].raw /\ sent[f].raw <= 2 * sent[f].plain + 1
<1>1. sent[f] \in FrameKinds /\ f \in 1 .. Len(sent) /\ Len(sent) \in Nat
  OBVIOUS
<1> QED
  BY <1>1, KindsAssumed

Flags(s) == {j \in DOMAIN s : Gather!IsFlag(s[j])}

(* s[b + 1] to s[e] is what the loop takes for a frame: it ends with a     *)
(* flag, and begins behind the flag before or with s.                      *)
Cut(s, b, e) ==
  /\ e \in Flags(s) /\ b \in Flags(s) \cup {0} /\ b < e
  /\ \A j \in Flags(s) : ~(b < j /\ j < e)

(* The part of s behind b up to e.                                         *)
Span(s, b, e) == SubSeq(s, b + 1, e)

LEMMA WholeSpan == ASSUME NEW s \in Seq(Bytes) PROVE Span(s, 0, Len(s)) = s
<1>1. 0 + 1 = 1
  OBVIOUS
<1>2. SubSeq(s, 1, Len(s)) = s
  BY SubSeqFull
<1> QED
  BY <1>1, <1>2 DEF Span

LEMMA EndsList ==
  ASSUME NEW s \in Seq(Bytes)
  PROVE  \E m \in Nat :
           /\ Gather!Ends(s) \in [1 .. m -> Flags(s)]
           /\ \A j, k \in 1 .. m : j < k => Gather!Ends(s)[j] < Gather!Ends(s)[k]
           /\ \A x \in Flags(s) : \E k \in 1 .. m : Gather!Ends(s)[k] = x
<1>1. DOMAIN s = 1 .. Len(s) /\ Len(s) \in Nat
  OBVIOUS
<1>2. Flags(s) \in SUBSET (1 .. Len(s))
  BY <1>1 DEF Flags
<1>3. Gather!Ends(s) = Gather!InOrder(Flags(s))
  BY DEF Gather!Ends, Flags
<1>4. PICK n \in Nat : n = Len(s)
  BY <1>1
<1>5. PICK S : S = Flags(s)
  OBVIOUS
<1>6. S \in SUBSET (1 .. n)
  BY <1>2, <1>4, <1>5
<1>7. \E m \in Nat :
        /\ Gather!InOrder(S) \in [1 .. m -> S]
        /\ \A j, k \in 1 .. m : j < k => Gather!InOrder(S)[j] < Gather!InOrder(S)[k]
        /\ \A x \in S : \E k \in 1 .. m : Gather!InOrder(S)[k] = x
  BY <1>6, InOrderLists
<1> QED
  BY <1>3, <1>5, <1>7

(* Of two cuts with the same end there is one.                             *)
LEMMA CutOnce ==
  ASSUME NEW s \in Seq(Bytes), NEW b, NEW c, NEW e, Cut(s, b, e), Cut(s, c, e)
  PROVE  b = c
<1>1. b \in Nat /\ c \in Nat
  BY DEF Cut, Flags
<1>2. ~(b < c) /\ ~(c < b)
  BY <1>1 DEF Cut
<1> QED
  BY <1>1, <1>2

LEMMA PiecesAreCuts ==
  ASSUME NEW s \in Seq(Bytes)
  PROVE  \E m \in Nat : \E ends \in [1 .. m -> Flags(s)] :
           /\ \A j, k \in 1 .. m : j < k => ends[j] < ends[k]
           /\ DOMAIN Gather!Pieces(s) = 1 .. m
           /\ \A k \in 1 .. m : \E b \in Nat :
                Cut(s, b, ends[k]) /\ Gather!Pieces(s)[k] = Span(s, b, ends[k])
           /\ \A b \in Nat : \A e \in Nat : Cut(s, b, e) =>
                \E k \in 1 .. m : ends[k] = e /\ Gather!Pieces(s)[k] = Span(s, b, e)
<1> DEFINE E == Gather!Ends(s)
<1>1. PICK m \in Nat :
        /\ E \in [1 .. m -> Flags(s)]
        /\ \A j, k \in 1 .. m : j < k => E[j] < E[k]
        /\ \A x \in Flags(s) : \E k \in 1 .. m : E[k] = x
  BY EndsList
<1>2. Gather!Pieces(s) =
        [k \in DOMAIN E |-> SubSeq(s, IF k = 1 THEN 1 ELSE E[k - 1] + 1, E[k])]
  BY DEF Gather!Pieces
<1> HIDE DEF E
<1>3. DOMAIN Gather!Pieces(s) = 1 .. m
  BY <1>1, <1>2
<1>4. Flags(s) \subseteq 1 .. Len(s) /\ Len(s) \in Nat
  BY DEF Flags
<1>5. ASSUME NEW k \in 1 .. m
      PROVE  \E b \in Nat : Cut(s, b, E[k]) /\ Gather!Pieces(s)[k] = Span(s, b, E[k])
  <2>1. E[k] \in Flags(s)
    BY <1>1
  <2>2. CASE k = 1
    <3>1. Gather!Pieces(s)[k] = Span(s, 0, E[k])
      <4>1. 0 + 1 = 1
        OBVIOUS
      <4> QED
        BY <1>1, <1>2, <2>2, <4>1 DEF Span
    <3>2. ASSUME NEW x \in Flags(s) PROVE ~(x < E[k])
      <4>1. PICK l \in 1 .. m : E[l] = x
        BY <1>1
      <4>2. l = k \/ E[k] < E[l]
        BY <1>1, <2>2
      <4>3. E[k] \in Nat /\ E[l] \in Nat
        BY <1>4, <2>1, <4>1
      <4> QED
        BY <4>1, <4>2, <4>3
    <3>3. 0 < E[k]
      BY <1>4, <2>1
    <3>4. Cut(s, 0, E[k])
      BY <2>1, <3>2, <3>3 DEF Cut
    <3> QED
      BY <3>1, <3>3, <3>4
  <2>3. CASE k # 1
    <3> DEFINE l == k - 1
    <3>1. l \in 1 .. m /\ l < k /\ k \in 1 .. m /\ \A j \in 1 .. m : j < l \/ j = l \/ j = k \/ k < j
      BY <2>3
    <3>2. Gather!Pieces(s)[k] = Span(s, E[l], E[k])
      BY <1>1, <1>2, <2>3 DEF Span
    <3> HIDE DEF l
    <3>3. E[l] \in Flags(s) /\ E[l] < E[k]
      BY <1>1, <3>1
    <3>4. ASSUME NEW x \in Flags(s) PROVE ~(E[l] < x /\ x < E[k])
      <4>1. PICK j \in 1 .. m : E[j] = x
        BY <1>1
      <4>2. E[j] < E[l] \/ E[j] = E[l] \/ E[j] = E[k] \/ E[k] < E[j]
        BY <1>1, <3>1
      <4>3. E[k] \in Nat /\ E[l] \in Nat /\ E[j] \in Nat
        BY <1>4, <2>1, <3>3, <4>1
      <4> QED
        BY <4>1, <4>2, <4>3
    <3>5. Cut(s, E[l], E[k])
      BY <2>1, <3>3, <3>4 DEF Cut
    <3>6. E[l] \in Nat
      BY <1>4, <3>3
    <3> QED
      BY <3>2, <3>5, <3>6
  <2> QED
    BY <2>2, <2>3
<1>6. ASSUME NEW b \in Nat, NEW e \in Nat, Cut(s, b, e)
      PROVE  \E k \in 1 .. m : E[k] = e /\ Gather!Pieces(s)[k] = Span(s, b, e)
  <2>1. PICK k \in 1 .. m : E[k] = e
    BY <1>1, <1>6 DEF Cut
  <2>2. PICK c \in Nat : Cut(s, c, E[k]) /\ Gather!Pieces(s)[k] = Span(s, c, E[k])
    BY <1>5
  <2>3. b = c
    BY <1>6, <2>1, <2>2, CutOnce
  <2> QED
    BY <2>1, <2>2, <2>3
<1> QED
  BY <1>1, <1>3, <1>5, <1>6

LEMMA RestIsBehind ==
  ASSUME NEW s \in Seq(Bytes)
  PROVE  \E b \in Flags(s) \cup {0} :
           (\A j \in Flags(s) : j <= b) /\ Gather!Rest(s) = Span(s, b, Len(s))
<1> DEFINE E == Gather!Ends(s)
<1>1. PICK m \in Nat :
        /\ E \in [1 .. m -> Flags(s)]
        /\ \A j, k \in 1 .. m : j < k => E[j] < E[k]
        /\ \A x \in Flags(s) : \E k \in 1 .. m : E[k] = x
  BY EndsList
<1>2. Gather!Rest(s) = IF E = <<>> THEN s ELSE Span(s, E[Len(E)], Len(s))
  BY DEF Gather!Rest, Gather!Last, Span
<1> HIDE DEF E
<1>3. Flags(s) \subseteq 1 .. Len(s) /\ Len(s) \in Nat
  BY DEF Flags
<1>4. E \in Seq(Flags(s)) /\ Len(E) = m
  BY <1>1
<1>5. CASE m = 0
  <2>1. E = <<>>
    BY <1>4, <1>5
  <2>2. Flags(s) = {}
    BY <1>1, <1>5
  <2>3. Span(s, 0, Len(s)) = s
    BY WholeSpan
  <2> QED
    BY <1>2, <2>1, <2>2, <2>3
<1>6. CASE m # 0
  <2>1. E # <<>> /\ m \in 1 .. m
    BY <1>4, <1>6
  <2>2. E[m] \in Flags(s)
    BY <1>1, <2>1
  <2>3. ASSUME NEW x \in Flags(s) PROVE x <= E[m]
    <3>1. PICK k \in 1 .. m : E[k] = x
      BY <1>1
    <3>2. k = m \/ k < m
      BY <3>1
    <3>3. E[k] = E[m] \/ E[k] < E[m]
      BY <1>1, <2>1, <3>1, <3>2
    <3>4. E[m] \in Nat /\ x \in Nat
      BY <1>3, <2>2
    <3> QED
      BY <3>1, <3>3, <3>4
  <2> QED
    BY <1>2, <1>4, <2>1, <2>2, <2>3
<1> QED
  BY <1>5, <1>6

LEMMA Slice ==
  ASSUME NEW s \in Seq(Bytes), NEW b \in Nat, NEW e \in Nat, b <= e, e <= Len(s)
  PROVE  /\ Span(s, b, e) \in Seq(Bytes)
         /\ Len(Span(s, b, e)) = e - b
         /\ \A j \in 1 .. e - b : Span(s, b, e)[j] = s[b + j]
<1> DEFINE m == b + 1
<1>1. m \in Int /\ e \in Int
  OBVIOUS
<1>2. \A j \in m .. e : s[j] \in Bytes
  OBVIOUS
<1>3. /\ (IF m <= e THEN e - m + 1 ELSE 0) = e - b /\ e - m + 1 = e - b
      /\ \A j \in 1 .. e - b : m + j - 1 = b + j
  OBVIOUS
<1> HIDE DEF m
<1>4. /\ SubSeq(s, m, e) \in Seq(Bytes)
      /\ Len(SubSeq(s, m, e)) = IF m <= e THEN e - m + 1 ELSE 0
      /\ \A j \in 1 .. e - m + 1 : SubSeq(s, m, e)[j] = s[m + j - 1]
  BY <1>1, <1>2, SubSeqProperties
<1>5. SubSeq(s, m, e) \in Seq(Bytes) /\ Len(SubSeq(s, m, e)) = e - b
  BY <1>3, <1>4
<1>6. \A j \in 1 .. e - b : SubSeq(s, m, e)[j] = s[b + j]
  BY <1>3, <1>4
<1> QED
  BY <1>5, <1>6 DEF m, Span

Part(p, s, b, n) == p \in Seq(Bytes) /\ Len(p) = n /\ \A j \in 1 .. n : p[j] = s[b + j]

LEMMA SliceIs ==
  ASSUME NEW s \in Seq(Bytes), NEW b \in Nat, NEW e \in Nat, NEW n \in Nat, b + n = e,
         e <= Len(s), NEW p, p = Span(s, b, e)
  PROVE  Part(p, s, b, n)
<1>1. b <= e /\ e - b = n
  OBVIOUS
<1>2. /\ Span(s, b, e) \in Seq(Bytes) /\ Len(Span(s, b, e)) = e - b
      /\ \A j \in 1 .. e - b : Span(s, b, e)[j] = s[b + j]
  BY <1>1, Slice
<1>3. \A j \in 1 .. n : Span(s, b, e)[j] = s[b + j]
  BY <1>1, <1>2
<1> QED
  BY <1>1, <1>2, <1>3 DEF Part

Joined(S, w, s, t, m, n) ==
  /\ w \in Seq(S) /\ Len(w) = m + n
  /\ \A j \in 1 .. m : w[j] = s[j]
  /\ \A j \in 1 .. n : w[m + j] = t[j]

LEMMA JoinIs ==
  ASSUME NEW S, NEW s \in Seq(S), NEW t \in Seq(S), NEW m \in Nat, m = Len(s),
         NEW n \in Nat, n = Len(t), NEW w, w = s \o t
  PROVE  Joined(S, w, s, t, m, n)
<1>1. /\ s \o t \in Seq(S) /\ Len(s \o t) = Len(s) + Len(t)
      /\ \A j \in 1 .. Len(s) + Len(t) :
           (s \o t)[j] = IF j <= Len(s) THEN s[j] ELSE t[j - Len(s)]
  BY ConcatProperties
<1>2. w \in Seq(S) /\ Len(w) = m + n
  BY <1>1
<1>3. ASSUME NEW j \in 1 .. m PROVE w[j] = s[j]
  <2>1. j \in 1 .. Len(s) + Len(t) /\ j <= Len(s)
    OBVIOUS
  <2> QED
    BY <1>1, <2>1
<1>4. ASSUME NEW j \in 1 .. n PROVE w[m + j] = t[j]
  <2>1. m + j \in 1 .. Len(s) + Len(t) /\ ~(m + j <= Len(s)) /\ m + j - Len(s) = j
    OBVIOUS
  <2>2. (s \o t)[m + j] = t[m + j - Len(s)]
    BY <1>1, <2>1
  <2> QED
    BY <2>1, <2>2
<1> QED
  BY <1>2, <1>3, <1>4 DEF Joined

LEMMA JoinTwice ==
  ASSUME NEW s \in Seq(Bytes), NEW t \in Seq(Bytes), NEW w \in Seq(Bytes)
  PROVE  (s \o t) \o w = s \o (t \o w)
  BY ConcatAssociative

(* A whole frame ends with the byte at the place of its length, the flag.  *)
LEMMA FrameEnds ==
  ASSUME sent \in Seq(FrameKinds), NEW s \in Seq(Bytes), NEW b \in Nat, NEW e \in Nat,
         b < e, e <= Len(s), Gather!IsFrame(Span(s, b, e))
  PROVE  /\ Span(s, b, e)[1].frame = s[e].frame
         /\ s[e].frame \in DOMAIN sent
         /\ sent[s[e].frame].raw = e - b
<1> DEFINE t == Span(s, b, e)
           f == t[1].frame
           n == e - b
<1>1. n \in Nat \ {0} /\ 1 \in 1 .. n /\ n \in 1 .. n
  OBVIOUS
<1>2. t \in Seq(Bytes) /\ Len(t) = n /\ t[n] = s[b + n]
  BY <1>1, Slice
<1>3. b + n = e
  OBVIOUS
<1>4. t = [j \in 1 .. sent[f].raw |-> [frame |-> f, at |-> j]]
  BY DEF Gather!IsFrame, Gather!BytesOf
<1> HIDE DEF t, n
<1>5. t[1] \in Bytes
  BY <1>1, <1>2
<1>6. f \in DOMAIN sent
  BY <1>5 DEF Bytes
<1>7. sent[f].raw \in Nat
  BY <1>6, KindOf
<1> HIDE DEF f
<1>8. sent[f].raw = n
  <2>1. DOMAIN t = 1 .. sent[f].raw /\ DOMAIN t = 1 .. n
    BY <1>2, <1>4
  <2>2. PICK r \in Nat : r = sent[f].raw
    BY <1>7
  <2>3. 1 .. r = 1 .. n
    BY <2>1, <2>2
  <2>4. n \in 1 .. r /\ n \in Nat
    BY <1>1, <2>2, <2>3
  <2>5. r \in 1 .. r
    BY <2>4
  <2>6. r \in 1 .. n
    BY <2>3, <2>5
  <2>7. r = n
    BY <2>4, <2>6
  <2> QED
    BY <2>2, <2>7
<1>9. t[n] = [frame |-> f, at |-> n]
  BY <1>1, <1>4, <1>8
<1>10. s[e].frame = f
  <2>1. s[e] = t[n]
    BY <1>2, <1>3
  <2>2. s[e] = [frame |-> f, at |-> n]
    BY <1>9, <2>1
  <2> QED
    BY <2>2
<1> QED
  BY <1>6, <1>8, <1>10 DEF t, f, n

LEMMA DecodedIsLong ==
  ASSUME sent \in Seq(FrameKinds), NEW s \in Seq(Bytes), NEW b \in Nat, NEW e \in Nat,
         b < e, e <= Len(s), Gather!Decodes(Span(s, b, e))
  PROVE  /\ Len(Span(s, b, e)) > 3
         /\ e - b <= 2 * DecodeCap + 1
<1> DEFINE f == s[e].frame
<1>1. Gather!IsFrame(Span(s, b, e))
  BY DEF Gather!Decodes
<1>2. f \in DOMAIN sent /\ sent[f].raw = e - b /\ sent[Span(s, b, e)[1].frame] = sent[f]
  BY <1>1, FrameEnds
<1>3. sent[f].plain \in 3 .. DecodeCap
  BY <1>2 DEF Gather!Decodes
<1>4. Len(Span(s, b, e)) = e - b
  BY Slice
<1>5. sent[f].plain + 1 <= sent[f].raw /\ sent[f].raw <= 2 * sent[f].plain + 1 /\ sent[f].plain \in Nat
  BY <1>2, KindOf
<1>6. PICK p \in Nat : p = sent[f].plain
  BY <1>5
<1> HIDE DEF f
<1>7. p + 1 <= e - b /\ e - b <= 2 * p + 1 /\ 3 <= p /\ p <= DecodeCap
  BY <1>2, <1>3, <1>5, <1>6
<1> QED
  BY <1>4, <1>7, KindsAssumed

(* What is pushed: the frames of the pieces that decode, in order.         *)
LEMMA ExtractedAre ==
  ASSUME sent \in Seq(FrameKinds), NEW s \in Seq(Bytes)
  PROVE  \E m \in Nat : \E ends \in [1 .. m -> Flags(s)] :
           /\ \A j, k \in 1 .. m : j < k => ends[j] < ends[k]
           /\ Gather!Extracted(s) = [k \in 1 .. m |-> s[ends[k]].frame]
           /\ \A k \in 1 .. m : \E b \in Nat :
                Cut(s, b, ends[k]) /\ Gather!IsFrame(Span(s, b, ends[k]))
           /\ \A b \in Nat : \A e \in Nat :
                Cut(s, b, e) /\ Gather!Decodes(Span(s, b, e)) =>
                  \E k \in 1 .. m : ends[k] = e
<1> DEFINE p == Gather!Pieces(s)
           G == {k \in DOMAIN p : Len(p[k]) > 3 /\ Gather!Decodes(p[k])}
           g == Gather!InOrder(G)
<1>1. PICK n \in Nat : \E E \in [1 .. n -> Flags(s)] :
           /\ \A j, k \in 1 .. n : j < k => E[j] < E[k]
           /\ DOMAIN p = 1 .. n
           /\ \A k \in 1 .. n : \E b \in Nat : Cut(s, b, E[k]) /\ p[k] = Span(s, b, E[k])
           /\ \A b \in Nat : \A e \in Nat : Cut(s, b, e) =>
                \E k \in 1 .. n : E[k] = e /\ p[k] = Span(s, b, e)
  BY PiecesAreCuts
<1>2. PICK E \in [1 .. n -> Flags(s)] :
           /\ \A j, k \in 1 .. n : j < k => E[j] < E[k]
           /\ DOMAIN p = 1 .. n
           /\ \A k \in 1 .. n : \E b \in Nat : Cut(s, b, E[k]) /\ p[k] = Span(s, b, E[k])
           /\ \A b \in Nat : \A e \in Nat : Cut(s, b, e) =>
                \E k \in 1 .. n : E[k] = e /\ p[k] = Span(s, b, e)
  BY <1>1
<1>3. Gather!Extracted(s) = [k \in DOMAIN g |-> p[g[k]][1].frame]
  BY DEF Gather!Extracted
<1> HIDE DEF p
<1>4. G \in SUBSET (1 .. n)
  BY <1>2
<1>5. \A k \in G : k \in 1 .. n /\ Gather!Decodes(p[k])
  BY <1>2
<1>6. \A k \in 1 .. n : Len(p[k]) > 3 /\ Gather!Decodes(p[k]) => k \in G
  BY <1>2
<1> HIDE DEF G
<1>7. PICK m \in Nat :
        /\ g \in [1 .. m -> G]
        /\ \A j, k \in 1 .. m : j < k => g[j] < g[k]
        /\ \A x \in G : \E k \in 1 .. m : g[k] = x
  BY <1>4, InOrderLists
<1> HIDE DEF g
<1> DEFINE ends == [k \in 1 .. m |-> E[g[k]]]
<1>8. \A k \in 1 .. m : g[k] \in 1 .. n /\ ends[k] = E[g[k]] /\ ends[k] \in Flags(s)
  BY <1>2, <1>5, <1>7
<1>9. ends \in [1 .. m -> Flags(s)]
  BY <1>8
<1> HIDE DEF ends
<1>10. \A j, k \in 1 .. m : j < k => ends[j] < ends[k]
  BY <1>2, <1>7, <1>8
<1>11. Flags(s) \subseteq 1 .. Len(s) /\ Len(s) \in Nat
  BY DEF Flags
<1>12. ASSUME NEW k \in 1 .. m
       PROVE  /\ p[g[k]][1].frame = s[ends[k]].frame
              /\ \E b \in Nat : Cut(s, b, ends[k]) /\ Gather!IsFrame(Span(s, b, ends[k]))
  <2>1. PICK l \in 1 .. n : l = g[k] /\ ends[k] = E[l]
    BY <1>8
  <2>2. PICK b \in Nat : Cut(s, b, E[l]) /\ p[l] = Span(s, b, E[l])
    BY <1>2
  <2>3. Cut(s, b, ends[k]) /\ p[g[k]] = Span(s, b, ends[k])
    BY <2>1, <2>2
  <2>4. Gather!Decodes(p[g[k]])
    BY <1>5, <1>7
  <2>5. Gather!IsFrame(Span(s, b, ends[k]))
    BY <2>3, <2>4 DEF Gather!Decodes
  <2>6. PICK e \in Nat : e = ends[k] /\ b < e /\ e <= Len(s)
    BY <1>8, <1>11, <2>3 DEF Cut
  <2>7. Span(s, b, e)[1].frame = s[e].frame
    BY <2>5, <2>6, FrameEnds
  <2> QED
    BY <2>3, <2>5, <2>6, <2>7
<1>13. Gather!Extracted(s) = [k \in 1 .. m |-> s[ends[k]].frame]
  BY <1>3, <1>7, <1>12
<1>14. ASSUME NEW b \in Nat, NEW e \in Nat, Cut(s, b, e), Gather!Decodes(Span(s, b, e))
       PROVE  \E k \in 1 .. m : ends[k] = e
  <2>1. PICK l \in 1 .. n : E[l] = e /\ p[l] = Span(s, b, e)
    BY <1>2, <1>14
  <2>2. b < e /\ e <= Len(s)
    BY <1>11, <1>14 DEF Cut
  <2>3. Len(Span(s, b, e)) > 3
    BY <1>14, <2>2, DecodedIsLong
  <2>4. l \in G
    BY <1>6, <1>14, <2>1, <2>3
  <2>5. PICK k \in 1 .. m : g[k] = l
    BY <1>7, <2>4
  <2> QED
    BY <1>8, <2>1, <2>5
<1> QED
  BY <1>9, <1>10, <1>12, <1>13, <1>14

-----------------------------------------------------------------------------
(* a is the end of u, and all flags of u are in it.                        *)
Suffix(a, u) ==
  /\ Len(a) <= Len(u)
  /\ \A j \in 1 .. Len(a) : a[j] = u[Len(u) - Len(a) + j]

HasFlags(a, u) == \A x \in Flags(u) : Len(u) - Len(a) < x

LEMMA SuffixFlags ==
  ASSUME NEW a \in Seq(Bytes), NEW u \in Seq(Bytes), Suffix(a, u), HasFlags(a, u),
         NEW d \in Nat, d = Len(u) - Len(a)
  PROVE  /\ \A x \in Flags(a) : x + d \in Flags(u)
         /\ \A x \in Flags(u) : x - d \in Flags(a) /\ d < x
<1>1. Len(a) \in Nat /\ Len(u) \in Nat /\ DOMAIN a = 1 .. Len(a) /\ DOMAIN u = 1 .. Len(u)
  OBVIOUS
<1>2. ASSUME NEW x \in Flags(a) PROVE x + d \in Flags(u)
  <2>1. x \in 1 .. Len(a) /\ Gather!IsFlag(a[x])
    BY <1>1, <1>2 DEF Flags
  <2>2. a[x] = u[d + x]
    BY <2>1 DEF Suffix
  <2>3. d + x = x + d /\ x + d \in 1 .. Len(u)
    BY <1>1, <2>1
  <2> QED
    BY <1>1, <2>1, <2>2, <2>3 DEF Flags
<1>3. ASSUME NEW x \in Flags(u) PROVE x - d \in Flags(a) /\ d < x
  <2>1. x \in 1 .. Len(u) /\ Gather!IsFlag(u[x]) /\ d < x
    BY <1>1, <1>3 DEF Flags, HasFlags
  <2>2. x - d \in 1 .. Len(a) /\ d + (x - d) = x
    BY <1>1, <2>1
  <2>3. a[x - d] = u[d + (x - d)]
    BY <2>2 DEF Suffix
  <2> QED
    BY <1>1, <2>1, <2>2, <2>3 DEF Flags
<1> QED
  BY <1>2, <1>3

(* A piece of the end is the same piece of the whole.                      *)
LEMMA SuffixSlice ==
  ASSUME NEW a \in Seq(Bytes), NEW u \in Seq(Bytes), Suffix(a, u),
         NEW b \in Nat, NEW e \in Nat, b <= e, e <= Len(a),
         NEW c \in Nat, NEW f \in Nat, c = b + (Len(u) - Len(a)), f = e + (Len(u) - Len(a))
  PROVE  Span(a, b, e) = Span(u, c, f)
<1> DEFINE d == Len(u) - Len(a)
<1>1. Len(a) \in Nat /\ Len(u) \in Nat
  OBVIOUS
<1>2. c <= f /\ f <= Len(u) /\ f - c = e - b
  BY <1>1
<1>3. /\ Span(a, b, e) \in Seq(Bytes) /\ Len(Span(a, b, e)) = e - b
      /\ \A j \in 1 .. e - b : Span(a, b, e)[j] = a[b + j]
  BY Slice
<1>4. \A j \in 1 .. e - b : c + j = d + (b + j) /\ b + j \in 1 .. Len(a)
  BY <1>1
<1>5. /\ Span(u, c, f) \in Seq(Bytes) /\ Len(Span(u, c, f)) = f - c
      /\ \A j \in 1 .. f - c : Span(u, c, f)[j] = u[c + j]
  BY <1>2, Slice
<1>6. \A j \in 1 .. e - b : Span(a, b, e)[j] = Span(u, c, f)[j]
  <2> TAKE j \in 1 .. e - b
  <2>1. Span(a, b, e)[j] = a[b + j] /\ Span(u, c, f)[j] = u[c + j]
    BY <1>2, <1>3, <1>5
  <2>2. a[b + j] = u[d + (b + j)]
    BY <1>4 DEF Suffix
  <2> QED
    BY <1>4, <2>1, <2>2
<1>7. Span(a, b, e) = Span(u, c, f)
  BY <1>2, <1>3, <1>5, <1>6, SeqEqual
<1> QED
  BY <1>7

LEMMA SuffixCut ==
  ASSUME NEW a \in Seq(Bytes), NEW u \in Seq(Bytes), Suffix(a, u), HasFlags(a, u),
         NEW d \in Nat, d = Len(u) - Len(a),
         NEW b \in Nat, NEW e \in Nat, Cut(a, b, e)
  PROVE  \E c \in Nat : c <= b + d /\ Cut(u, c, e + d)
<1>1. /\ \A x \in Flags(a) : x + d \in Flags(u)
      /\ \A x \in Flags(u) : x - d \in Flags(a) /\ d < x
  BY SuffixFlags
<1>2. Flags(u) \subseteq Nat
  BY DEF Flags
<1>3. e + d \in Flags(u) /\ b < e
  BY <1>1 DEF Cut
<1>4. ASSUME NEW x \in Flags(u), b + d < x PROVE ~(x < e + d)
  <2>1. x - d \in Flags(a)
    BY <1>1
  <2>2. ~(b < x - d /\ x - d < e)
    BY <2>1 DEF Cut
  <2>3. x \in Nat
    BY <1>2
  <2> QED
    BY <1>4, <2>2, <2>3
<1>5. CASE b \in Flags(a)
  <2>1. b + d \in Flags(u)
    BY <1>1, <1>5
  <2>2. b + d < e + d /\ b + d <= b + d /\ b + d \in Nat
    BY <1>3
  <2>3. Cut(u, b + d, e + d)
    BY <1>3, <1>4, <2>1, <2>2 DEF Cut
  <2> QED
    BY <2>2, <2>3
<1>6. CASE b \notin Flags(a)
  <2>1. b = 0
    BY <1>6 DEF Cut
  <2>2. \A x \in Flags(u) : ~(0 < x /\ x < e + d)
    BY <1>1, <1>4, <2>1
  <2>3. 0 < e + d /\ 0 <= b + d
    BY <1>3, <2>1
  <2>4. Cut(u, 0, e + d)
    BY <1>3, <2>2, <2>3 DEF Cut
  <2> QED
    BY <2>3, <2>4
<1> QED
  BY <1>5, <1>6

LEMMA CutOfSuffix ==
  ASSUME NEW a \in Seq(Bytes), NEW u \in Seq(Bytes), Suffix(a, u), HasFlags(a, u),
         NEW b \in Nat, NEW e \in Nat, Cut(u, b, e), b = 0 => Len(a) = Len(u)
  PROVE  \E g \in Nat, h \in Nat :
           /\ Cut(a, g, h) /\ h <= Len(a)
           /\ b = g + (Len(u) - Len(a)) /\ e = h + (Len(u) - Len(a))
<1>1. PICK d \in Nat : d = Len(u) - Len(a) /\ (b = 0 => d = 0)
  <2>1. Len(a) \in Nat /\ Len(u) \in Nat /\ Len(a) <= Len(u)
    BY DEF Suffix
  <2>2. Len(u) - Len(a) \in Nat /\ (Len(a) = Len(u) => Len(u) - Len(a) = 0)
    BY <2>1
  <2> QED
    BY <2>2
<1>2. /\ \A x \in Flags(a) : x + d \in Flags(u)
      /\ \A x \in Flags(u) : x - d \in Flags(a) /\ d < x
  BY <1>1, SuffixFlags
<1>3. Flags(a) \subseteq 1 .. Len(a) /\ Len(a) \in Nat
  BY DEF Flags
<1>4. e - d \in Flags(a) /\ b < e
  BY <1>2 DEF Cut
<1>5. b - d \in Flags(a) \cup {0}
  <2>1. CASE b \in Flags(u)
    BY <1>2, <2>1
  <2>2. CASE b \notin Flags(u)
    <3>1. b = 0
      BY <2>2 DEF Cut
    <3> QED
      BY <1>1, <3>1
  <2> QED
    BY <2>1, <2>2
<1>6. ASSUME NEW x \in Flags(a) PROVE ~(b - d < x /\ x < e - d)
  <2>1. x + d \in Flags(u)
    BY <1>2
  <2>2. ~(b < x + d /\ x + d < e)
    BY <2>1 DEF Cut
  <2>3. x \in Nat
    BY <1>3
  <2> QED
    BY <2>2, <2>3
<1>7. b - d \in Nat /\ e - d \in Nat /\ e - d <= Len(a)
  BY <1>3, <1>4, <1>5
<1>8. b - d < e - d /\ b - d + d = b /\ e - d + d = e
  BY <1>4
<1>9. Cut(a, b - d, e - d)
  BY <1>4, <1>5, <1>6, <1>7, <1>8 DEF Cut
<1> QED
  BY <1>1, <1>7, <1>8, <1>9

(* What is left behind the last flag is left of both.                      *)
LEMMA SuffixRest ==
  ASSUME NEW a \in Seq(Bytes), NEW u \in Seq(Bytes), Suffix(a, u), HasFlags(a, u)
  PROVE  IF Flags(u) = {} THEN Gather!Rest(u) = u /\ Gather!Rest(a) = a
                          ELSE Gather!Rest(a) = Gather!Rest(u)
<1>1. PICK d \in Nat : /\ d = Len(u) - Len(a) /\ Len(a) + d = Len(u)
                     /\ Len(a) \in Nat /\ Len(u) \in Nat
  <2>1. Len(a) \in Nat /\ Len(u) \in Nat /\ Len(a) <= Len(u)
    BY DEF Suffix
  <2>2. Len(u) - Len(a) \in Nat /\ Len(a) + (Len(u) - Len(a)) = Len(u)
    BY <2>1
  <2> QED
    BY <2>1, <2>2
<1>2. /\ \A x \in Flags(a) : x + d \in Flags(u)
      /\ \A x \in Flags(u) : x - d \in Flags(a) /\ d < x
  BY <1>1, SuffixFlags
<1>3. PICK b \in Flags(u) \cup {0} :
        (\A j \in Flags(u) : j <= b) /\ Gather!Rest(u) = Span(u, b, Len(u))
  BY RestIsBehind
<1>4. PICK c \in Flags(a) \cup {0} :
        (\A j \in Flags(a) : j <= c) /\ Gather!Rest(a) = Span(a, c, Len(a))
  BY RestIsBehind
<1>5. Flags(a) \subseteq 1 .. Len(a) /\ Flags(u) \subseteq 1 .. Len(u)
  BY DEF Flags
<1>6. CASE Flags(u) = {}
  <2>1. Flags(a) = {}
    BY <1>2, <1>6
  <2>2. b = 0 /\ c = 0
    BY <1>6, <2>1
  <2>3. Span(u, 0, Len(u)) = u /\ Span(a, 0, Len(a)) = a
    BY WholeSpan
  <2> QED
    BY <1>3, <1>4, <1>6, <2>2, <2>3
<1>7. CASE Flags(u) # {}
  <2>1. PICK x \in Flags(u) : TRUE
    BY <1>7
  <2>2. x \in 1 .. Len(u) /\ x <= b /\ x - d \in Flags(a) /\ x - d <= c /\ d < x
    BY <1>2, <1>3, <1>4, <1>5, <2>1
  <2>3. b \in Nat /\ c \in Nat
    BY <1>5
  <2>4. b # 0 /\ c # 0
    BY <1>1, <2>2, <2>3
  <2>5. b \in Flags(u) /\ c \in Flags(a)
    BY <2>4
  <2>6. c + d <= b /\ b - d <= c
    BY <1>2, <1>3, <1>4, <2>5
  <2>7. b = c + d
    BY <1>1, <2>3, <2>6
  <2>8. c <= Len(a)
    BY <1>5, <2>5
  <2>9. Span(a, c, Len(a)) = Span(u, b, Len(u))
    <3>1. PICK n \in Nat, k \in Nat, l \in Nat, m \in Nat :
            n = Len(a) /\ k = c /\ l = b /\ m = Len(u)
      BY <1>1, <2>3
    <3>2. k <= n /\ n <= Len(a) /\ l = k + (Len(u) - Len(a)) /\ m = n + (Len(u) - Len(a))
      BY <1>1, <2>7, <2>8, <3>1
    <3>3. Span(a, k, n) = Span(u, l, m)
      BY <3>2, SuffixSlice
    <3> QED
      BY <3>1, <3>3
  <2> QED
    BY <1>3, <1>4, <1>7, <2>9
<1> QED
  BY <1>6, <1>7

-----------------------------------------------------------------------------
(* The bytes come in the order of the frames and of their places.          *)
Before(x, y) == x.frame < y.frame \/ (x.frame = y.frame /\ x.at < y.at)

Ordered(s) == \A j, k \in DOMAIN s : j < k => Before(s[j], s[k])

(* Behind a flag come bytes of later frames only.                          *)
LEMMA FlagIsLast ==
  ASSUME sent \in Seq(FrameKinds), NEW s \in Seq(Bytes), Ordered(s),
         NEW j \in DOMAIN s, Gather!IsFlag(s[j]), NEW k \in DOMAIN s, j < k
  PROVE  s[j].frame < s[k].frame
<1>1. PICK x, y : x = s[j] /\ y = s[k] /\ x \in Bytes /\ y \in Bytes
  OBVIOUS
<1>2. Before(x, y) /\ Gather!IsFlag(x)
  BY <1>1 DEF Ordered
<1>3. x.frame \in DOMAIN sent /\ y.frame \in DOMAIN sent /\ x.at \in Nat /\ y.at \in 1 .. sent[y.frame].raw
  BY <1>1 DEF Bytes
<1>4. x.frame \in Nat /\ y.frame \in Nat /\ sent[y.frame].raw \in Nat
  BY <1>3, KindOf
<1>5. x.at = sent[x.frame].raw
  BY <1>2 DEF Gather!IsFlag
<1>6. ~(x.frame = y.frame /\ x.at < y.at)
  <2>1. SUFFICES ASSUME x.frame = y.frame, x.at < y.at PROVE FALSE
    OBVIOUS
  <2>2. y.at <= x.at /\ y.at \in Nat
    BY <1>3, <1>4, <1>5, <2>1
  <2> QED
    BY <1>3, <2>1, <2>2
<1> QED
  BY <1>1, <1>2, <1>6 DEF Before

LEMMA SpanOfSpan ==
  ASSUME NEW s \in Seq(Bytes), NEW b \in Nat, NEW c \in Nat, NEW e \in Nat,
         b <= c, c <= e, e <= Len(s), NEW x \in Nat, x = c - b, NEW y \in Nat, y = e - b
  PROVE  Span(Span(s, b, e), x, y) = Span(s, c, e)
<1>1. b <= e
  OBVIOUS
<1>2. PICK p \in Seq(Bytes) : p = Span(s, b, e)
  BY <1>1, Slice
<1>3. Len(p) = y /\ \A j \in 1 .. y : p[j] = s[b + j]
  <2>1. b + y = e
    OBVIOUS
  <2>2. Part(p, s, b, y)
    BY <1>2, <2>1, SliceIs
  <2> QED
    BY <2>2 DEF Part
<1>4. x <= y /\ y <= Len(p) /\ y - x = e - c /\ \A j \in 1 .. e - c : x + j \in 1 .. y /\ b + (x + j) = c + j
  BY <1>3
<1>5. /\ Span(p, x, y) \in Seq(Bytes) /\ Len(Span(p, x, y)) = y - x
      /\ \A j \in 1 .. y - x : Span(p, x, y)[j] = p[x + j]
  BY <1>4, Slice
<1>6. /\ Span(s, c, e) \in Seq(Bytes) /\ Len(Span(s, c, e)) = e - c
      /\ \A j \in 1 .. e - c : Span(s, c, e)[j] = s[c + j]
  BY Slice
<1>7. \A j \in 1 .. e - c : Span(p, x, y)[j] = Span(s, c, e)[j]
  <2> TAKE j \in 1 .. e - c
  <2>1. Span(p, x, y)[j] = p[x + j] /\ Span(s, c, e)[j] = s[c + j]
    BY <1>4, <1>5, <1>6
  <2>2. p[x + j] = s[b + (x + j)]
    BY <1>3, <1>4
  <2> QED
    BY <1>4, <2>1, <2>2
<1>8. Span(p, x, y) = Span(s, c, e)
  BY <1>4, <1>5, <1>6, <1>7, SeqEqual
<1> QED
  BY <1>2, <1>8

LEMMA EndsWith ==
  ASSUME sent \in Seq(FrameKinds), NEW s \in Seq(Bytes), NEW b \in Nat, NEW c \in Nat, NEW e \in Nat,
         b <= c, c < e, e <= Len(s), Gather!IsFrame(Span(s, c, e))
  PROVE  Gather!EndsWithFrame(Span(s, b, e))
<1>1. b <= e
  OBVIOUS
<1>2. PICK p \in Seq(Bytes) : p = Span(s, b, e)
  BY <1>1, Slice
<1>3. PICK y \in Nat : y = e - b /\ y \in 1 .. e - b /\ b + y = e
  OBVIOUS
<1>4. Len(p) = y /\ p[y] = s[e]
  <2>1. Len(p) = e - b /\ \A j \in 1 .. e - b : p[j] = s[b + j]
    BY <1>1, <1>2, Slice
  <2>2. p[y] = s[b + y]
    BY <1>3, <2>1
  <2> QED
    BY <1>3, <2>1, <2>2
<1>5. s[e].frame \in DOMAIN sent /\ sent[s[e].frame].raw = e - c
  BY FrameEnds
<1>6. PICK raw \in Nat : raw = sent[s[e].frame].raw /\ raw = e - c
  BY <1>5
<1>7. PICK x \in Nat : x = c - b /\ x = Len(p) - raw /\ raw <= Len(p)
  BY <1>3, <1>4, <1>6
<1>8. Span(p, x, y) = Span(s, c, e)
  BY <1>2, <1>3, <1>7, SpanOfSpan
<1>9. SubSeq(p, Len(p) - raw + 1, Len(p)) = Span(p, x, y)
  BY <1>4, <1>7 DEF Span
<1>10. Gather!IsFrame(SubSeq(p, Len(p) - raw + 1, Len(p)))
  BY <1>8, <1>9
<1>11. sent[Gather!Last(p).frame].raw = raw
  BY <1>4, <1>6 DEF Gather!Last
<1>12. Gather!EndsWithFrame(p)
  BY <1>7, <1>10, <1>11 DEF Gather!EndsWithFrame
<1> QED
  BY <1>2, <1>12

(* What the history notes of a sequence that the worker has read.          *)
Finished(s) ==
  {Gather!Last(p).frame : p \in {q \in Gather!ToSet(Gather!Pieces(s)) : Gather!EndsWithFrame(q)}}

Placed(s) ==
  {Gather!Last(p).frame : p \in {q \in Gather!ToSet(Gather!Pieces(s)) : Gather!IsFrame(q)}}

LEMMA NotedAre ==
  ASSUME sent \in Seq(FrameKinds), NEW s \in Seq(Bytes)
  PROVE  /\ \A b \in Nat : \A e \in Nat :
              Cut(s, b, e) /\ Gather!EndsWithFrame(Span(s, b, e)) => s[e].frame \in Finished(s)
         /\ \A f \in Finished(s) : \E e \in Flags(s) : f = s[e].frame
         /\ \A f \in Placed(s) : \E b \in Nat : \E e \in Nat :
              Cut(s, b, e) /\ Gather!IsFrame(Span(s, b, e)) /\ f = s[e].frame
<1> DEFINE p == Gather!Pieces(s)
<1>1. PICK n \in Nat : \E E \in [1 .. n -> Flags(s)] :
           /\ \A j, k \in 1 .. n : j < k => E[j] < E[k]
           /\ DOMAIN p = 1 .. n
           /\ \A k \in 1 .. n : \E b \in Nat : Cut(s, b, E[k]) /\ p[k] = Span(s, b, E[k])
           /\ \A b \in Nat : \A e \in Nat : Cut(s, b, e) =>
                \E k \in 1 .. n : E[k] = e /\ p[k] = Span(s, b, e)
  BY PiecesAreCuts
<1>2. PICK E \in [1 .. n -> Flags(s)] :
           /\ DOMAIN p = 1 .. n
           /\ \A k \in 1 .. n : \E b \in Nat : Cut(s, b, E[k]) /\ p[k] = Span(s, b, E[k])
           /\ \A b \in Nat : \A e \in Nat : Cut(s, b, e) =>
                \E k \in 1 .. n : E[k] = e /\ p[k] = Span(s, b, e)
  BY <1>1
<1>3. Gather!ToSet(p) = {p[k] : k \in 1 .. n}
  BY <1>2 DEF Gather!ToSet
<1>4. ASSUME NEW b \in Nat, NEW e \in Nat, Cut(s, b, e) PROVE Gather!Last(Span(s, b, e)) = s[e]
  <2>1. b <= e /\ b < e /\ e <= Len(s) /\ Len(s) \in Nat
    BY <1>4 DEF Cut, Flags
  <2>2. PICK y \in Nat : y = e - b /\ y \in 1 .. e - b /\ b + y = e
    BY <2>1
  <2>3. Len(Span(s, b, e)) = y /\ Span(s, b, e)[y] = s[e]
    <3>1. /\ Len(Span(s, b, e)) = e - b
          /\ \A j \in 1 .. e - b : Span(s, b, e)[j] = s[b + j]
      BY <2>1, Slice
    <3>2. Span(s, b, e)[y] = s[b + y]
      BY <2>2, <3>1
    <3> QED
      BY <2>2, <3>1, <3>2
  <2> QED
    BY <2>3 DEF Gather!Last
<1> HIDE DEF p
<1>5. ASSUME NEW b \in Nat, NEW e \in Nat, Cut(s, b, e), Gather!EndsWithFrame(Span(s, b, e))
      PROVE  s[e].frame \in Finished(s)
  <2>1. PICK k \in 1 .. n : p[k] = Span(s, b, e)
    BY <1>2, <1>5
  <2>2. Span(s, b, e) \in Gather!ToSet(p)
    BY <1>3, <2>1
  <2>3. Gather!Last(Span(s, b, e)) = s[e]
    BY <1>4, <1>5
  <2> QED
    BY <1>5, <2>2, <2>3 DEF Finished, p
<1>6. ASSUME NEW q \in Gather!ToSet(p)
      PROVE  \E b \in Nat : \E e \in Nat :
               e \in Flags(s) /\ Cut(s, b, e) /\ q = Span(s, b, e) /\ Gather!Last(q) = s[e]
  <2>1. PICK k \in 1 .. n : q = p[k]
    BY <1>3
  <2>2. PICK b \in Nat : Cut(s, b, E[k]) /\ p[k] = Span(s, b, E[k])
    BY <1>2
  <2>3. PICK e \in Nat : e = E[k] /\ e \in Flags(s)
    <3>1. E[k] \in Flags(s) /\ Flags(s) \subseteq Nat
      BY DEF Flags
    <3> QED
      BY <3>1
  <2>4. Cut(s, b, e) /\ q = Span(s, b, e)
    BY <2>1, <2>2, <2>3
  <2>5. Gather!Last(q) = s[e]
    BY <1>4, <2>4
  <2> QED
    BY <2>3, <2>4, <2>5
<1>7. ASSUME NEW f \in Finished(s) PROVE \E e \in Flags(s) : f = s[e].frame
  <2>1. PICK q \in Gather!ToSet(p) : f = Gather!Last(q).frame
    BY DEF Finished, p
  <2> QED
    BY <1>6, <2>1
<1>8. ASSUME NEW f \in Placed(s)
      PROVE  \E b \in Nat : \E e \in Nat :
               Cut(s, b, e) /\ Gather!IsFrame(Span(s, b, e)) /\ f = s[e].frame
  <2>1. PICK q \in Gather!ToSet(p) : Gather!IsFrame(q) /\ f = Gather!Last(q).frame
    BY DEF Placed, p
  <2>2. PICK b \in Nat, e \in Nat : Cut(s, b, e) /\ q = Span(s, b, e) /\ Gather!Last(q) = s[e]
    BY <1>6
  <2>3. Gather!IsFrame(Span(s, b, e)) /\ f = s[e].frame
    BY <2>1, <2>2
  <2> QED
    BY <2>2, <2>3
<1> QED
  BY <1>5, <1>7, <1>8

LEMMA PlacedAreFinished ==
  ASSUME sent \in Seq(FrameKinds), NEW s \in Seq(Bytes) PROVE Placed(s) \subseteq Finished(s)
<1> SUFFICES ASSUME NEW f \in Placed(s) PROVE f \in Finished(s)
  OBVIOUS
<1>1. PICK b \in Nat, e \in Nat : Cut(s, b, e) /\ Gather!IsFrame(Span(s, b, e)) /\ f = s[e].frame
  BY NotedAre
<1>2. b <= b /\ b < e /\ e <= Len(s)
  BY <1>1 DEF Cut, Flags
<1>3. Gather!EndsWithFrame(Span(s, b, e))
  BY <1>1, <1>2, EndsWith
<1> QED
  BY <1>1, <1>3, NotedAre

-----------------------------------------------------------------------------
(* tail is all that came behind the last flag, in order; acc is its end,   *)
(* short of its start only if acc was full.                                *)
BytesInv ==
  /\ sent \in Seq(FrameKinds) /\ Len(sent) <= MaxFrames /\ taken \in 0 .. MaxTaken
  /\ device \in Seq(Bytes) /\ tail \in Seq(Bytes) /\ acc \in Seq(Bytes)

StreamInv ==
  Ordered(tail \o device) /\ \A j \in DOMAIN tail : ~Gather!IsFlag(tail[j])

AccInv ==
  /\ Suffix(acc, tail) /\ Len(acc) <= AccCap
  /\ Len(acc) = Len(tail) \/ AccCap < Len(tail)

LEMMA ChunkRead ==
  ASSUME BytesInv, StreamInv, NEW n \in 1 .. Chunk, n <= Len(device),
         NEW chunk, chunk = SubSeq(device, 1, n), NEW rest, rest = SubSeq(device, n + 1, Len(device))
  PROVE  /\ chunk \in Seq(Bytes) /\ Len(chunk) = n /\ rest \in Seq(Bytes)
         /\ tail \o chunk \in Seq(Bytes) /\ Len(tail \o chunk) = Len(tail) + n
         /\ (tail \o chunk) \o rest = tail \o device
         /\ \A x \in Flags(tail \o chunk) : Len(tail) < x
<1>1. device \in Seq(Bytes) /\ tail \in Seq(Bytes) /\ Len(device) \in Nat /\ Len(tail) \in Nat /\ n \in Nat
  BY KindsAssumed DEF BytesInv
<1>2. chunk = Span(device, 0, n)
  <2>1. 0 + 1 = 1
    OBVIOUS
  <2> QED
    BY <2>1 DEF Span
<1>3. rest = Span(device, n, Len(device))
  BY DEF Span
<1>4. chunk \in Seq(Bytes) /\ Len(chunk) = n
  <2>1. 0 \in Nat /\ 0 + n = n
    BY <1>1
  <2>2. Part(chunk, device, 0, n)
    BY <1>1, <1>2, <2>1, SliceIs
  <2> QED
    BY <2>2 DEF Part
<1>5. rest \in Seq(Bytes)
  <2>1. PICK z \in Nat : z = Len(device) /\ z <= Len(device) /\ rest = Span(device, n, z)
    BY <1>1, <1>3
  <2>2. PICK y \in Nat : n + y = z
    <3>1. z - n \in Nat /\ n + (z - n) = z
      BY <1>1, <2>1
    <3> QED
      BY <3>1
  <2>3. Part(rest, device, n, y)
    BY <1>1, <2>1, <2>2, SliceIs
  <2> QED
    BY <2>3 DEF Part
<1>6. /\ tail \o chunk \in Seq(Bytes) /\ Len(tail \o chunk) = Len(tail) + n
      /\ \A j \in 1 .. Len(tail) + n :
           (tail \o chunk)[j] = IF j <= Len(tail) THEN tail[j] ELSE chunk[j - Len(tail)]
  BY <1>1, <1>4, ConcatProperties
<1>7. (tail \o chunk) \o rest = tail \o device
  <2>1. chunk \o rest = SubSeq(device, 1, Len(device))
    <3>1. 1 \in 1 .. Len(device) + 1 /\ n \in 1 - 1 .. Len(device) /\ Len(device) \in n .. Len(device)
      BY <1>1
    <3> QED
      BY <1>1, <3>1, ConcatAdjacentSubSeq
  <2>2. chunk \o rest = device
    BY <1>1, <2>1, SubSeqFull
  <2>3. (tail \o chunk) \o rest = tail \o (chunk \o rest)
    <3>1. tail \in Seq(Bytes) /\ chunk \in Seq(Bytes) /\ rest \in Seq(Bytes)
      BY <1>1, <1>4, <1>5
    <3> QED
      BY <3>1, JoinTwice, Zenon
  <2> QED
    BY <2>2, <2>3
<1>8. ASSUME NEW x \in Flags(tail \o chunk) PROVE Len(tail) < x
  <2>1. x \in 1 .. Len(tail) + n /\ Gather!IsFlag((tail \o chunk)[x])
    BY <1>6, <1>8 DEF Flags
  <2>2. SUFFICES ASSUME x <= Len(tail) PROVE FALSE
    BY <1>1, <2>1
  <2>3. x \in DOMAIN tail /\ (tail \o chunk)[x] = tail[x]
    BY <1>1, <1>6, <2>1, <2>2
  <2> QED
    BY <2>1, <2>3 DEF StreamInv
<1> QED
  BY <1>4, <1>5, <1>6, <1>7, <1>8

(* The append keeps all of the chunk, and all of tail unless acc is full.  *)
LEMMA ChunkAppended ==
  ASSUME BytesInv, AccInv, NEW chunk \in Seq(Bytes), Len(chunk) \in 1 .. Chunk,
         NEW a, a = Gather!Appended(chunk), NEW u, u = tail \o chunk
  PROVE  /\ a \in Seq(Bytes) /\ Suffix(a, u) /\ Len(chunk) <= Len(a) /\ Len(a) <= AccCap
         /\ Len(a) = Len(u) \/ AccCap < Len(u)
<1> DEFINE over == Len(acc) + Len(chunk)
           shift == IF over <= AccCap THEN 0
                    ELSE IF over - AccCap > Len(acc) THEN Len(acc) ELSE over - AccCap
<1>1. PICK n \in Nat, k \in Nat, t \in Nat : n = Len(chunk) /\ k = Len(acc) /\ t = Len(tail)
  BY DEF BytesInv
<1>2. /\ acc \in Seq(Bytes) /\ tail \in Seq(Bytes) /\ k <= t /\ k <= AccCap /\ n \in 1 .. Chunk
      /\ k = t \/ AccCap < t
  BY <1>1 DEF BytesInv, AccInv, Suffix
<1>3. a = SubSeq(acc, shift + 1, Len(acc)) \o chunk
  BY DEF Gather!Appended
<1>4. PICK m \in Nat :
        /\ m = shift /\ m <= k /\ k - m + n <= AccCap /\ (m = 0 \/ AccCap < k + n)
  <2>1. AccCap \in Nat /\ n <= AccCap
    BY <1>2, KindsAssumed
  <2>2. shift = IF k + n <= AccCap THEN 0
                ELSE IF k + n - AccCap > k THEN k ELSE k + n - AccCap
    BY <1>1, <2>1
  <2> HIDE DEF shift, over
  <2>3. CASE k + n <= AccCap
    <3>1. shift = 0 /\ 0 \in Nat /\ 0 <= k /\ k - 0 + n <= AccCap
      BY <2>2, <2>3
    <3> QED
      BY <3>1
  <2>4. CASE ~(k + n <= AccCap)
    <3>1. k + n - AccCap <= k
      BY <2>1
    <3>2. shift = k + n - AccCap
      BY <2>2, <2>4, <3>1, <2>1
    <3>3. k + n - AccCap \in Nat /\ k - (k + n - AccCap) + n <= AccCap /\ AccCap < k + n
      BY <2>1, <2>4, <3>1
    <3> QED
      BY <3>1, <3>2, <3>3
  <2> QED
    BY <2>3, <2>4
<1> HIDE DEF shift, over
<1>5. PICK left : left = Span(acc, m, k)
  OBVIOUS
<1>6. a = left \o chunk
  BY <1>1, <1>3, <1>4, <1>5 DEF Span
<1>7. left \in Seq(Bytes) /\ Len(left) = k - m /\ \A j \in 1 .. k - m : left[j] = acc[m + j]
  <2>1. PICK l \in Nat : l = k - m /\ m + l = k
    <3>1. k - m \in Nat /\ m + (k - m) = k
      BY <1>4
    <3> QED
      BY <3>1
  <2>2. k <= Len(acc)
    BY <1>1
  <2>3. Part(left, acc, m, l)
    BY <1>2, <1>4, <1>5, <2>1, <2>2, SliceIs
  <2> QED
    BY <2>1, <2>3 DEF Part
<1>8. PICK l \in Nat : l = k - m
  BY <1>4
<1>9. /\ a \in Seq(Bytes) /\ Len(a) = l + n
      /\ \A j \in 1 .. l + n : a[j] = IF j <= l THEN left[j] ELSE chunk[j - l]
  <2>1. left \in Seq(Bytes) /\ l = Len(left)
    BY <1>7, <1>8
  <2>2. /\ a \in Seq(Bytes) /\ Len(a) = l + n
        /\ \A j \in 1 .. l : a[j] = left[j]
        /\ \A j \in 1 .. n : a[l + j] = chunk[j]
    <3>1. Joined(Bytes, a, left, chunk, l, n)
      BY <1>1, <1>6, <2>1, JoinIs
    <3> QED
      BY <3>1 DEF Joined
  <2>3. ASSUME NEW j \in 1 .. l + n, ~(j <= l) PROVE a[j] = chunk[j - l]
    <3>1. j - l \in 1 .. n /\ l + (j - l) = j
      BY <2>3
    <3>2. a[l + (j - l)] = chunk[j - l]
      BY <2>2, <3>1
    <3> QED
      BY <3>1, <3>2
  <2>4. ASSUME NEW j \in 1 .. l + n, j <= l PROVE a[j] = left[j]
    <3>1. j \in 1 .. l
      BY <2>4
    <3> QED
      BY <2>2, <3>1
  <2> QED
    BY <2>2, <2>3, <2>4
<1>10. /\ u \in Seq(Bytes) /\ Len(u) = t + n
       /\ \A j \in 1 .. t + n : u[j] = IF j <= t THEN tail[j] ELSE chunk[j - t]
  BY <1>1, <1>2, ConcatProperties
<1>11. ASSUME NEW j \in 1 .. l + n PROVE a[j] = u[t + n - (l + n) + j]
  <2>1. CASE j <= l
    <3>1. a[j] = acc[m + j]
      BY <1>7, <1>8, <1>9, <2>1
    <3>2. m + j \in 1 .. k
      BY <1>4, <1>8, <2>1
    <3>3. acc[m + j] = tail[t - k + (m + j)]
      BY <1>1, <3>2 DEF AccInv, Suffix
    <3>4. t + n - (l + n) + j = t - k + (m + j) /\ t - k + (m + j) \in 1 .. t
      BY <1>2, <1>4, <1>8, <2>1
    <3>5. u[t - k + (m + j)] = tail[t - k + (m + j)]
      BY <1>10, <3>4
    <3> QED
      BY <3>1, <3>3, <3>4, <3>5
  <2>2. CASE ~(j <= l)
    <3>1. a[j] = chunk[j - l]
      BY <1>9, <2>2
    <3> DEFINE x == t + n - (l + n) + j
    <3>2. x \in 1 .. t + n /\ ~(x <= t) /\ x - t = j - l
      BY <1>2, <1>4, <1>8, <2>2
    <3> HIDE DEF x
    <3>3. u[x] = chunk[x - t]
      BY <1>10, <3>2
    <3> QED
      BY <3>1, <3>2, <3>3 DEF x
  <2> QED
    BY <2>1, <2>2
<1>12. l + n <= t + n
  BY <1>2, <1>4, <1>8
<1>13. Suffix(a, u)
  BY <1>9, <1>10, <1>11, <1>12 DEF Suffix
<1>14. n <= l + n /\ l + n <= AccCap /\ (l + n = t + n \/ AccCap < t + n)
  BY <1>2, <1>4, <1>8, KindsAssumed
<1> QED
  BY <1>1, <1>9, <1>10, <1>13, <1>14

IsSplit(s, p, chunk, rest) ==
  chunk \in Seq(Bytes) /\ rest \in Seq(Bytes) /\ (s \o chunk) \o rest = s \o p

LEMMA DeviceSplit ==
  ASSUME NEW s \in Seq(Bytes), NEW p \in Seq(Bytes), NEW n \in 1 .. Len(p),
         NEW chunk, chunk = SubSeq(p, 1, n), NEW rest, rest = SubSeq(p, n + 1, Len(p))
  PROVE  IsSplit(s, p, chunk, rest)
<1>1. PICK z \in Nat, y \in Nat : z = Len(p) /\ n + y = z /\ n \in Nat
  <2>1. Len(p) \in Nat /\ Len(p) - n \in Nat /\ n + (Len(p) - n) = Len(p) /\ n \in Nat
    OBVIOUS
  <2> QED
    BY <2>1
<1>2. chunk \in Seq(Bytes)
  <2>1. 0 \in Nat /\ 0 + n = n /\ 0 + 1 = 1 /\ n <= Len(p)
    BY <1>1
  <2>2. chunk = Span(p, 0, n)
    BY <2>1 DEF Span
  <2>3. Part(chunk, p, 0, n)
    BY <1>1, <2>1, <2>2, SliceIs
  <2> QED
    BY <2>3 DEF Part
<1>3. rest \in Seq(Bytes)
  <2>1. rest = Span(p, n, z) /\ z <= Len(p)
    BY <1>1 DEF Span
  <2>2. Part(rest, p, n, y)
    BY <1>1, <2>1, SliceIs
  <2> QED
    BY <2>2 DEF Part
<1>4. chunk \o rest = p
  <2>1. 1 \in 1 .. Len(p) + 1 /\ n \in 1 - 1 .. Len(p) /\ Len(p) \in n .. Len(p)
    BY <1>1
  <2>2. chunk \o rest = SubSeq(p, 1, Len(p))
    BY <2>1, ConcatAdjacentSubSeq
  <2> QED
    BY <2>2, SubSeqFull
<1>5. (s \o chunk) \o rest = s \o (chunk \o rest)
  BY <1>2, <1>3, JoinTwice, Zenon
<1> QED
  BY <1>2, <1>3, <1>4, <1>5, Zenon DEF IsSplit

-----------------------------------------------------------------------------
(* What is read after the last flag, and what is still to come, are the    *)
(* bytes behind that flag.                                                 *)
BehindFlags(u, w, q, v) ==
  /\ q \in Seq(Bytes) /\ Flags(q) = {} /\ Len(q) <= Len(u)
  /\ v \in Seq(Bytes) /\ Ordered(v)
  /\ \A j \in DOMAIN v : \E k \in DOMAIN w :
       v[j] = w[k] /\ \A x \in Flags(u) : x < k

LEMMA RestStream ==
  ASSUME sent \in Seq(FrameKinds), NEW u \in Seq(Bytes), NEW rest \in Seq(Bytes),
         NEW w, w = u \o rest, Ordered(w), NEW q, q = Gather!Rest(u), NEW v, v = q \o rest
  PROVE  BehindFlags(u, w, q, v)
<1>1. PICK n \in Nat, r \in Nat : n = Len(u) /\ r = Len(rest)
  OBVIOUS
<1>2. PICK b \in Flags(u) \cup {0} :
        (\A j \in Flags(u) : j <= b) /\ Gather!Rest(u) = Span(u, b, Len(u))
  BY RestIsBehind
<1>3. b \in Nat /\ b <= n /\ DOMAIN u = 1 .. n
  BY <1>1 DEF Flags
<1>4. PICK m \in Nat : b + m = n /\ m <= n
  <2>1. n - b \in Nat /\ b + (n - b) = n /\ n - b <= n
    BY <1>3
  <2> QED
    BY <2>1
<1>5. q \in Seq(Bytes) /\ Len(q) = m /\ \A j \in 1 .. m : q[j] = u[b + j]
  <2>1. q = Span(u, b, n) /\ n <= Len(u)
    BY <1>1, <1>2
  <2>2. Part(q, u, b, m)
    BY <1>3, <1>4, <2>1, SliceIs
  <2> QED
    BY <2>2 DEF Part
<1>6. Flags(q) = {}
  <2>1. SUFFICES ASSUME NEW x \in Flags(q) PROVE FALSE
    OBVIOUS
  <2>2. x \in 1 .. m /\ Gather!IsFlag(q[x])
    BY <1>5, <2>1 DEF Flags
  <2>3. q[x] = u[b + x] /\ b + x \in 1 .. n /\ ~(b + x <= b)
    BY <1>3, <1>4, <1>5, <2>2
  <2>4. b + x \in Flags(u)
    BY <1>3, <2>2, <2>3 DEF Flags
  <2> QED
    BY <1>2, <2>3, <2>4
<1>7. /\ w \in Seq(Bytes) /\ Len(w) = n + r
      /\ \A j \in 1 .. n : w[j] = u[j]
      /\ \A j \in 1 .. r : w[n + j] = rest[j]
  <2>1. Joined(Bytes, w, u, rest, n, r)
    BY <1>1, JoinIs
  <2> QED
    BY <2>1 DEF Joined
<1>8. /\ v \in Seq(Bytes) /\ Len(v) = m + r
      /\ \A j \in 1 .. m : v[j] = q[j]
      /\ \A j \in 1 .. r : v[m + j] = rest[j]
  <2>1. v = q \o rest /\ m = Len(q)
    BY <1>5
  <2>2. Joined(Bytes, v, q, rest, m, r)
    BY <1>1, <1>5, <2>1, JoinIs
  <2> QED
    BY <2>2 DEF Joined
<1>9. DOMAIN v = 1 .. m + r /\ DOMAIN w = 1 .. n + r
  BY <1>7, <1>8
<1>10. ASSUME NEW j \in 1 .. m + r PROVE b + j \in 1 .. n + r /\ v[j] = w[b + j]
  <2>1. b + j \in 1 .. n + r
    BY <1>3, <1>4
  <2>2. CASE j <= m
    <3>1. j \in 1 .. m /\ b + j \in 1 .. n
      BY <1>3, <1>4, <2>2
    <3>2. v[j] = q[j] /\ q[j] = u[b + j] /\ w[b + j] = u[b + j]
      BY <1>5, <1>7, <1>8, <3>1
    <3> QED
      BY <2>1, <3>2
  <2>3. CASE ~(j <= m)
    <3>1. PICK l \in 1 .. r : j = m + l
      <4>1. j - m \in 1 .. r /\ j = m + (j - m)
        BY <2>3
      <4> QED
        BY <4>1
    <3>2. b + j = n + l
      BY <1>3, <1>4, <3>1
    <3>3. v[m + l] = rest[l] /\ w[n + l] = rest[l]
      BY <1>7, <1>8
    <3> QED
      BY <2>1, <3>1, <3>2, <3>3
  <2> QED
    BY <2>2, <2>3
<1>11. Ordered(v)
  <2>1. SUFFICES ASSUME NEW j \in 1 .. m + r, NEW k \in 1 .. m + r, j < k PROVE Before(v[j], v[k])
    BY <1>9 DEF Ordered
  <2>2. /\ b + j \in 1 .. n + r /\ v[j] = w[b + j]
        /\ b + k \in 1 .. n + r /\ v[k] = w[b + k]
    BY <1>10
  <2>3. b + j < b + k
    BY <1>3, <2>1
  <2>4. Before(w[b + j], w[b + k])
    BY <1>9, <2>2, <2>3 DEF Ordered
  <2> QED
    BY <2>2, <2>4
<1>12. ASSUME NEW j \in DOMAIN v
       PROVE  \E k \in DOMAIN w : v[j] = w[k] /\ \A x \in Flags(u) : x < k
  <2>1. j \in 1 .. m + r
    BY <1>9
  <2>2. b + j \in DOMAIN w /\ v[j] = w[b + j]
    BY <1>9, <1>10, <2>1
  <2>3. ASSUME NEW x \in Flags(u) PROVE x < b + j
    <3>1. x <= b /\ x \in Nat
      BY <1>2 DEF Flags
    <3> QED
      BY <1>3, <2>1, <3>1
  <2> QED
    BY <2>2, <2>3
<1> QED
  BY <1>1, <1>4, <1>5, <1>6, <1>8, <1>11, <1>12 DEF BehindFlags

(* The beginning of what comes in order comes in order.                    *)
LEMMA OrderedStart ==
  ASSUME NEW u \in Seq(Bytes), NEW rest \in Seq(Bytes), NEW w, w = u \o rest, Ordered(w)
  PROVE  Ordered(u) /\ \A j \in DOMAIN u : j \in DOMAIN w /\ w[j] = u[j]
<1>1. PICK n \in Nat, r \in Nat : n = Len(u) /\ r = Len(rest)
  OBVIOUS
<1>2. w \in Seq(Bytes) /\ Len(w) = n + r /\ \A j \in 1 .. n : w[j] = u[j]
  <2>1. Joined(Bytes, w, u, rest, n, r)
    BY <1>1, JoinIs
  <2> QED
    BY <2>1 DEF Joined
<1>3. DOMAIN u = 1 .. n /\ DOMAIN w = 1 .. n + r /\ \A j \in 1 .. n : j \in 1 .. n + r
  BY <1>1, <1>2
<1> QED
  BY <1>2, <1>3 DEF Ordered

(* What acc yields, its bytes being the end of u: frames of which u has    *)
(* every byte, in their order, and every one in place that decodes, for    *)
(* acc is short of u only if the first flag is too far for a frame: with   *)
(* room for the longest that decodes and a chunk.                          *)
Yields(a, u, room) ==
  \E m \in Nat : \E x \in [1 .. m -> Finished(u)] :
    /\ Gather!Extracted(a) = x
    /\ \A j, k \in 1 .. m : j < k => x[j] < x[k]
    /\ room => \A f \in Placed(u) : sent[f].plain \in 3 .. DecodeCap =>
                 \E k \in 1 .. m : x[k] = f

LEMMA ExtractedOfRead ==
  ASSUME sent \in Seq(FrameKinds), NEW a \in Seq(Bytes), NEW u \in Seq(Bytes),
         Suffix(a, u), HasFlags(a, u), Ordered(u),
         NEW room \in BOOLEAN,
         room => \A e \in Flags(u) : e <= 2 * DecodeCap + 1 => Len(a) = Len(u)
  PROVE  Yields(a, u, room)
<1>1. PICK d \in Nat, la \in Nat, lu \in Nat :
        la = Len(a) /\ lu = Len(u) /\ d = lu - la /\ la + d = lu
  <2>1. Len(a) \in Nat /\ Len(u) \in Nat /\ Len(a) <= Len(u)
    BY DEF Suffix
  <2>2. Len(u) - Len(a) \in Nat /\ Len(a) + (Len(u) - Len(a)) = Len(u)
    BY <2>1
  <2> QED
    BY <2>1, <2>2
<1>2. d = Len(u) - Len(a)
  BY <1>1
<1>3. PICK m \in Nat : \E ends \in [1 .. m -> Flags(a)] :
           /\ \A j, k \in 1 .. m : j < k => ends[j] < ends[k]
           /\ Gather!Extracted(a) = [k \in 1 .. m |-> a[ends[k]].frame]
           /\ \A k \in 1 .. m : \E b \in Nat :
                Cut(a, b, ends[k]) /\ Gather!IsFrame(Span(a, b, ends[k]))
           /\ \A b \in Nat : \A e \in Nat :
                Cut(a, b, e) /\ Gather!Decodes(Span(a, b, e)) =>
                  \E k \in 1 .. m : ends[k] = e
  BY ExtractedAre
<1>4. PICK ends \in [1 .. m -> Flags(a)] :
           /\ \A j, k \in 1 .. m : j < k => ends[j] < ends[k]
           /\ Gather!Extracted(a) = [k \in 1 .. m |-> a[ends[k]].frame]
           /\ \A k \in 1 .. m : \E b \in Nat :
                Cut(a, b, ends[k]) /\ Gather!IsFrame(Span(a, b, ends[k]))
           /\ \A b \in Nat : \A e \in Nat :
                Cut(a, b, e) /\ Gather!Decodes(Span(a, b, e)) =>
                  \E k \in 1 .. m : ends[k] = e
  BY <1>3
<1>5. PICK x : x = Gather!Extracted(a)
  OBVIOUS
<1>6. x = [k \in 1 .. m |-> a[ends[k]].frame]
  BY <1>4, <1>5
<1>7. Flags(a) \subseteq 1 .. la /\ Flags(u) \subseteq 1 .. lu /\ DOMAIN u = 1 .. lu
  BY <1>1 DEF Flags
<1>8. /\ \A y \in Flags(a) : y + d \in Flags(u)
      /\ \A y \in Flags(u) : y - d \in Flags(a) /\ d < y
  BY <1>2, SuffixFlags
<1>9. \A y \in 1 .. la : a[y] = u[y + d]
  <2> TAKE y \in 1 .. la
  <2>1. a[y] = u[lu - la + y] /\ lu - la + y = y + d
    BY <1>1 DEF Suffix
  <2> QED
    BY <2>1
<1>10. ASSUME NEW k \in 1 .. m
       PROVE  /\ ends[k] \in Flags(a) /\ ends[k] \in 1 .. la /\ ends[k] + d \in Flags(u)
              /\ x[k] = u[ends[k] + d].frame
  BY <1>4, <1>6, <1>7, <1>8, <1>9
<1>11. ASSUME NEW k \in 1 .. m PROVE x[k] \in Finished(u)
  <2>1. PICK e \in Nat : e = ends[k]
    BY <1>10
  <2>2. PICK b \in Nat : Cut(a, b, e) /\ Gather!IsFrame(Span(a, b, e))
    BY <1>4, <2>1
  <2>3. PICK c \in Nat : c <= b + d /\ Cut(u, c, e + d)
    BY <1>2, <2>2, SuffixCut
  <2>4. b < e /\ e \in 1 .. la
    BY <1>10, <2>1, <2>2 DEF Cut
  <2>5. PICK g \in Nat, h \in Nat : g = b + d /\ h = e + d
    OBVIOUS
  <2>6. Span(a, b, e) = Span(u, g, h)
    <3>1. b <= e /\ e <= Len(a) /\ g = b + (Len(u) - Len(a)) /\ h = e + (Len(u) - Len(a))
      BY <1>1, <2>4, <2>5
    <3> QED
      BY <3>1, SuffixSlice
  <2>7. c <= g /\ g < h /\ h <= Len(u) /\ Gather!IsFrame(Span(u, g, h))
    BY <1>1, <2>2, <2>3, <2>4, <2>5, <2>6
  <2>8. Gather!EndsWithFrame(Span(u, c, h))
    BY <2>7, EndsWith
  <2>9. u[h].frame \in Finished(u)
    BY <2>3, <2>5, <2>8, NotedAre
  <2> QED
    BY <1>10, <2>1, <2>5, <2>9
<1>12. ASSUME NEW j \in 1 .. m, NEW k \in 1 .. m, j < k PROVE x[j] < x[k]
  <2>1. ends[j] \in Nat /\ ends[k] \in Nat /\ ends[j] < ends[k]
    BY <1>4, <1>10, <1>12
  <2>2. PICK g \in Flags(u), h \in Flags(u) : g = ends[j] + d /\ h = ends[k] + d
    BY <1>10
  <2>3. g \in DOMAIN u /\ Gather!IsFlag(u[g]) /\ h \in DOMAIN u /\ g < h
    BY <2>1, <2>2 DEF Flags
  <2>4. u[g].frame < u[h].frame
    BY <2>3, FlagIsLast
  <2> QED
    BY <1>10, <2>2, <2>4
<1>13. ASSUME room, NEW f \in Placed(u), sent[f].plain \in 3 .. DecodeCap
       PROVE  \E k \in 1 .. m : x[k] = f
  <2>1. PICK b \in Nat, e \in Nat : Cut(u, b, e) /\ Gather!IsFrame(Span(u, b, e)) /\ f = u[e].frame
    BY NotedAre
  <2>2. b < e /\ e <= Len(u) /\ e \in Flags(u)
    BY <1>1, <1>7, <2>1 DEF Cut
  <2>3. Span(u, b, e)[1].frame = f
    BY <2>1, <2>2, FrameEnds
  <2>4. Gather!Decodes(Span(u, b, e))
    BY <1>13, <2>1, <2>3 DEF Gather!Decodes
  <2>5. e - b <= 2 * DecodeCap + 1
    BY <2>2, <2>4, DecodedIsLong
  <2>6. b = 0 => d = 0
    <3>1. SUFFICES ASSUME b = 0 PROVE d = 0
      OBVIOUS
    <3>2. e <= 2 * DecodeCap + 1
      BY <2>5, <3>1
    <3>3. la = lu
      BY <1>1, <1>13, <2>2, <3>2
    <3> QED
      BY <1>1, <3>3
  <2>7. PICK g \in Nat, h \in Nat : h <= Len(a) /\ g + d = b /\ h + d = e /\ Cut(a, g, h)
    <3>1. b = 0 => Len(a) = Len(u)
      BY <1>1, <2>6
    <3>2. PICK g \in Nat, h \in Nat :
            /\ Cut(a, g, h) /\ h <= Len(a)
            /\ b = g + (Len(u) - Len(a)) /\ e = h + (Len(u) - Len(a))
      BY <2>1, <3>1, CutOfSuffix
    <3> QED
      BY <1>2, <3>2
  <2>8. Span(a, g, h) = Span(u, b, e)
    <3>1. g <= h /\ h <= Len(a) /\ b = g + (Len(u) - Len(a)) /\ e = h + (Len(u) - Len(a))
      BY <1>1, <2>2, <2>7
    <3> QED
      BY <3>1, SuffixSlice
  <2>9. PICK k \in 1 .. m : ends[k] = h
    BY <1>4, <2>4, <2>7, <2>8
  <2>10. x[k] = u[e].frame
    BY <1>10, <2>7, <2>9
  <2> QED
    BY <2>1, <2>10
<1>14. x \in [1 .. m -> Finished(u)]
  BY <1>6, <1>11
<1> QED
  BY <1>5, <1>12, <1>13, <1>14 DEF Yields

LEMMA JoinSeq ==
  ASSUME NEW s \in Seq(Bytes), NEW t \in Seq(Bytes) PROVE s \o t \in Seq(Bytes)
  BY ConcatProperties

LEMMA RestWithin ==
  ASSUME NEW a \in Seq(Bytes), NEW c, c = Gather!Rest(a)
  PROVE  c \in Seq(Bytes) /\ Len(c) <= Len(a)
<1>1. PICK n \in Nat : n = Len(a)
  OBVIOUS
<1>2. PICK b \in Flags(a) \cup {0} : c = Span(a, b, n)
  BY <1>1, RestIsBehind
<1>3. b \in Nat /\ b <= n
  BY <1>1 DEF Flags
<1>4. PICK m \in Nat : b + m = n /\ m <= n
  <2>1. n - b \in Nat /\ b + (n - b) = n /\ n - b <= n
    BY <1>3
  <2> QED
    BY <2>1
<1>5. n <= Len(a)
  BY <1>1
<1>6. Part(c, a, b, m)
  BY <1>2, <1>3, <1>4, <1>5, SliceIs
<1> QED
  BY <1>1, <1>4, <1>6 DEF Part

-----------------------------------------------------------------------------
(* The history: what comes is of later frames than those read whole, and   *)
(* of them exactly what the property says has been pushed.                 *)
Roomy == 2 * DecodeCap + Chunk <= AccCap

WholeInv ==
  /\ inPlace \subseteq whole /\ whole \subseteq DOMAIN sent
  /\ \A f \in whole : \A j \in DOMAIN (tail \o device) : f < (tail \o device)[j].frame

PushedInv ==
  /\ pushed \in Seq(whole)
  /\ \A j, k \in DOMAIN pushed : j < k => pushed[j] < pushed[k]
  /\ Roomy => \A f \in inPlace : sent[f].plain \in 3 .. DecodeCap =>
                \E k \in DOMAIN pushed : pushed[k] = f

GatherInv == BytesInv /\ StreamInv /\ AccInv /\ WholeInv /\ PushedInv

Grown(r, S, T, p, m, x) ==
  /\ r \in Seq(S \cup T)
  /\ \A j, k \in DOMAIN r : j < k => r[j] < r[k]
  /\ \A j \in DOMAIN p : \E k \in DOMAIN r : r[k] = p[j]
  /\ \A j \in 1 .. m : \E k \in DOMAIN r : r[k] = x[j]

LEMMA PushedGrows ==
  ASSUME NEW S \in SUBSET Nat, NEW T \in SUBSET Nat, NEW p \in Seq(S),
         \A j, k \in DOMAIN p : j < k => p[j] < p[k],
         NEW m \in Nat, NEW x \in [1 .. m -> T], \A j, k \in 1 .. m : j < k => x[j] < x[k],
         \A f \in S : \A g \in T : f < g,
         NEW r, r = p \o x
  PROVE  Grown(r, S, T, p, m, x)
<1>1. p \in Seq(S \cup T) /\ x \in Seq(S \cup T) /\ Len(x) = m
  OBVIOUS
<1>2. PICK l \in Nat : l = Len(p) /\ DOMAIN p = 1 .. l
  OBVIOUS
<1>3. Joined(S \cup T, r, p, x, l, m)
  BY <1>1, <1>2, JoinIs
<1>4. /\ r \in Seq(S \cup T) /\ DOMAIN r = 1 .. l + m
      /\ \A j \in 1 .. l : r[j] = p[j]
      /\ \A j \in 1 .. m : r[l + j] = x[j]
  BY <1>3 DEF Joined
<1>5. ASSUME NEW j \in 1 .. l + m PROVE j \in 1 .. l \/ \E z \in 1 .. m : j = l + z
  <2>1. CASE j <= l
    BY <2>1
  <2>2. CASE ~(j <= l)
    <3>1. j - l \in 1 .. m /\ j = l + (j - l)
      BY <2>2
    <3> QED
      BY <3>1
  <2> QED
    BY <2>1, <2>2
<1>6. ASSUME NEW j \in 1 .. l + m, NEW k \in 1 .. l + m, j < k PROVE r[j] < r[k]
  <2>1. CASE k \in 1 .. l
    <3>1. j \in 1 .. l
      BY <1>6, <2>1
    <3> QED
      BY <1>2, <1>4, <1>6, <2>1, <3>1
  <2>2. CASE k \notin 1 .. l
    <3>1. PICK y \in 1 .. m : k = l + y
      BY <1>5, <2>2
    <3>2. CASE j \in 1 .. l
      <4>1. r[j] = p[j] /\ r[k] = x[y] /\ p[j] \in S /\ x[y] \in T
        BY <1>2, <1>4, <3>1, <3>2
      <4> QED
        BY <4>1
    <3>3. CASE j \notin 1 .. l
      <4>1. PICK z \in 1 .. m : j = l + z
        BY <1>5, <3>3
      <4>2. z < y
        BY <1>6, <3>1, <4>1
      <4> QED
        BY <1>4, <3>1, <4>1, <4>2
    <3> QED
      BY <3>2, <3>3
  <2> QED
    BY <2>1, <2>2
<1>7. \A j \in DOMAIN p : j \in DOMAIN r /\ r[j] = p[j]
  BY <1>2, <1>4
<1>8. \A j \in 1 .. m : l + j \in DOMAIN r /\ r[l + j] = x[j]
  BY <1>4
<1> QED
  BY <1>4, <1>6, <1>7, <1>8 DEF Grown

LEMMA ReadKeeps ==
  ASSUME GatherInv, Gather!Read PROVE GatherInv'
<1>1. PICK n \in 1 .. Chunk :
        /\ n <= Len(device)
        /\ acc' = Gather!Rest(Gather!Appended(SubSeq(device, 1, n)))
        /\ pushed' = pushed \o Gather!Extracted(Gather!Appended(SubSeq(device, 1, n)))
        /\ Gather!Remember(SubSeq(device, 1, n))
        /\ device' = SubSeq(device, n + 1, Len(device))
  BY DEF Gather!Read
<1>2. PICK chunk, rest, u, a, w :
        /\ chunk = SubSeq(device, 1, n) /\ rest = SubSeq(device, n + 1, Len(device))
        /\ u = tail \o chunk /\ a = Gather!Appended(chunk) /\ w = tail \o device
  OBVIOUS
<1>3. /\ acc' = Gather!Rest(a) /\ pushed' = pushed \o Gather!Extracted(a)
      /\ device' = rest /\ sent' = sent /\ taken' = taken
      /\ tail' = Gather!Rest(u)
      /\ whole' = whole \cup Finished(u) /\ inPlace' = inPlace \cup Placed(u)
  BY <1>1, <1>2 DEF Gather!Read, Gather!Remember, Finished, Placed
<1>4. sent \in Seq(FrameKinds)
  BY DEF GatherInv, BytesInv
<1>5. /\ chunk \in Seq(Bytes) /\ Len(chunk) = n /\ rest \in Seq(Bytes)
      /\ u \in Seq(Bytes) /\ Len(u) = Len(tail) + n
      /\ u \o rest = w
      /\ \A x \in Flags(u) : Len(tail) < x
  BY <1>1, <1>2, ChunkRead DEF GatherInv
<1>6. /\ a \in Seq(Bytes) /\ Suffix(a, u) /\ Len(chunk) <= Len(a) /\ Len(a) <= AccCap
      /\ Len(a) = Len(u) \/ AccCap < Len(u)
  BY <1>2, <1>5, ChunkAppended DEF GatherInv
<1>7. PICK t \in Nat, la \in Nat, lu \in Nat :
        t = Len(tail) /\ la = Len(a) /\ lu = Len(u) /\ lu = t + n /\ n <= la /\ n \in Nat
  <2>1. Len(tail) \in Nat /\ Len(a) \in Nat /\ Len(u) \in Nat /\ n \in Nat
    BY <1>5, <1>6, KindsAssumed DEF GatherInv, BytesInv
  <2> QED
    BY <1>5, <1>6, <2>1
<1>8. HasFlags(a, u)
  <2>1. ASSUME NEW x \in Flags(u) PROVE lu - la < x
    <3>1. x \in Nat /\ t < x
      BY <1>5, <1>7 DEF Flags
    <3> QED
      BY <1>7, <3>1
  <2> QED
    BY <1>7, <2>1 DEF HasFlags
<1>9. ASSUME Roomy, NEW e \in Flags(u), e <= 2 * DecodeCap + 1 PROVE Len(a) = Len(u)
  <2>1. e \in Nat /\ t < e
    BY <1>5, <1>7 DEF Flags
  <2>2. DecodeCap \in Nat /\ Chunk \in Nat /\ AccCap \in Nat /\ n <= Chunk
    BY KindsAssumed
  <2>3. t + n <= 2 * DecodeCap + Chunk
    BY <1>7, <1>9, <2>1, <2>2
  <2>4. ~(AccCap < lu)
    BY <1>7, <1>9, <2>2, <2>3 DEF Roomy
  <2> QED
    BY <1>6, <1>7, <2>4
<1>10. Ordered(w)
  BY <1>2 DEF GatherInv, StreamInv
<1>11. Ordered(u) /\ \A j \in DOMAIN u : j \in DOMAIN w /\ w[j] = u[j]
  BY <1>5, <1>10, OrderedStart
<1>12. PICK m \in Nat : \E x \in [1 .. m -> Finished(u)] :
           /\ Gather!Extracted(a) = x
           /\ \A j, k \in 1 .. m : j < k => x[j] < x[k]
           /\ Roomy => \A f \in Placed(u) : sent[f].plain \in 3 .. DecodeCap =>
                         \E k \in 1 .. m : x[k] = f
  <2>1. PICK room \in BOOLEAN : room <=> Roomy
    BY DEF Roomy
  <2>2. room => \A e \in Flags(u) : e <= 2 * DecodeCap + 1 => Len(a) = Len(u)
    BY <1>9, <2>1
  <2>3. Yields(a, u, room)
    BY <1>4, <1>5, <1>6, <1>8, <1>11, <2>2, ExtractedOfRead
  <2> QED
    BY <2>1, <2>3 DEF Yields
<1>13. PICK x \in [1 .. m -> Finished(u)] :
           /\ Gather!Extracted(a) = x
           /\ \A j, k \in 1 .. m : j < k => x[j] < x[k]
           /\ Roomy => \A f \in Placed(u) : sent[f].plain \in 3 .. DecodeCap =>
                         \E k \in 1 .. m : x[k] = f
  BY <1>12
<1>14. PICK q, v : q = Gather!Rest(u) /\ v = q \o rest
  OBVIOUS
<1>15. /\ q \in Seq(Bytes) /\ Flags(q) = {} /\ Len(q) <= Len(u)
       /\ v \in Seq(Bytes) /\ Ordered(v)
       /\ \A j \in DOMAIN v : \E k \in DOMAIN w :
            v[j] = w[k] /\ \A y \in Flags(u) : y < k
  <2>1. BehindFlags(u, w, q, v)
    BY <1>4, <1>5, <1>10, <1>14, RestStream
  <2> QED
    BY <2>1 DEF BehindFlags
<1>16. PICK c : c = Gather!Rest(a)
  OBVIOUS
<1>17. c \in Seq(Bytes) /\ Len(c) <= Len(a)
  BY <1>6, <1>16, RestWithin
<1>18. tail' = q /\ acc' = c /\ device' = rest /\ tail' \o device' = v
  BY <1>3, <1>14, <1>16
<1>19. Bytes' = Bytes
  BY <1>3 DEF Bytes
<1>20. BytesInv'
  BY <1>3, <1>5, <1>15, <1>17, <1>18, <1>19 DEF GatherInv, BytesInv
<1>21. StreamInv'
  <2>1. ASSUME NEW j \in DOMAIN q PROVE ~(q[j].at = sent[q[j].frame].raw)
    BY <1>15 DEF Flags, Gather!IsFlag
  <2> QED
    BY <1>3, <1>15, <1>18, <2>1 DEF StreamInv, Gather!IsFlag, Ordered, Before
<1>22. AccInv'
  <2>1. CASE Flags(u) = {}
    <3>1. q = u /\ c = a
      BY <1>5, <1>6, <1>8, <1>14, <1>16, <2>1, SuffixRest
    <3>2. Suffix(c, q) /\ Len(c) <= AccCap /\ (Len(c) = Len(q) \/ AccCap < Len(q))
      BY <1>6, <3>1
    <3> QED
      BY <1>18, <3>2 DEF AccInv, Suffix
  <2>2. CASE Flags(u) # {}
    <3>1. q = c
      BY <1>5, <1>6, <1>8, <1>14, <1>16, <2>2, SuffixRest
    <3>2. PICK z \in Nat : z = Len(c)
      BY <1>17
    <3>3. z <= AccCap
      <4>1. z <= la /\ la <= AccCap /\ AccCap \in Nat
        BY <1>6, <1>7, <1>17, <3>2, KindsAssumed
      <4> QED
        BY <1>7, <4>1
    <3>4. \A j \in 1 .. z : z - z + j = j
      OBVIOUS
    <3> QED
      BY <1>18, <3>1, <3>2, <3>3, <3>4 DEF AccInv, Suffix
  <2> QED
    BY <2>1, <2>2
<1>23. \A f \in Finished(u) : \E e \in Flags(u) : f = u[e].frame
  BY <1>4, <1>5, NotedAre
<1>24. Finished(u) \subseteq DOMAIN sent /\ DOMAIN sent \subseteq Nat
  <2>1. \A e \in Flags(u) : u[e] \in Bytes
    BY <1>5 DEF Flags
  <2>2. \A e \in Flags(u) : u[e].frame \in DOMAIN sent
    BY <2>1 DEF Bytes
  <2> QED
    BY <1>4, <1>23, <2>2
<1>25. \A f \in whole : \A j \in DOMAIN w : f < w[j].frame
  BY <1>2 DEF GatherInv, WholeInv
<1>26. inPlace \subseteq whole /\ whole \subseteq DOMAIN sent
  BY DEF GatherInv, WholeInv
<1>27. WholeInv'
  <2>1. Placed(u) \subseteq Finished(u)
    BY <1>4, <1>5, PlacedAreFinished
  <2>2. ASSUME NEW f \in whole', NEW j \in DOMAIN v PROVE f < v[j].frame
    <3>1. PICK k \in DOMAIN w : v[j] = w[k] /\ \A y \in Flags(u) : y < k
      BY <1>15
    <3>2. CASE f \in whole
      BY <1>25, <3>1, <3>2
    <3>3. CASE f \in Finished(u)
      <4>1. PICK e \in Flags(u) : f = u[e].frame
        BY <1>23, <3>3
      <4>2. e \in DOMAIN u /\ Gather!IsFlag(u[e]) /\ e < k
        BY <3>1, <4>1 DEF Flags
      <4>3. e \in DOMAIN w /\ w[e] = u[e]
        BY <1>11, <4>2
      <4>4. w \in Seq(Bytes)
        BY <1>5, JoinSeq
      <4>5. w[e].frame < w[k].frame
        BY <1>4, <1>10, <4>2, <4>3, <4>4, FlagIsLast
      <4> QED
        BY <3>1, <4>1, <4>3, <4>5
    <3> QED
      BY <1>3, <3>2, <3>3
  <2>3. inPlace' \subseteq whole' /\ whole' \subseteq DOMAIN sent'
    BY <1>3, <1>24, <1>26, <2>1
  <2> QED
    BY <1>18, <2>2, <2>3 DEF WholeInv
<1>28. PushedInv'
  <2>1. whole \in SUBSET Nat /\ Finished(u) \in SUBSET Nat
    BY <1>24, <1>26
  <2>2. ASSUME NEW f \in whole, NEW g \in Finished(u) PROVE f < g
    <3>1. PICK e \in Flags(u) : g = u[e].frame
      BY <1>23
    <3>2. e \in DOMAIN w /\ w[e] = u[e]
      BY <1>11 DEF Flags
    <3> QED
      BY <1>25, <3>1, <3>2
  <2>3. PICK p \in Seq(whole) : p = pushed /\ \A j, k \in DOMAIN p : j < k => p[j] < p[k]
    BY DEF GatherInv, PushedInv
  <2>4. PICK r : r = p \o x
    OBVIOUS
  <2>5. /\ r \in Seq(whole \cup Finished(u))
        /\ \A j, k \in DOMAIN r : j < k => r[j] < r[k]
        /\ \A j \in DOMAIN p : \E k \in DOMAIN r : r[k] = p[j]
        /\ \A j \in 1 .. m : \E k \in DOMAIN r : r[k] = x[j]
    <3>1. Grown(r, whole, Finished(u), p, m, x)
      BY <1>13, <2>1, <2>2, <2>3, <2>4, PushedGrows
    <3> QED
      BY <3>1 DEF Grown
  <2>6. pushed' = r
    BY <1>3, <1>13, <2>3, <2>4
  <2>7. ASSUME Roomy, NEW f \in inPlace', sent[f].plain \in 3 .. DecodeCap
        PROVE  \E k \in DOMAIN r : r[k] = f
    <3>1. CASE f \in inPlace
      <4>1. PICK k \in DOMAIN p : p[k] = f
        BY <2>3, <2>7, <3>1 DEF GatherInv, PushedInv
      <4> QED
        BY <2>5, <4>1
    <3>2. CASE f \in Placed(u)
      <4>1. PICK k \in 1 .. m : x[k] = f
        BY <1>13, <2>7, <3>2
      <4> QED
        BY <2>5, <4>1
    <3> QED
      BY <1>3, <3>1, <3>2
  <2> QED
    BY <1>3, <2>5, <2>6, <2>7 DEF PushedInv, Roomy
<1> QED
  BY <1>20, <1>21, <1>22, <1>27, <1>28 DEF GatherInv

-----------------------------------------------------------------------------
(* What is left when some of the bytes between are taken, as another       *)
(* reader of the device does, or forgotten, as a new capture does.         *)
Kept(v, w) == Ordered(v) /\ \A j \in DOMAIN v : \E k \in DOMAIN w : v[j] = w[k]

LEMMA KeptOf ==
  ASSUME NEW s, NEW t, NEW rest, NEW u, NEW w, NEW v,
         NEW l \in Nat, NEW m \in Nat, NEW r \in Nat, NEW y \in Nat, y = l + m,
         Joined(Bytes, u, s, t, l, m), Joined(Bytes, w, u, rest, y, r),
         Joined(Bytes, v, s, rest, l, r), Ordered(w)
  PROVE  Kept(v, w)
<1>1. u \in Seq(Bytes) /\ Len(u) = l + m /\ \A j \in 1 .. l : u[j] = s[j]
  BY DEF Joined
<1>2. y = l + m
  OBVIOUS
<1>3. /\ w \in Seq(Bytes) /\ DOMAIN w = 1 .. y + r
      /\ \A j \in 1 .. y : w[j] = u[j]
      /\ \A j \in 1 .. r : w[y + j] = rest[j]
  BY DEF Joined
<1>4. /\ v \in Seq(Bytes) /\ DOMAIN v = 1 .. l + r
      /\ \A j \in 1 .. l : v[j] = s[j]
      /\ \A j \in 1 .. r : v[l + j] = rest[j]
  BY DEF Joined
<1> DEFINE h == [j \in 1 .. l + r |-> IF j <= l THEN j ELSE j + m]
<1>5. ASSUME NEW j \in 1 .. l + r PROVE h[j] \in DOMAIN w /\ v[j] = w[h[j]]
  <2>1. CASE j <= l
    <3>1. j \in 1 .. l /\ j \in 1 .. y /\ j \in 1 .. y + r /\ h[j] = j
      BY <1>2, <2>1
    <3> QED
      BY <1>1, <1>3, <1>4, <3>1
  <2>2. CASE ~(j <= l)
    <3>1. PICK z \in 1 .. r : j = l + z
      <4>1. j - l \in 1 .. r /\ j = l + (j - l)
        BY <2>2
      <4> QED
        BY <4>1
    <3>2. h[j] = y + z /\ y + z \in 1 .. y + r
      BY <1>2, <2>2, <3>1
    <3> QED
      BY <1>3, <1>4, <3>1, <3>2
  <2> QED
    BY <2>1, <2>2
<1>6. \A j, k \in 1 .. l + r : j < k => h[j] < h[k]
  OBVIOUS
<1> HIDE DEF h
<1>7. Ordered(v)
  <2>1. SUFFICES ASSUME NEW j \in 1 .. l + r, NEW k \in 1 .. l + r, j < k PROVE Before(v[j], v[k])
    BY <1>4 DEF Ordered
  <2>2. Before(w[h[j]], w[h[k]])
    BY <1>5, <1>6, <2>1 DEF Ordered
  <2> QED
    BY <1>5, <2>2
<1> QED
  BY <1>4, <1>5, <1>7 DEF Kept

LEMMA Removed ==
  ASSUME NEW s \in Seq(Bytes), NEW t \in Seq(Bytes), NEW rest \in Seq(Bytes),
         NEW u, u = s \o t, NEW w, w = u \o rest, Ordered(w), NEW v, v = s \o rest
  PROVE  Kept(v, w)
<1>1. PICK l \in Nat, m \in Nat, r \in Nat : l = Len(s) /\ m = Len(t) /\ r = Len(rest)
  OBVIOUS
<1>2. PICK y \in Nat : y = l + m
  OBVIOUS
<1>3. Joined(Bytes, u, s, t, l, m)
  BY <1>1, JoinIs
<1>4. u \in Seq(Bytes) /\ Len(u) = y
  BY <1>2, <1>3 DEF Joined
<1>5. Joined(Bytes, w, u, rest, y, r)
  BY <1>1, <1>4, JoinIs
<1>6. Joined(Bytes, v, s, rest, l, r)
  BY <1>1, JoinIs
<1> QED
  BY <1>2, <1>3, <1>5, <1>6, KeptOf

LEMMA StartKeeps == ASSUME GatherInv, Gather!Start PROVE GatherInv'
<1>1. /\ acc' = <<>> /\ pushed' = <<>> /\ tail' = <<>> /\ whole' = {} /\ inPlace' = {}
      /\ sent' = sent /\ device' = device /\ taken' = taken
  BY DEF Gather!Start
<1>2. /\ device \in Seq(Bytes) /\ tail \in Seq(Bytes) /\ <<>> \in Seq(Bytes)
      /\ <<>> \o tail = tail /\ <<>> \o device = device
  BY EmptySeq, ConcatEmptySeq DEF GatherInv, BytesInv
<1>3. PICK w, v : w = tail \o device /\ v = <<>> \o device
  OBVIOUS
<1>4. Ordered(w)
  BY <1>3 DEF GatherInv, StreamInv
<1>5. PICK s : s = <<>>
  OBVIOUS
<1>6. Ordered(v)
  <2>1. s \in Seq(Bytes) /\ tail = s \o tail /\ v = s \o device
    BY <1>2, <1>3, <1>5
  <2> QED
    <3>1. Kept(v, w)
      BY <1>2, <1>3, <1>4, <2>1, Removed
    <3> QED
      BY <3>1 DEF Kept
<1>7. Bytes' = Bytes
  BY <1>1 DEF Bytes
<1>8. BytesInv'
  BY <1>1, <1>2, <1>7 DEF GatherInv, BytesInv
<1>9. StreamInv'
  BY <1>1, <1>3, <1>6 DEF StreamInv, Ordered, Before
<1>10. AccInv'
  BY <1>1, KindsAssumed DEF AccInv, Suffix
<1>11. WholeInv'
  BY <1>1 DEF WholeInv
<1>12. PushedInv'
  BY <1>1, EmptySeq DEF PushedInv
<1> QED
  BY <1>8, <1>9, <1>10, <1>11, <1>12 DEF GatherInv

LEMMA OtherReadsKeeps == ASSUME GatherInv, Gather!OtherReads PROVE GatherInv'
<1>1. PICK n \in 1 .. Len(device) : device' = SubSeq(device, n + 1, Len(device))
  BY DEF Gather!OtherReads
<1>2. taken' \in 0 .. MaxTaken /\ UNCHANGED <<sent, acc, pushed, tail, whole, inPlace>>
  BY KindsAssumed DEF Gather!OtherReads, Gather!history, GatherInv, BytesInv
<1>3. PICK chunk, rest : chunk = SubSeq(device, 1, n) /\ rest = SubSeq(device, n + 1, Len(device))
  OBVIOUS
<1>4. device \in Seq(Bytes) /\ tail \in Seq(Bytes)
  BY DEF GatherInv, BytesInv
<1>5. chunk \in Seq(Bytes) /\ rest \in Seq(Bytes) /\ (tail \o chunk) \o rest = tail \o device
  <2>1. IsSplit(tail, device, chunk, rest)
    BY <1>3, <1>4, DeviceSplit
  <2> QED
    BY <2>1 DEF IsSplit
<1>6. PICK u, v, w : u = tail \o chunk /\ v = tail \o rest /\ w = tail \o device
  OBVIOUS
<1>7. w = u \o rest /\ Ordered(w)
  BY <1>5, <1>6 DEF GatherInv, StreamInv
<1>8. Ordered(v) /\ \A j \in DOMAIN v : \E k \in DOMAIN w : v[j] = w[k]
  <2>1. Kept(v, w)
    BY <1>4, <1>5, <1>6, <1>7, Removed
  <2> QED
    BY <2>1 DEF Kept
<1>9. device' = rest /\ tail' \o device' = v
  BY <1>1, <1>2, <1>3, <1>6
<1>10. Bytes' = Bytes
  BY <1>2 DEF Bytes
<1>11. BytesInv'
  BY <1>2, <1>5, <1>9, <1>10 DEF GatherInv, BytesInv
<1>12. StreamInv'
  BY <1>2, <1>8, <1>9 DEF GatherInv, StreamInv, Ordered, Before, Gather!IsFlag
<1>13. AccInv'
  BY <1>2 DEF GatherInv, AccInv, Suffix
<1>14. WholeInv'
  <2>1. \A f \in whole : \A j \in DOMAIN v : f < v[j].frame
    BY <1>6, <1>8 DEF GatherInv, WholeInv
  <2> QED
    BY <1>2, <1>9, <2>1 DEF GatherInv, WholeInv
<1>15. PushedInv'
  BY <1>2 DEF GatherInv, PushedInv
<1> QED
  BY <1>11, <1>12, <1>13, <1>14, <1>15 DEF GatherInv

(* A new frame is later than all that were sent, and comes in one piece.   *)
LEMMA ModemSendsKeeps == ASSUME GatherInv, Gather!ModemSends PROVE GatherInv'
<1>1. PICK k \in FrameKinds :
        sent' = Append(sent, k) /\ device' = device \o Gather!BytesOf(Len(sent) + 1, k)
  BY DEF Gather!ModemSends
<1>2. UNCHANGED <<taken, acc, pushed, tail, whole, inPlace>>
  BY DEF Gather!ModemSends, Gather!history
<1>3. /\ sent \in Seq(FrameKinds) /\ Len(sent) < MaxFrames
      /\ device \in Seq(Bytes) /\ tail \in Seq(Bytes) /\ acc \in Seq(Bytes)
  BY DEF GatherInv, BytesInv, Gather!ModemSends
<1>4. PICK l \in Nat, f \in Nat, raw \in Nat \ {0} : l = Len(sent) /\ f = l + 1 /\ raw = k.raw
  <2>1. k.raw \in Nat \ {0} /\ Len(sent) \in Nat /\ Len(sent) + 1 \in Nat
    BY <1>3, KindsAssumed
  <2> QED
    BY <2>1
<1>5. /\ sent' \in Seq(FrameKinds) /\ DOMAIN sent = 1 .. l /\ DOMAIN sent' = 1 .. f /\ Len(sent') = f
      /\ \A g \in 1 .. l : sent'[g] = sent[g]
      /\ sent'[f] = k
  BY <1>1, <1>3, <1>4, AppendProperties
<1>6. PICK B : B = Bytes'
  OBVIOUS
<1>7. B = {c \in [frame : 1 .. f, at : Nat] : c.at \in 1 .. sent'[c.frame].raw}
  BY <1>5, <1>6 DEF Bytes
<1>8. Bytes \subseteq B
  <2>1. SUFFICES ASSUME NEW c \in Bytes PROVE c \in B
    OBVIOUS
  <2>2. c \in [frame : 1 .. l, at : Nat] /\ c.at \in 1 .. sent[c.frame].raw /\ c.frame \in 1 .. l
    BY <1>5 DEF Bytes
  <2>3. sent'[c.frame] = sent[c.frame] /\ c \in [frame : 1 .. f, at : Nat]
    BY <1>4, <1>5, <2>2
  <2> QED
    BY <1>7, <2>2, <2>3
<1>9. PICK new : new = [j \in 1 .. raw |-> [frame |-> f, at |-> j]]
  OBVIOUS
<1>10. device' = device \o new
  BY <1>1, <1>4, <1>9 DEF Gather!BytesOf
<1>11. new \in Seq(B) /\ Len(new) = raw
  <2>1. ASSUME NEW j \in 1 .. raw PROVE [frame |-> f, at |-> j] \in B
    <3>1. f \in 1 .. f /\ j \in Nat /\ j \in 1 .. sent'[f].raw
      BY <1>4, <1>5
    <3> QED
      BY <1>7, <3>1
  <2> QED
    BY <1>9, <2>1
<1>12. device \in Seq(B) /\ tail \in Seq(B) /\ acc \in Seq(B)
  BY <1>3, <1>8
<1>13. device' \in Seq(B)
  BY <1>10, <1>11, <1>12, ConcatProperties
<1>14. PICK w, v : w = tail \o device /\ v = tail \o device'
  OBVIOUS
<1>15. w \in Seq(Bytes)
  BY <1>3, <1>14, JoinSeq
<1>16. v = w \o new
  <2>1. (tail \o device) \o new = tail \o (device \o new)
    <3>1. PICK s, t : s = tail /\ t = device /\ s \in Seq(B) /\ t \in Seq(B)
      BY <1>12
    <3>2. (s \o t) \o new = s \o (t \o new)
      BY <1>11, <3>1, ConcatAssociative
    <3> QED
      BY <3>1, <3>2
  <2> QED
    BY <1>10, <1>14, <2>1
<1>17. PICK n \in Nat : n = Len(w)
  BY <1>15
<1>18. /\ DOMAIN v = 1 .. n + raw /\ DOMAIN w = 1 .. n
       /\ \A j \in 1 .. n : v[j] = w[j]
       /\ \A j \in 1 .. raw : v[n + j] = [frame |-> f, at |-> j]
  <2>1. w \in Seq(B)
    BY <1>8, <1>15
  <2>2. Joined(B, v, w, new, n, raw)
    BY <1>11, <1>16, <1>17, <2>1, JoinIs
  <2> QED
    BY <1>9, <1>15, <1>17, <2>2 DEF Joined
<1>19. ASSUME NEW j \in 1 .. n + raw PROVE j \in 1 .. n \/ \E y \in 1 .. raw : j = n + y
  <2>1. CASE j <= n
    BY <2>1
  <2>2. CASE ~(j <= n)
    <3>1. j - n \in 1 .. raw /\ j = n + (j - n)
      BY <2>2
    <3> QED
      BY <3>1
  <2> QED
    BY <2>1, <2>2
<1>20. \A j \in 1 .. n : w[j].frame \in 1 .. l /\ w[j].frame < f
  <2>1. \A j \in 1 .. n : w[j] \in Bytes
    BY <1>15, <1>18
  <2>2. \A j \in 1 .. n : w[j].frame \in 1 .. l
    BY <1>5, <2>1 DEF Bytes
  <2> QED
    BY <1>4, <2>2
<1>21. Ordered(v)
  <2>1. SUFFICES ASSUME NEW j \in 1 .. n + raw, NEW y \in 1 .. n + raw, j < y PROVE Before(v[j], v[y])
    BY <1>18 DEF Ordered
  <2>2. CASE y \in 1 .. n
    <3>1. j \in 1 .. n /\ Ordered(w)
      BY <1>14, <2>1, <2>2 DEF GatherInv, StreamInv
    <3> QED
      BY <1>18, <2>1, <2>2, <3>1 DEF Ordered
  <2>3. CASE y \notin 1 .. n
    <3>1. PICK z \in 1 .. raw : y = n + z
      BY <1>19, <2>3
    <3>2. v[y] = [frame |-> f, at |-> z]
      BY <1>18, <3>1
    <3>3. v[y].frame = f /\ v[y].at = z
      BY <3>2
    <3>4. CASE j \in 1 .. n
      <4>1. v[j] = w[j] /\ w[j].frame < f
        BY <1>18, <1>20, <3>4
      <4> QED
        BY <3>3, <4>1 DEF Before
    <3>5. CASE j \notin 1 .. n
      <4>1. PICK x \in 1 .. raw : j = n + x
        BY <1>19, <3>5
      <4>2. x < z
        BY <2>1, <3>1, <4>1
      <4>3. v[j] = [frame |-> f, at |-> x]
        BY <1>18, <4>1
      <4>4. v[j].frame = f /\ v[j].at = x
        BY <4>3
      <4> QED
        BY <3>3, <4>2, <4>4 DEF Before
    <3> QED
      BY <3>4, <3>5
  <2> QED
    BY <2>2, <2>3
<1>22. BytesInv'
  <2>1. Len(sent') <= MaxFrames
    BY <1>3, <1>4, <1>5, KindsAssumed
  <2> QED
    BY <1>2, <1>5, <1>6, <1>12, <1>13, <2>1 DEF GatherInv, BytesInv
<1>23. StreamInv'
  <2>1. ASSUME NEW j \in DOMAIN tail PROVE ~(tail[j].at = sent'[tail[j].frame].raw)
    <3>1. tail[j] \in Bytes
      BY <1>3
    <3>2. sent'[tail[j].frame] = sent[tail[j].frame]
      BY <1>5, <3>1 DEF Bytes
    <3>3. ~Gather!IsFlag(tail[j])
      BY DEF GatherInv, StreamInv
    <3> QED
      BY <3>2, <3>3 DEF Gather!IsFlag
  <2> QED
    BY <1>2, <1>14, <1>21, <2>1 DEF StreamInv, Ordered, Before, Gather!IsFlag
<1>24. AccInv'
  BY <1>2 DEF GatherInv, AccInv, Suffix
<1>25. WholeInv'
  <2>1. inPlace \subseteq whole /\ whole \subseteq 1 .. l /\ \A g \in whole : \A j \in 1 .. n : g < w[j].frame
    BY <1>5, <1>14, <1>18 DEF GatherInv, WholeInv
  <2>2. ASSUME NEW g \in whole, NEW j \in 1 .. n + raw PROVE g < v[j].frame
    <3>1. CASE j \in 1 .. n
      BY <1>18, <2>1, <3>1
    <3>2. CASE j \notin 1 .. n
      <4>1. v[j].frame = f
        <5>1. PICK y \in 1 .. raw : j = n + y
          BY <1>19, <3>2
        <5>2. v[j] = [frame |-> f, at |-> y]
          BY <1>18, <5>1
        <5> QED
          BY <5>2
      <4>2. g < f
        BY <1>4, <2>1
      <4> QED
        BY <4>1, <4>2
    <3> QED
      BY <3>1, <3>2
  <2>3. whole \subseteq 1 .. f
    BY <1>4, <2>1
  <2> QED
    BY <1>2, <1>5, <1>14, <1>18, <2>1, <2>2, <2>3 DEF WholeInv
<1>26. PushedInv'
  <2>1. \A g \in inPlace : sent'[g] = sent[g]
    BY <1>5 DEF GatherInv, WholeInv
  <2> QED
    BY <1>2, <2>1 DEF GatherInv, PushedInv
<1> QED
  BY <1>22, <1>23, <1>24, <1>25, <1>26 DEF GatherInv

LEMMA GatherSteps == [TransportsNext]_allVars => [Gather!Next]_(Gather!vars)
  BY DEF TransportsNext, IdsMove, DiagMoves, GatherMoves, QmuxMoves, QrtrMoves,
         ListMoves, ProbeMoves, VendorMoves, allVars, gatherVars, Gather!vars, Gather!history

LEMMA GatherInitially == Gather!Init => GatherInv
<1> SUFFICES ASSUME Gather!Init PROVE GatherInv
  OBVIOUS
<1>1. /\ sent = <<>> /\ device = <<>> /\ taken = 0 /\ acc = <<>> /\ pushed = <<>>
      /\ tail = <<>> /\ whole = {} /\ inPlace = {}
  BY DEF Gather!Init
<1>2. BytesInv
  BY <1>1, EmptySeq, KindsAssumed DEF BytesInv
<1>3. StreamInv
  <2>1. <<>> \o <<>> = <<>>
    BY ConcatEmptySeq, EmptySeq
  <2> QED
    BY <1>1, <2>1 DEF StreamInv, Ordered
<1>4. AccInv
  BY <1>1, KindsAssumed DEF AccInv, Suffix
<1>5. WholeInv /\ PushedInv
  BY <1>1, EmptySeq DEF WholeInv, PushedInv
<1> QED
  BY <1>2, <1>3, <1>4, <1>5 DEF GatherInv

LEMMA GatherInductive == GatherInv /\ [Gather!Next]_(Gather!vars) => GatherInv'
<1> SUFFICES ASSUME GatherInv, [Gather!Next]_(Gather!vars) PROVE GatherInv'
  OBVIOUS
<1>1. CASE Gather!Read
  BY <1>1, ReadKeeps
<1>2. CASE Gather!Start
  BY <1>2, StartKeeps
<1>3. CASE Gather!OtherReads
  BY <1>3, OtherReadsKeeps
<1>4. CASE Gather!ModemSends
  BY <1>4, ModemSendsKeeps
<1>5. CASE UNCHANGED Gather!vars
  <2>1. UNCHANGED <<sent, device, taken, acc, pushed, tail, whole, inPlace>>
    BY <1>5 DEF Gather!vars, Gather!history
  <2>2. Bytes' = Bytes
    BY <2>1 DEF Bytes
  <2>3. BytesInv'
    BY <2>1, <2>2 DEF GatherInv, BytesInv
  <2>4. StreamInv'
    BY <2>1 DEF GatherInv, StreamInv, Ordered, Before, Gather!IsFlag
  <2>5. AccInv'
    BY <2>1 DEF GatherInv, AccInv, Suffix
  <2>6. WholeInv'
    BY <2>1 DEF GatherInv, WholeInv
  <2>7. PushedInv'
    BY <2>1 DEF GatherInv, PushedInv
  <2> QED
    BY <2>3, <2>4, <2>5, <2>6, <2>7 DEF GatherInv
<1> QED
  BY <1>1, <1>2, <1>3, <1>4, <1>5 DEF Gather!Next

LEMMA GatherInvariant == TransportsSpec => []GatherInv
<1>1. TransportsInit => Gather!Init
  BY DEF TransportsInit
<1> QED
  BY <1>1, GatherSteps, GatherInitially, GatherInductive, PTL DEF TransportsSpec

(* Every frame that arrived in place and decodes is pushed when its flag   *)
(* has been read, once, in order and never before it was read whole, for   *)
(* every division into chunks and whatever others read, if acc holds the   *)
(* longest frame that decodes and a chunk: 16384 is enough for 2 * 4096    *)
(* and 4096.                                                               *)
THEOREM WholeIsPushedTheorem ==
  ASSUME 2 * DecodeCap + Chunk <= AccCap PROVE TransportsSpec => []WholeIsPushed
<1>1. ASSUME GatherInv PROVE WholeIsPushed
  <2>1. /\ pushed \in Seq(whole)
        /\ \A j, k \in DOMAIN pushed : j < k => pushed[j] < pushed[k]
        /\ \A f \in inPlace : sent[f].plain \in 3 .. DecodeCap =>
             \E k \in DOMAIN pushed : pushed[k] = f
    BY <1>1 DEF GatherInv, PushedInv, Roomy
  <2>2. Gather!ToSet(pushed) = {pushed[k] : k \in DOMAIN pushed}
    BY DEF Gather!ToSet
  <2>3. Gather!ToSet(pushed) \subseteq whole
    BY <2>1, <2>2
  <2>4. {f \in inPlace : sent[f].plain \in 3 .. DecodeCap} \subseteq Gather!ToSet(pushed)
    BY <2>1, <2>2
  <2> QED
    BY <2>1, <2>3, <2>4 DEF WholeIsPushed, Gather!WholeIsPushed
<1> QED
  BY <1>1, GatherInvariant, PTL

LEMMA GatherTyped == GatherInv => Gather!TypeOK
<1> SUFFICES ASSUME GatherInv PROVE Gather!TypeOK
  OBVIOUS
<1>1. BytesInv /\ AccInv /\ WholeInv /\ PushedInv
  BY DEF GatherInv
<1>2. ASSUME NEW s \in {device, acc, tail}, NEW j \in DOMAIN s
      PROVE  s[j].frame \in DOMAIN sent /\ s[j].at \in 1 .. sent[s[j].frame].raw
  <2>1. s \in Seq(Bytes)
    BY <1>1 DEF BytesInv
  <2>2. s[j] \in Bytes
    BY <1>2, <2>1
  <2> QED
    BY <2>2 DEF Bytes
<1>3. pushed \in Seq(DOMAIN sent)
  BY <1>1 DEF PushedInv, WholeInv
<1> QED
  BY <1>1, <1>2, <1>3 DEF Gather!TypeOK, BytesInv, AccInv, WholeInv

-----------------------------------------------------------------------------
(* The types of all parts together.                                        *)
(* Every variable of every part keeps its type, for all values of the      *)
(* constants.                                                              *)
THEOREM TransportsTypeTheorem == TransportsSpec => []TransportsTypeOK
<1>1. DiagInv => Diag!TypeOK
  BY DEF DiagInv
<1>2. QmuxInv => Qmux!TypeOK
  BY DEF QmuxInv
<1>3. QrtrInv => Qrtr!TypeOK
  BY DEF QrtrInv
<1>4. ListInv => List!TypeOK
  BY DEF ListInv
<1>5. ProbeInv => Probe!TypeOK
  BY DEF ProbeInv
<1>6. VendorInv => Vendor!TypeOK
  BY DEF VendorInv, VendorTypes, Vendor!TypeOK
<1>7. TypeOK /\ Diag!TypeOK /\ Gather!TypeOK /\ Qmux!TypeOK /\ Qrtr!TypeOK
      /\ List!TypeOK /\ Probe!TypeOK /\ Vendor!TypeOK => TransportsTypeOK
  BY DEF TransportsTypeOK
<1> QED
  BY <1>1, <1>2, <1>3, <1>4, <1>5, <1>6, <1>7, GatherTyped, IdsType, DiagInvariant,
     GatherInvariant, QmuxInvariant, QrtrInvariant, ListInvariant, ProbeInvariant,
     VendorInvariant, PTL
=============================================================================
