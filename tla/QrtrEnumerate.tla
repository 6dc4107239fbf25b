---------------------------- MODULE QrtrEnumerate ----------------------------
(***************************************************************************)
(* The listing of the services on QRTR: the passes of qrtr_enumerate, one  *)
(* for all services and one for each well-known id, the loop that drains   *)
(* announcements into the caller's array, and the text that qrtrEnumerate  *)
(* of jni_bridge.c makes of the array.                                     *)
(***************************************************************************)
EXTENDS Naturals, Sequences, SequencesExt

CONSTANTS Services,   \* what may be announced: service, instance, node and port
          Cap,        \* entries of the array
          Passes,     \* lookups: the wildcard and PROBE_SERVICES
          Polls,      \* polls of one pass, its budget / 150
          MaxSent     \* bound of the model: announcements

EnumerateAssumption ==
  /\ Cap \in Nat \ {0} /\ Passes \in Nat \ {0} /\ Polls \in Nat \ {0} /\ MaxSent \in Nat

VARIABLES
  inbox,   \* announcements that wait in the socket
  sent,    \* announcements made
  heard,   \* services whose announcement has been read
  out,     \* entries written to the array, in order
  count,   \* *count
  pass,    \* lookups made
  polls,   \* polls of this pass
  pc,      \* "idle", "drain", "pass", "failed"
  shown    \* entries of the array that the text shows

vars == <<inbox, sent, heard, out, count, pass, polls, pc, shown>>

End   == [what |-> "end"]      \* the sentinel: service, node and port are 0
Other == [what |-> "other"]    \* no NEW_SERVER from the control port
Announcement == [what : {"server"}, s : Services] \cup {End, Other}

Init ==
  /\ inbox = <<>> /\ sent = 0 /\ heard = {}
  /\ out = <<>> /\ count = 0 /\ pass = 0 /\ polls = 0
  /\ pc = "pass" /\ shown = 0

(* The next lookup is sent, or cannot be and its pass is left out.         *)
Lookup ==
  /\ pc = "pass" /\ pass < Passes
  /\ pass' = pass + 1 /\ polls' = 0
  /\ pc' \in {"drain", "pass"}
  /\ UNCHANGED <<inbox, sent, heard, out, count, shown>>

(* Every poll is charged in full.                                          *)
DrainPoll ==
  /\ pc = "drain" /\ polls < Polls /\ inbox = <<>>
  /\ polls' = polls + 1
  /\ UNCHANGED <<inbox, sent, heard, out, count, pass, pc, shown>>

(* Faulty: the array is not searched.                                      *)
NeverStored(s) == FALSE

Stored(s) == s \in ToSet(out)

(* A service beyond the end of the array is counted all the same.          *)
Store(s) ==
  /\ out' = IF count < Cap THEN Append(out, s) ELSE out
  /\ count' = count + 1

(* A poll brings one datagram.                                             *)
DrainRead ==
  /\ pc = "drain" /\ polls < Polls /\ inbox # <<>>
  /\ polls' = polls + 1
  /\ inbox' = Tail(inbox)
  /\ LET d == Head(inbox)
     IN  /\ heard' = heard \cup (IF d.what = "server" THEN {d.s} ELSE {})
         /\ pc' = IF d = End THEN "pass" ELSE pc
         /\ IF d.what = "server" /\ ~Stored(d.s) THEN Store(d.s) ELSE UNCHANGED <<out, count>>
  /\ UNCHANGED <<sent, pass, shown>>

DrainEnds ==
  /\ pc = "drain" /\ polls >= Polls
  /\ pc' = "pass"
  /\ UNCHANGED <<inbox, sent, heard, out, count, pass, polls, shown>>

(* poll or recvfrom fails: so does the listing.                            *)
DrainFails ==
  /\ pc = "drain" /\ polls < Polls
  /\ pc' = "failed"
  /\ UNCHANGED <<inbox, sent, heard, out, count, pass, polls, shown>>

(* The text has a line for each entry up to the count.                     *)
Show ==
  /\ pc = "pass" /\ pass = Passes
  /\ pc' = "idle" /\ shown' = count
  /\ UNCHANGED <<inbox, sent, heard, out, count, pass, polls>>

(* The name service repeats itself: to every lookup it may tell all.       *)
Announce ==
  /\ sent < MaxSent
  /\ sent' = sent + 1
  /\ \E d \in Announcement : inbox' = Append(inbox, d)
  /\ UNCHANGED <<heard, out, count, pass, polls, pc, shown>>

CallStep == Lookup \/ DrainPoll \/ DrainRead \/ DrainEnds \/ DrainFails \/ Show

Next == CallStep \/ Announce

Spec == Init /\ [][Next]_vars

-----------------------------------------------------------------------------
TypeOK ==
  /\ inbox \in Seq(Announcement) /\ sent \in 0 .. MaxSent
  /\ heard \subseteq Services
  /\ out \in Seq(Services) /\ Len(out) <= Cap
  /\ count \in Nat /\ pass \in 0 .. Passes /\ polls \in 0 .. Polls
  /\ pc \in {"idle", "drain", "pass", "failed"} /\ shown \in Nat

(* Until the array is full, it lists what was heard, each service once,    *)
(* however often and in however many passes it is announced.               *)
ListsWhatWasHeard ==
  /\ \A j, k \in 1 .. Len(out) : out[j] = out[k] => j = k
  /\ ToSet(out) \subseteq heard
  /\ Len(out) < Cap => ToSet(out) = heard /\ count = Len(out)

(* qrtr.h:87: the count that is returned is the number of entries written. *)
(* The text made of the array reads no others.                             *)
ShowsOnlyWritten == shown <= Len(out)
=============================================================================
