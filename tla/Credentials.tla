----------------------------- MODULE Credentials -----------------------------
(***************************************************************************)
(* The credentials of the thread that runs a call: a socket is made or     *)
(* connected as the radio user, and the thread goes back to what it was.   *)
(* qmux.c and qrtr.c do it in the same way, probe_connect of jni_bridge.c  *)
(* in its own.  The ids belong to the thread, which serves one call after  *)
(* another; every call of the kernel may be refused.                       *)
(***************************************************************************)
CONSTANT Sites   \* code that drops the ids: "qmux", "qrtr", "probe"

ASSUME SitesAssumption == Sites \subseteq {"qmux", "qrtr", "probe"}

VARIABLES
  euid, egid,   \* effective ids of the thread
  groups,       \* its supplementary groups
  keepcaps,     \* PR_SET_KEEPCAPS
  pc, site,     \* where the thread is, and in which code
  savedEuid,    \* saved_euid
  savedEgid,    \* saved_egid
  dropped,      \* the local of that name
  refused       \* a call that goes back to saved ids has been refused

ids   == <<euid, egid>>
saved == <<savedEuid, savedEgid>>
vars  == <<ids, groups, keepcaps, pc, site, saved, dropped, refused>>

(* The service runs as root.                                               *)
Init ==
  /\ euid = "root" /\ egid = "root" /\ groups = "inherited" /\ keepcaps = FALSE
  /\ pc = "idle" /\ site \in Sites
  /\ savedEuid = "root" /\ savedEgid = "root"
  /\ dropped = FALSE /\ refused = FALSE

(* The ids are saved; only root goes on to drop them.                      *)
Begin(s) ==
  /\ pc = "idle"
  /\ site' = s /\ savedEuid' = euid /\ savedEgid' = egid /\ dropped' = FALSE
  /\ IF euid = "root"
     THEN keepcaps' = TRUE /\ pc' = "setgroups"
     ELSE keepcaps' = keepcaps /\ pc' = "connect"
  /\ UNCHANGED <<ids, groups, refused>>

(* A refusal is only logged.                                               *)
SetGroups ==
  /\ pc = "setgroups"
  /\ groups' \in {groups, "radio"}
  /\ pc' = "setegid"
  /\ UNCHANGED <<ids, keepcaps, site, saved, dropped, refused>>

SetEgid ==
  /\ pc = "setegid"
  /\ egid' = "radio" /\ pc' = "seteuid"
  /\ UNCHANGED <<euid, groups, keepcaps, site, saved, dropped, refused>>

(* probe_connect has no else: nothing is put back.                         *)
SetEgidFails ==
  /\ pc = "setegid"
  /\ keepcaps' = (keepcaps /\ site = "probe")
  /\ pc' = "connect"
  /\ UNCHANGED <<ids, groups, site, saved, dropped, refused>>

SetEuid ==
  /\ pc = "seteuid"
  /\ euid' = "radio" /\ dropped' = TRUE /\ pc' = "connect"
  /\ UNCHANGED <<egid, groups, keepcaps, site, saved, refused>>

(* A call that puts an id back, or is refused.                             *)
PutBackEgid ==
  \/ egid' = savedEgid /\ UNCHANGED refused
  \/ egid' = egid /\ refused' = TRUE

(* Faulty: the group id is not put back.                                   *)
SetEuidFailsGroup ==
  /\ pc = "seteuid"
  /\ keepcaps' = FALSE
  /\ pc' = "connect"
  /\ UNCHANGED <<ids, groups, site, saved, dropped, refused>>

SetEuidFails ==
  /\ pc = "seteuid"
  /\ IF site = "probe"
     THEN UNCHANGED <<egid, keepcaps, refused>>
     ELSE PutBackEgid /\ keepcaps' = FALSE
  /\ pc' = "connect"
  /\ UNCHANGED <<euid, groups, site, saved, dropped>>

(* The socket is made or connected, or is not: the ids are restored.       *)
Connect ==
  /\ pc = "connect"
  /\ pc' = IF dropped THEN "restore-uid" ELSE "idle"
  /\ UNCHANGED <<ids, groups, keepcaps, site, saved, dropped, refused>>

RestoreEuid ==
  /\ pc = "restore-uid" /\ pc' = "restore-gid"
  /\ \/ euid' = savedEuid /\ UNCHANGED refused
     \/ euid' = euid /\ refused' = TRUE
  /\ UNCHANGED <<egid, groups, keepcaps, site, saved, dropped>>

(* Faulty: PR_SET_KEEPCAPS is left set.                                    *)
RestoreEgidKeepcaps ==
  /\ pc = "restore-gid" /\ pc' = "idle"
  /\ PutBackEgid
  /\ UNCHANGED <<euid, groups, keepcaps, site, saved, dropped>>

RestoreEgid ==
  /\ pc = "restore-gid" /\ pc' = "idle"
  /\ PutBackEgid /\ keepcaps' = FALSE
  /\ UNCHANGED <<euid, groups, site, saved, dropped>>

Next ==
  \/ \E s \in Sites : Begin(s)
  \/ SetGroups \/ SetEgid \/ SetEgidFails \/ SetEuid \/ SetEuidFails
  \/ Connect \/ RestoreEuid \/ RestoreEgid

Spec == Init /\ [][Next]_vars

-----------------------------------------------------------------------------
TypeOK ==
  /\ euid \in {"root", "radio"} /\ egid \in {"root", "radio"}
  /\ groups \in {"inherited", "radio"} /\ keepcaps \in BOOLEAN
  /\ pc \in {"idle", "setgroups", "setegid", "seteuid", "connect", "restore-uid",
             "restore-gid"}
  /\ site \in Sites
  /\ savedEuid \in {"root", "radio"} /\ savedEgid \in {"root", "radio"}
  /\ dropped \in BOOLEAN /\ refused \in BOOLEAN
  /\ pc \in {"restore-uid", "restore-gid"} => dropped

(* qmux.c:60: "Drop euid/egid to AID_RADIO around connect() [...], then    *)
(* restore": between two calls the thread is root, and does not keep its   *)
(* capabilities, as long as nothing that puts an id back was refused,      *)
(* whatever else was refused in the calls before.                          *)
Restored ==
  pc = "idle" => ~keepcaps /\ (refused \/ (euid = "root" /\ egid = "root"))

(* qmux.c:65: the drop is best effort but it is whole: the socket is made  *)
(* with both ids of radio, or with the ids that the thread came with.      *)
WholeDrop ==
  pc = "connect" /\ ~refused =>
    \/ dropped /\ euid = "radio" /\ egid = "radio"
    \/ ~dropped /\ euid = savedEuid /\ egid = savedEgid
=============================================================================
