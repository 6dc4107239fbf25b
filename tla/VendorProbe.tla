----------------------------- MODULE VendorProbe -----------------------------
(***************************************************************************)
(* qmiVendorProbe (jni_bridge.c) copies a helper program out of the app,   *)
(* runs it and reads its output; the helper (helper_main.c) loads vendor   *)
(* libraries, looks for symbols in them, and prints a verdict in two       *)
(* lines, MAIN OK and MASK. The libraries run code of their own when they  *)
(* are loaded, so the helper may crash at any of them.                     *)
(***************************************************************************)
EXTENDS Naturals, Sequences

CONSTANTS Libs,        \* libraries of the list, and those of the directory scan
          Exportable,  \* symbols that the instance's libraries may export
          MaxProbes    \* bound on calls

(* The symbols in the order in which the helper looks for them.            *)
Scanned ==
  << "init_instance", "init_instance_v2", "init", "send_msg_sync", "send_msg_sync_ex",
     "send_msg_async", "release", "get_service_instance", "register_notify_cb",
     "notifier_init", "set_error_code_translation_table", "cci_init",
     "cci_client_init_instance", "idl_get_service_object", "nas_get_service_object",
     "dms_get_service_object", "qmuxd_get_service_object", "get_internal_use_port",
     "get_conn_id_by_name", "QmiCciInit", "QmiClientInitInstance", "QmiClientSendMsgSync" >>

MaskBits == 0 .. 15

VendorAssumption ==
  /\ Exportable \subseteq {Scanned[i] : i \in DOMAIN Scanned}
  /\ MaxProbes \in Nat

VARIABLES
  exports,       \* symbols of a library, when it can be loaded
  probes, pc,    \* calls so far; the caller: "idle", "copy", "exec" or "read"
  helper,        \* the copy of the program: "none", "torn" or "whole"
  child,         \* "none", "load", "ok", "mask", "ended" or "crashed"
  todo, loaded,  \* libraries not tried yet, and those loaded
  pipe,          \* lines of the verdict not read yet
  main_ok, mask, \* what the caller has read
  rc             \* of the last call: loaded or not (0), and the mask

vars == <<exports, probes, pc, helper, child, todo, loaded, pipe, main_ok, mask, rc>>
caller == <<exports, probes, pc, helper, main_ok, mask, rc>>

NoResult == [loaded |-> FALSE, mask |-> {}]

Init ==
  /\ exports \in [Libs -> SUBSET Exportable]
  /\ probes = 0 /\ pc = "idle" /\ helper = "none"
  /\ child = "none" /\ todo = {} /\ loaded = {} /\ pipe = <<>>
  /\ main_ok = FALSE /\ mask = {} /\ rc = NoResult

-----------------------------------------------------------------------------
(* The caller, in the root process                                         *)
Probe ==
  /\ pc = "idle" /\ probes < MaxProbes
  /\ probes' = probes + 1 /\ pc' = "copy"
  /\ UNCHANGED <<exports, helper, child, todo, loaded, pipe, main_ok, mask, rc>>

(* A source that cannot be opened leaves the copy of an earlier call.      *)
CopyFails ==
  /\ pc = "copy"
  /\ helper' \in {helper, "torn"}
  /\ rc' = NoResult /\ child' = "none" /\ pc' = "idle"
  /\ UNCHANGED <<exports, probes, todo, loaded, pipe, main_ok, mask>>

(* copy_file succeeds also when a read fails in the middle.                *)
Copy ==
  /\ pc = "copy"
  /\ helper' \in {"torn", "whole"}
  /\ pc' = "exec"
  /\ UNCHANGED <<exports, probes, child, todo, loaded, pipe, main_ok, mask, rc>>

ExecFails ==
  /\ pc = "exec"
  /\ rc' = NoResult /\ child' = "none" /\ pc' = "idle"
  /\ UNCHANGED <<exports, probes, helper, todo, loaded, pipe, main_ok, mask>>

(* Faulty: main_ok is kept from the call before.                           *)
ForgetMask == mask' = {} /\ UNCHANGED main_ok

(* main_ok and mask are variables of the call.                             *)
Forget == mask' = {} /\ main_ok' = FALSE

(* popen; the shell cannot run a file that is no program.                  *)
Exec ==
  /\ pc = "exec"
  /\ child' = IF helper = "whole" THEN "load" ELSE "ended"
  /\ todo' = Libs /\ loaded' = {} /\ pipe' = <<>>
  /\ Forget
  /\ pc' = "read"
  /\ UNCHANGED <<exports, probes, helper, rc>>

ReadLine ==
  /\ pc = "read" /\ pipe # <<>>
  /\ LET line == Head(pipe)
     IN  IF line.what = "MAIN OK" THEN main_ok' = TRUE /\ UNCHANGED mask
         ELSE mask' = line.bits /\ UNCHANGED main_ok
  /\ pipe' = Tail(pipe)
  /\ UNCHANGED <<exports, probes, pc, helper, child, todo, loaded, rc>>

(* Faulty: only a helper that ran to its end is taken for ended.           *)
GoneInOrder == child = "ended"

Gone == child \in {"ended", "crashed"}

(* The end of the output, and pclose.                                      *)
ReadEnd ==
  /\ pc = "read" /\ pipe = <<>> /\ Gone
  /\ rc' = IF main_ok THEN [loaded |-> TRUE, mask |-> mask] ELSE NoResult
  /\ pc' = "idle"
  /\ UNCHANGED <<exports, probes, helper, child, todo, loaded, pipe, main_ok, mask>>

-----------------------------------------------------------------------------
(* The helper                                                              *)

(* Symbols that dlsym finds, all libraries being loaded with RTLD_GLOBAL.  *)
Resolved == UNION {exports[l] : l \in loaded}

Mask == {b \in MaskBits : Scanned[b + 1] \in Resolved}

ChildLoads ==
  /\ child = "load"
  /\ \E l \in todo :
       /\ todo' = todo \ {l}
       /\ loaded' \in {loaded, loaded \cup {l}}
  /\ UNCHANGED <<caller, child, pipe>>

ChildPrintsOk ==
  /\ child = "load" /\ todo = {}
  /\ pipe' = Append(pipe, [what |-> "MAIN OK", bits |-> {}])
  /\ child' = "ok"
  /\ UNCHANGED <<caller, todo, loaded>>

ChildPrintsMask ==
  /\ child = "ok"
  /\ pipe' = Append(pipe, [what |-> "MASK", bits |-> Mask])
  /\ child' = "mask"
  /\ UNCHANGED <<caller, todo, loaded>>

ChildEnds ==
  /\ child = "mask" /\ child' = "ended"
  /\ UNCHANGED <<caller, todo, loaded, pipe>>

(* A thread or a signal handler of a library may also do it later.         *)
ChildCrashes ==
  /\ child \in {"load", "ok", "mask"} /\ child' = "crashed"
  /\ UNCHANGED <<caller, todo, loaded, pipe>>

Caller == Probe \/ CopyFails \/ Copy \/ ExecFails \/ Exec \/ ReadLine \/ ReadEnd
Child  == ChildLoads \/ ChildPrintsOk \/ ChildPrintsMask \/ ChildEnds \/ ChildCrashes

Next == Caller \/ Child

Spec == Init /\ [][Next]_vars

(* Both processes run; loading a library returns, or crashes.              *)
FairSpec == Spec /\ WF_vars(Caller) /\ WF_vars(Child)

-----------------------------------------------------------------------------
TypeOK ==
  /\ exports \in [Libs -> SUBSET Exportable] /\ probes \in 0 .. MaxProbes
  /\ pc \in {"idle", "copy", "exec", "read"} /\ helper \in {"none", "torn", "whole"}
  /\ child \in {"none", "load", "ok", "mask", "ended", "crashed"}
  /\ todo \subseteq Libs /\ loaded \subseteq Libs /\ todo \cap loaded = {}
  /\ Len(pipe) <= 2 /\ main_ok \in BOOLEAN
  /\ mask \subseteq MaskBits /\ rc \in [loaded : BOOLEAN, mask : SUBSET MaskBits]

Returned == pc = "idle" /\ child # "none"

(* A call says that the probe was made only when the helper of this very   *)
(* call came to its verdict; and if it also came to its end, the mask has  *)
(* the symbols it resolved, of the first sixteen. An earlier call, and a   *)
(* copy that is no program, contribute nothing.                            *)
VerdictIsOfThisRun ==
  Returned =>
    /\ rc.loaded => helper = "whole" /\ todo = {}
    /\ child = "ended" /\ helper = "whole" =>
         rc.loaded /\ {Scanned[b + 1] : b \in rc.mask}
                        = Resolved \cap {Scanned[b + 1] : b \in MaskBits}

(* A call returns, also when the helper crashes before its verdict.        *)
ProbeReturns == (pc # "idle") ~> (pc = "idle")

(* DiagNative.kt:124: the mask tells which symbols resolved.               *)
MaskTellsResolved == Returned /\ rc.loaded => (rc.mask = {} <=> Mask = {})

(* DiagNative.kt:123: 0 is returned when the library could not be loaded.  *)
ZeroMeansNotLoaded == pc = "idle" /\ probes > 0 => (rc.loaded <=> loaded # {})

(* DiagNative.kt:125: what the bits mean.                                  *)
Documented ==
  << "init_instance", "init", "send_msg_sync", "send_msg_async", "release",
     "get_internal_use_port", "get_conn_id_by_name" >>

BitsAsDocumented ==
  Returned /\ child = "ended" /\ rc.loaded =>
    \A i \in DOMAIN Documented : (i - 1) \in rc.mask <=> Documented[i] \in Resolved
=============================================================================
