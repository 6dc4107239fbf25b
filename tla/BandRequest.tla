----------------------------- MODULE BandRequest -----------------------------
(***************************************************************************)
(* The way of a band selection from the check boxes to the modem: the mask *)
(* of two words (BandMask.kt), the requests that the four paths build of   *)
(* it, byte by byte in little-endian order (qmi_nas.c for DIAG, and        *)
(* jni_bridge.c for QRTR and QMUX, MainViewModel.kt for EFS), and what the *)
(* modem makes of the bytes.                                               *)
(*                                                                         *)
(* A word is the set of its bits, a byte likewise, so that the signed      *)
(* shifts of the code are shifts of sets: every one is masked to a byte.   *)
(* The modem takes a request or rejects it; what is lost on the way is the *)
(* subject of Qrtr, Qmux and DiagChannel.                                  *)
(***************************************************************************)
EXTENDS Naturals, Sequences, SequencesExt

CONSTANTS W,      \* bits of a word, 64
          B,      \* bits of a byte, 8
          Lte,    \* LTE bands with a check box
          Nr,     \* NR bands with a check box
          Paths   \* paths of the instance: "diag", "qmux", "qrtr", "efs"

BandAssumption ==
  /\ B \in Nat \ {0} /\ W \in Nat \ {0} /\ W % B = 0
  /\ Lte \subseteq 1 .. 2 * W /\ Nr \subseteq 1 .. 2 * W
  /\ Paths \subseteq {"diag", "qmux", "qrtr", "efs"}

VARIABLES
  lteMask, nrMask,   \* of the UI state
  checked,           \* boxes as the user left them
  asked,             \* selection that the last request was built of
  pref,              \* what the modem has stored, by item
  todo,              \* requests of the call in progress
  path, rc           \* path of the last call; its result so far

vars == <<lteMask, nrMask, checked, asked, pref, todo, path, rc>>

Word  == SUBSET (0 .. W - 1)
NONE  == [low |-> {}, high |-> {}]
ALL   == [low |-> 0 .. W - 1, high |-> 0 .. W - 1]
Items == {"legacy", "lte", "nrSa", "nrNsa", "nvLte", "nvNr", "qrtrLte", "mode"}
Technologies == {"LTE", "NR"}

-----------------------------------------------------------------------------
(* BandMask                                                                *)

Bit(band) == IF band <= W THEN band - 1 ELSE band - (W + 1)

(* Faulty: a bit that is set before is cleared by the toggle.              *)
PutFlipping(word, bit, enabled) ==
  IF bit \in word THEN word \ {bit} ELSE IF enabled THEN word \cup {bit} ELSE word

Put(word, bit, enabled) == IF enabled THEN word \cup {bit} ELSE word \ {bit}

With(mask, band, enabled) ==
  IF band \notin 1 .. 2 * W THEN mask
  ELSE IF band <= W THEN [mask EXCEPT !.low = Put(@, Bit(band), enabled)]
  ELSE [mask EXCEPT !.high = Put(@, Bit(band), enabled)]

(* contains                                                                *)
HasBand(mask, band) ==
  /\ band \in 1 .. 2 * W
  /\ Bit(band) \in IF band <= W THEN mask.low ELSE mask.high

Of(bands) ==
  [low  |-> {b - 1 : b \in {c \in bands : c <= W}},
   high |-> {b - (W + 1) : b \in {c \in bands : c > W}}]

Bands(mask) == {b \in 1 .. 2 * W : HasBand(mask, b)}

-----------------------------------------------------------------------------
(* Bytes                                                                   *)

(* Faulty: the most significant byte comes first.                          *)
BigEndian(word) ==
  [i \in 1 .. W \div B |-> {b \in 0 .. B - 1 : B * (W \div B - i) + b \in word}]

LittleEndian(word) ==
  [i \in 1 .. W \div B |-> {b \in 0 .. B - 1 : B * (i - 1) + b \in word}]

Bytes(mask) == LittleEndian(mask.low) \o LittleEndian(mask.high)

(* nrPayload: four words, of which only the bits of the first are set.     *)
NrPayload(mask) ==
  [i \in 1 .. 4 * (W \div B) |->
     {b \in 0 .. B - 1 : B * (i - 1) + b < W /\ HasBand(mask, B * (i - 1) + b + 1)}]

Tlv(item, value) == [item |-> item, value |-> value]

(* The requests of a path: each is a set of TLVs, or of one NV item.       *)
DiagRequest(lte, nr) ==
  { Tlv("mode", Technologies),
    Tlv("legacy", LittleEndian(lte.low)), Tlv("lte", Bytes(lte)),
    Tlv("nrSa", Bytes(nr)), Tlv("nrNsa", Bytes(nr)) }

QmuxRequest(lte, nr) ==
  { Tlv("mode", Technologies),
    Tlv("legacy", LittleEndian(lte.low)),
    Tlv("lte", LittleEndian(lte.low) \o LittleEndian(lte.high)),
    Tlv("nrSa", LittleEndian(nr.low) \o LittleEndian(nr.high)),
    Tlv("nrNsa", LittleEndian(nr.low) \o LittleEndian(nr.high)) }

(* Faulty: have_nr looks at the lower word only.                           *)
HaveNrLow(nr) == nr.low # {}

HaveNr(nr) == nr.low # {} \/ nr.high # {}

(* mode_pref: the technologies whose bands are sent, or LTE.               *)
QrtrMode(lte, nr) ==
  LET named == (IF lte.low # {} THEN {"LTE"} ELSE {}) \cup (IF HaveNr(nr) THEN {"NR"} ELSE {})
  IN  IF named = {} THEN {"LTE"} ELSE named

QrtrRequests(lte, nr) ==
  LET mode == Tlv("mode", QrtrMode(lte, nr))
  IN  << {mode} \cup IF lte.low = {} THEN {} ELSE {Tlv("qrtrLte", LittleEndian(lte.low))} >>
      \o IF HaveNr(nr)
         THEN << {mode, Tlv("nrSa", Bytes(nr)), Tlv("nrNsa", Bytes(nr))} >> ELSE <<>>

EfsRequests(lte, nr) ==
  << {Tlv("nvLte", LittleEndian(lte.low))}, {Tlv("nvNr", NrPayload(nr))} >>

Requests(p, lte, nr) ==
  CASE p = "diag" -> <<DiagRequest(lte, nr)>>
    [] p = "qmux" -> <<QmuxRequest(lte, nr)>>
    [] p = "qrtr" -> QrtrRequests(lte, nr)
    [] p = "efs"  -> EfsRequests(lte, nr)

-----------------------------------------------------------------------------
(* What the modem reads in the bytes: bit N-1 is band N.                   *)
BandsIn(bytes) ==
  UNION {{B * (i - 1) + b + 1 : b \in bytes[i]} : i \in DOMAIN bytes}

(* What is left of the mode preference is the set of technologies.         *)
Value(t) == IF t.item = "mode" THEN t.value ELSE BandsIn(t.value)

Init ==
  /\ lteMask = Of(Lte) /\ nrMask = Of(Nr) /\ checked = [lte |-> Lte, nr |-> Nr]
  /\ asked = [lte |-> Of(Lte), nr |-> Of(Nr)]
  /\ pref = [i \in Items |-> {}]
  /\ todo = <<>> /\ path = "none" /\ rc = "none"

Change(bands, band, on) == IF on THEN bands \cup {band} ELSE bands \ {band}

(* toggleLte and toggleNr, also while a call is in progress.               *)
ToggleLte(b, on) ==
  /\ lteMask' = With(lteMask, b, on)
  /\ checked' = [checked EXCEPT !.lte = Change(@, b, on)]
  /\ UNCHANGED <<nrMask, asked, pref, todo, path, rc>>

ToggleNr(b, on) ==
  /\ nrMask' = With(nrMask, b, on)
  /\ checked' = [checked EXCEPT !.nr = Change(@, b, on)]
  /\ UNCHANGED <<lteMask, asked, pref, todo, path, rc>>

SetAllLte(on) ==
  /\ lteMask' = IF on THEN Of(Lte) ELSE NONE
  /\ checked' = [checked EXCEPT !.lte = IF on THEN Lte ELSE {}]
  /\ UNCHANGED <<nrMask, asked, pref, todo, path, rc>>

SetAllNr(on) ==
  /\ nrMask' = IF on THEN Of(Nr) ELSE NONE
  /\ checked' = [checked EXCEPT !.nr = IF on THEN Nr ELSE {}]
  /\ UNCHANGED <<lteMask, asked, pref, todo, path, rc>>

(* A call takes both masks at once and builds its requests.                *)
Apply(p) ==
  /\ todo = <<>>
  /\ path' = p /\ rc' = "ok"
  /\ asked' = [lte |-> lteMask, nr |-> nrMask]
  /\ todo' = Requests(p, lteMask, nrMask)
  /\ UNCHANGED <<lteMask, nrMask, checked, pref>>

(* resetBandPreference: all bits are sent, and the boxes are all checked   *)
(* whatever becomes of the request.                                        *)
Reset ==
  /\ "diag" \in Paths /\ todo = <<>>
  /\ path' = "reset" /\ rc' = "ok"
  /\ asked' = [lte |-> ALL, nr |-> ALL]
  /\ todo' = <<DiagRequest(ALL, ALL)>>
  /\ lteMask' = Of(Lte) /\ nrMask' = Of(Nr) /\ checked' = [lte |-> Lte, nr |-> Nr]
  /\ UNCHANGED pref

(* The modem takes the next request: a preference that it does not name    *)
(* stays as it is.                                                         *)
ModemAccepts ==
  /\ todo # <<>>
  /\ pref' = [i \in Items |->
       IF \E t \in Head(todo) : t.item = i
       THEN Value(CHOOSE t \in Head(todo) : t.item = i)
       ELSE pref[i]]
  /\ todo' = Tail(todo)
  /\ UNCHANGED <<lteMask, nrMask, checked, asked, path, rc>>

ModemRejects ==
  /\ todo # <<>>
  /\ todo' = Tail(todo) /\ rc' = "rejected"
  /\ UNCHANGED <<lteMask, nrMask, checked, asked, pref, path>>

Next ==
  \/ \E b \in Lte, on \in BOOLEAN : ToggleLte(b, on)
  \/ \E b \in Nr, on \in BOOLEAN : ToggleNr(b, on)
  \/ \E on \in BOOLEAN : SetAllLte(on) \/ SetAllNr(on)
  \/ \E p \in Paths : Apply(p)
  \/ Reset \/ ModemAccepts \/ ModemRejects

Spec == Init /\ [][Next]_vars

-----------------------------------------------------------------------------
TypeOK ==
  /\ {lteMask, nrMask, asked.lte, asked.nr} \subseteq [low : Word, high : Word]
  /\ DOMAIN pref = Items /\ pref["mode"] \subseteq Technologies
  /\ \A i \in Items \ {"mode"} : pref[i] \subseteq 1 .. 4 * W
  /\ checked \in [lte : SUBSET Lte, nr : SUBSET Nr]
  /\ Len(todo) <= 2 /\ path \in Paths \cup {"none", "reset"}
  /\ rc \in {"none", "ok", "rejected"}

Done == todo = <<>> /\ rc = "ok"

(* A band preference that the modem took over DIAG or QMUX is the one that *)
(* was selected, in both words and both NR modes, and so is that of a      *)
(* reset: the words are cut and put together without a band lost or moved. *)
(* The NV items of the EFS path have the selected bands of the lower word. *)
SelectionArrives ==
  /\ Done /\ path \in {"diag", "qmux", "reset"} =>
       /\ pref["lte"] = Bands(asked.lte)
       /\ pref["nrSa"] = Bands(asked.nr) /\ pref["nrNsa"] = Bands(asked.nr)
       /\ pref["legacy"] = Bands(asked.lte) \cap (1 .. W)
  /\ Done /\ path = "efs" =>
       /\ pref["nvLte"] = Bands(asked.lte) \cap (1 .. W)
       /\ pref["nvNr"] = Bands(asked.nr) \cap (1 .. W)

(* Over QRTR, the NR preference that the modem took is the one selected    *)
(* whenever an NR band of either word is, the LTE preference in the same   *)
(* way for the bands of the lower word, and the mode that goes with them   *)
(* shuts out neither: the second request repeats it.                       *)
QrtrSendsWhatIsSelected ==
  Done /\ path = "qrtr" =>
    /\ Bands(asked.nr) # {} =>
         /\ pref["nrSa"] = Bands(asked.nr) /\ pref["nrNsa"] = Bands(asked.nr)
         /\ "NR" \in pref["mode"]
    /\ Bands(asked.lte) \cap (1 .. W) # {} =>
         /\ pref["qrtrLte"] = Bands(asked.lte) \cap (1 .. W)
         /\ "LTE" \in pref["mode"]

(* The masks hold exactly the boxes that the user left checked, in the     *)
(* whole range of bands, whatever was toggled, twice or while a call runs: *)
(* a toggle moves no other bit of either word.                             *)
MaskShowsBoxes == Bands(lteMask) = checked.lte /\ Bands(nrMask) = checked.nr

(* jni_bridge.c:449: qrtrSetBandPref sets the LTE and NR preference and    *)
(* returns 0 on success.                                                   *)
QrtrAppliesLte == Done /\ path = "qrtr" => pref["qrtrLte"] = Bands(asked.lte)

(* jni_bridge.c:625: the requests of DIAG, QRTR and QMUX have an identical *)
(* layout.                                                                 *)
ItemsOf(request) == {t.item : t \in request}
SameLayout ==
  path = "qrtr" /\ todo # <<>> => ItemsOf(Head(todo)) \subseteq ItemsOf(QmuxRequest(asked.lte, asked.nr))

(* MainViewModel.kt:385: nr_band_pref is a mask of n1 to n256.             *)
EfsAppliesNr == Done /\ path = "efs" => pref["nvNr"] = Bands(asked.nr)
=============================================================================
