------------------------------ MODULE Settings ------------------------------
(***************************************************************************)
(* The settings: one store (the user's registry key) and, for every        *)
(* window, the copy its Coordinator loaded when the shell created it       *)
(* (Settings.h, Settings.cpp).  A window fills its dialog later            *)
(* (MainDialog::OnInitDialog): the clipboard and the kind of the chosen    *)
(* file may switch algorithms for the session only, the tasks take the     *)
(* algorithms enabled at that moment, and the settings dialog              *)
(* (SettingsDialog.cpp) is available once the files were listed, which may *)
(* be before all of them are finished (see Results).                       *)
(***************************************************************************)
EXTENDS Naturals, FiniteSets

CONSTANTS
  Windows,     \* property pages and windows, in any processes of one user
  Algorithms,  \* LegacyHashAlgorithm::Algorithms()
  ColourChecks, ColourValues,   \* keys of the colours: enabled or not, colour
  Colours,     \* colour values
  SizeOf,      \* the digest size of each algorithm
  Default,     \* default_value of each key
  Absent,      \* the registry holds no value of the key
  Closed,      \* no settings dialog
  NotSumfile, UnknownSumfile,   \* sumfile_type -2 and -1
  ClipSizes,   \* size of the hash the clipboard holds, 0 if it holds none
  SumfileTypes \* what ProcessEverything may return as sumfile_type

ASSUME SettingsAssumption ==
  /\ \A a \in Algorithms : SizeOf[a] \in Nat \ {0}
  /\ {NotSumfile, UnknownSumfile} \cap Algorithms = {}
  /\ SumfileTypes \subseteq Algorithms \cup {NotSumfile, UnknownSumfile}
  /\ ClipSizes \subseteq Nat

VARIABLES
  registry,  \* HKEY_CURRENT_USER\Software\OpenHashTab
  live,      \* RegistrySetting::_value of each window
  phase,     \* "none", "loaded", "hashing", "early" (hashing, but listed) or "done"
  hashed,    \* the algorithms the window's tasks have contexts for
  sumtype,   \* ProcessedFileList::sumfile_type
  offered,   \* the algorithms whose exporter is in the combo box
  dlg        \* Closed, or the state of the dialog's check boxes

settingsVars == <<registry, live, phase, hashed, sumtype, offered, dlg>>

(* The fields of Settings: algorithms, options and colours.                *)
Options == {"ClipboardAutoenable", "ClipboardAutoenableIfNone",
            "ClipboardAutoenableExclusive", "SumfileAlgorithmOnly"}
Checks == Algorithms \cup Options \cup ColourChecks
Keys == Checks \cup ColourValues

Value(k) == IF k \in ColourValues THEN Colours ELSE BOOLEAN

(* The fields have different keys, and a default of their type.            *)
ASSUME KeysAssumption ==
  /\ Algorithms \cap (Options \cup ColourChecks \cup ColourValues) = {}
  /\ Checks \cap ColourValues = {}
  /\ Default \in [Keys -> BOOLEAN \cup Colours]
  /\ \A k \in Keys : Default[k] \in Value(k)
  /\ Closed \notin [Checks -> BOOLEAN]

SettingsInit ==
  /\ registry \in [Keys -> {Absent}]
  /\ live = [w \in Windows |-> Default]
  /\ phase = [w \in Windows |-> "none"]
  /\ hashed = [w \in Windows |-> {}]
  /\ sumtype = [w \in Windows |-> NotSumfile]
  /\ offered = [w \in Windows |-> {}]
  /\ dlg = [w \in Windows |-> Closed]

Enabled(s) == {a \in Algorithms : s[a]}

(* detail::GetSettingDWORD.                                                *)
Stored(reg, k) == IF reg[k] = Absent THEN Default[k] ELSE reg[k]

(* RegistrySetting::Set changes the copy and stores it; the result of      *)
(* RegSetKeyValueW is ignored, so the store may keep the old value.        *)
Set(w, k, v) ==
  /\ live' = [live EXCEPT ![w][k] = v]
  /\ registry' \in {registry, [registry EXCEPT ![k] = v]}

(* RegistrySetting::SetNoSave on many algorithms: session only.            *)
SetNoSave(s, on, off) ==
  [k \in Keys |-> IF k \in on THEN TRUE ELSE IF k \in off THEN FALSE ELSE s[k]]

(* The Coordinator is created, and its Settings() loads every key.         *)
Load(w) ==
  /\ phase[w] = "none"
  /\ phase' = [phase EXCEPT ![w] = "loaded"]
  /\ live' = [live EXCEPT ![w] = [k \in Keys |-> Stored(registry, k)]]
  /\ UNCHANGED <<registry, hashed, sumtype, offered, dlg>>

(* A clipboard with a hash of that size enables the algorithms of the size.*)
AutoEnable(s, size) ==
  LET fitting == {a \in Algorithms : SizeOf[a] = size}
      wanted  == /\ s["ClipboardAutoenable"]
                 /\ fitting # {}
                 /\ s["ClipboardAutoenableIfNone"] => Enabled(s) \cap fitting = {}
  IN  IF ~wanted THEN s
      ELSE SetNoSave(s, fitting, IF s["ClipboardAutoenableExclusive"]
                                 THEN Algorithms ELSE {})

(* Coordinator::AddFiles: enable the algorithm the sum file is made with.  *)
SumfileEnable(s, type) ==
  IF type \notin Algorithms THEN s
  ELSE SetNoSave(s, {type}, IF s["SumfileAlgorithmOnly"] THEN Algorithms ELSE {})

(* The clipboard first, then AddFiles, which makes the tasks' contexts.    *)
Session(s, size, type) == SumfileEnable(AutoEnable(s, size), type)

(* The exporters put in the combo box, from the settings after AddFiles.   *)
Offered(before, after) == Enabled(after)

(* A variant of InitDialog that stores what it enables.                    *)
InitDialog_Stores(w) == \E size \in ClipSizes, type \in SumfileTypes :
  /\ phase[w] = "loaded"
  /\ LET s == Session(live[w], size, type) IN
       /\ live' = [live EXCEPT ![w] = s]
       /\ registry' = [k \in Keys |-> IF k \in Algorithms THEN s[k] ELSE registry[k]]
       /\ hashed' = [hashed EXCEPT ![w] = Enabled(s)]
       /\ offered' = [offered EXCEPT ![w] = Offered(live[w], s)]
  /\ phase' = [phase EXCEPT ![w] = "hashing"]
  /\ sumtype' = [sumtype EXCEPT ![w] = type]
  /\ UNCHANGED dlg

InitDialog(w) == \E size \in ClipSizes, type \in SumfileTypes :
  /\ phase[w] = "loaded"
  /\ LET s == Session(live[w], size, type) IN
       /\ live' = [live EXCEPT ![w] = s]
       /\ hashed' = [hashed EXCEPT ![w] = Enabled(s)]
       /\ offered' = [offered EXCEPT ![w] = Offered(live[w], s)]
  /\ phase' = [phase EXCEPT ![w] = "hashing"]
  /\ sumtype' = [sumtype EXCEPT ![w] = type]
  /\ UNCHANGED <<registry, dlg>>

(* OnAllFilesFinished, for a message that came early or for the last one.  *)
AllFilesFinished(w) ==
  /\ phase[w] \in {"hashing", "early"}
  /\ \E p \in {"early", "done"} : phase' = [phase EXCEPT ![w] = p]
  /\ UNCHANGED <<registry, live, hashed, sumtype, offered, dlg>>

(* MainDialog::OnSettingsClicked: the first listing enables the button.    *)
SettingsEnabled_Always(w) == phase[w] \in {"hashing", "early", "done"}
SettingsEnabled(w) == phase[w] \in {"early", "done"}

(* What WM_INITDIALOG shows in the list and in the check boxes.            *)
Shown(w) == [k \in Checks |-> live[w][k]]

OpenSettings(w) ==
  /\ SettingsEnabled(w)
  /\ dlg[w] = Closed
  /\ dlg' = [dlg EXCEPT ![w] = Shown(w)]
  /\ UNCHANGED <<registry, live, phase, hashed, sumtype, offered>>

(* LVN_ITEMCHANGED, sent for every change of the item, the check box or    *)
(* the selection alike: the state of the check box is stored.              *)
ItemChanged(w, a, check) ==
  /\ dlg[w] # Closed
  /\ dlg' = [dlg EXCEPT ![w][a] = check]
  /\ Set(w, a, check)
  /\ UNCHANGED <<phase, hashed, sumtype, offered>>

ToggleAlgorithm(w, a) == dlg[w] # Closed /\ ItemChanged(w, a, ~dlg[w][a])
SelectAlgorithm(w, a) == dlg[w] # Closed /\ ItemChanged(w, a, dlg[w][a])

(* UpdateCheckboxAvailability.                                             *)
Available(w, k) ==
  k \in {"ClipboardAutoenableIfNone", "ClipboardAutoenableExclusive"}
    => dlg[w]["ClipboardAutoenable"]

(* A click on a check box of an option or of a colour.                     *)
ClickBox(w, k) ==
  /\ dlg[w] # Closed
  /\ Available(w, k)
  /\ dlg' = [dlg EXCEPT ![w][k] = ~dlg[w][k]]
  /\ Set(w, k, ~dlg[w][k])
  /\ UNCHANGED <<phase, hashed, sumtype, offered>>

(* DoColorButton, when the user does not cancel the colour dialog.         *)
PickColour(w, k, c) ==
  /\ dlg[w] # Closed
  /\ Set(w, k, c)
  /\ UNCHANGED <<phase, hashed, sumtype, offered, dlg>>

(* IDOK and IDCANCEL alike end the dialog; nothing is undone.              *)
CloseSettings(w) ==
  /\ dlg[w] # Closed
  /\ dlg' = [dlg EXCEPT ![w] = Closed]
  /\ UNCHANGED <<registry, live, phase, hashed, sumtype, offered>>

(* The window is destroyed; a later one starts from the registry again.    *)
CloseWindow(w) ==
  /\ phase[w] # "none"
  /\ dlg[w] = Closed
  /\ phase' = [phase EXCEPT ![w] = "none"]
  /\ hashed' = [hashed EXCEPT ![w] = {}]
  /\ offered' = [offered EXCEPT ![w] = {}]
  /\ sumtype' = [sumtype EXCEPT ![w] = NotSumfile]
  /\ UNCHANGED <<registry, live, dlg>>
-----------------------------------------------------------------------------
CONSTANT Clicked   \* bound: the keys the user changes in the dialog

WindowStep(w, clicked) ==
  \/ Load(w)
  \/ InitDialog(w)
  \/ AllFilesFinished(w)
  \/ OpenSettings(w)
  \/ \E a \in clicked \cap Algorithms : ToggleAlgorithm(w, a) \/ SelectAlgorithm(w, a)
  \/ \E k \in clicked \cap (Options \cup ColourChecks) : ClickBox(w, k)
  \/ \E k \in clicked \cap ColourValues, c \in Colours : PickColour(w, k, c)
  \/ CloseSettings(w)
  \/ CloseWindow(w)

SettingsNext == \E w \in Windows : WindowStep(w, Clicked)

SettingsSpec == SettingsInit /\ [][SettingsNext]_settingsVars
-----------------------------------------------------------------------------
(* A window hashes what it shows.  Until its files are listed, be it early *)
(* or late, its settings are those its tasks were made with: no dialog, no *)
(* other window and no late load changes them.  Every exporter of one      *)
(* algorithm that the combo box offers is, for good, for one the tasks     *)
(* compute (OnInitDialog fills the box after AddFiles changed the          *)
(* settings).  And the algorithm of a chosen sum file is hashed whatever   *)
(* the clipboard held and the registry said, alone if SumfileAlgorithmOnly *)
(* is set (Coordinator::AddFiles).                                         *)
SessionHashed ==
  \A w \in Windows :
    /\ phase[w] = "hashing" => Enabled(live[w]) = hashed[w]
    /\ offered[w] \subseteq hashed[w]
    /\ sumtype[w] \in Algorithms =>
         /\ sumtype[w] \in hashed[w]
         /\ phase[w] = "hashing" /\ live[w]["SumfileAlgorithmOnly"]
              => hashed[w] = {sumtype[w]}

(* The store changes only under the hands of a user: by an open dialog,    *)
(* to what that dialog shows.  Opening windows, reading the clipboard and  *)
(* opening sum files change sessions only.                                 *)
StoreFollowsDialog ==
  [][\A k \in Checks : registry'[k] # registry[k] =>
       \E w \in Windows : /\ dlg[w] # Closed
                          /\ dlg'[w] # Closed
                          /\ registry'[k] = dlg'[w][k]]_settingsVars

(* A stored switch changes its meaning only when a user ticks or unticks   *)
(* its box: what is enabled for the session (path.h:26) stays out of the   *)
(* store.  The code breaks this: selecting a row of the list stores the    *)
(* row's box (SettingsDialog.cpp:254).                                     *)
OnlyTicksAreStored ==
  [][\A k \in Checks : Stored(registry', k) # Stored(registry, k) =>
       \E w \in Windows : /\ dlg[w] # Closed
                          /\ dlg'[w] # Closed
                          /\ dlg'[w][k] # dlg[w][k]]_settingsVars
=============================================================================
