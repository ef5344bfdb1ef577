--------------------------- MODULE DialogProofs ---------------------------
(***************************************************************************)
(* What the dialog promises to every number of windows, files, algorithms  *)
(* and colours: its sessions agree with the contexts of their tasks and    *)
(* the store follows the settings dialogs; a match names the best of the   *)
(* expected results, and what is shown beside the box and in the status    *)
(* line is true; a query reports success only with the whole reply.        *)
(***************************************************************************)
EXTENDS Settings, Results, Query, FoldProofs

Phases == {"none", "loaded", "hashing", "early", "done"}

(* A copy: the switches are on or off, a colour is a colour.               *)
WholeCopy(s) == /\ s \in [Keys -> BOOLEAN \cup Colours]
           /\ \A k \in Keys : s[k] \in Value(k)

SettingsTypeOK ==
  /\ registry \in [Keys -> BOOLEAN \cup Colours \cup {Absent}]
  /\ \A k \in Keys : registry[k] = Absent \/ registry[k] \in Value(k)
  /\ DOMAIN live = Windows /\ \A w \in Windows : WholeCopy(live[w])
  /\ phase \in [Windows -> Phases]
  /\ hashed \in [Windows -> SUBSET Algorithms]
  /\ sumtype \in [Windows -> Algorithms \cup {NotSumfile, UnknownSumfile}]
  /\ offered \in [Windows -> SUBSET Algorithms]
  /\ dlg \in [Windows -> [Checks -> BOOLEAN] \cup {Closed}]

(* The dialog is open only when files were listed, and a window that has   *)
(* no dialog yet offers nothing.                                           *)
Orderly ==
  \A w \in Windows :
    /\ dlg[w] # Closed => phase[w] \in {"early", "done"}
    /\ phase[w] \in {"none", "loaded"} => offered[w] = {} /\ sumtype[w] = NotSumfile

SettingsInv == SettingsTypeOK /\ Orderly /\ SessionHashed

LEMMA SettingsInitial == SettingsInit => SettingsInv
  BY SettingsAssumption, KeysAssumption
  DEF SettingsInit, SettingsInv, SettingsTypeOK, Orderly, SessionHashed, WholeCopy, Phases, Keys

(* Switching algorithms for the session gives a copy that differs in       *)
(* algorithms only.                                                        *)
LEMMA SessionOnly ==
  ASSUME NEW s, WholeCopy(s), NEW on \in SUBSET Algorithms, NEW off \in SUBSET Algorithms
  PROVE  /\ WholeCopy(SetNoSave(s, on, off))
         /\ \A k \in Keys \ Algorithms : SetNoSave(s, on, off)[k] = s[k]
         /\ Enabled(SetNoSave(s, on, off)) = on \cup (Enabled(s) \ off)
  BY KeysAssumption DEF WholeCopy, SetNoSave, Enabled, Keys, Checks, Value

LEMMA AutoEnableCopies ==
  ASSUME NEW s, WholeCopy(s), NEW size \in ClipSizes PROVE WholeCopy(AutoEnable(s, size))
<1> DEFINE fitting == {a \in Algorithms : SizeOf[a] = size}
           wanted == /\ s["ClipboardAutoenable"]
                     /\ fitting # {}
                     /\ s["ClipboardAutoenableIfNone"] => Enabled(s) \cap fitting = {}
           off == IF s["ClipboardAutoenableExclusive"] THEN Algorithms ELSE {}
<1>1. WholeCopy(SetNoSave(s, fitting, off))
  BY SessionOnly
<1>2. AutoEnable(s, size) = IF ~wanted THEN s ELSE SetNoSave(s, fitting, off)
  BY DEF AutoEnable
<1>3. QED  BY <1>1, <1>2

(* A chosen sum file has its algorithm enabled, and alone if so set.       *)
LEMMA SumfileEnabled ==
  ASSUME NEW s, WholeCopy(s), NEW type \in SumfileTypes
  PROVE  /\ WholeCopy(SumfileEnable(s, type))
         /\ type \in Algorithms =>
              /\ type \in Enabled(SumfileEnable(s, type))
              /\ SumfileEnable(s, type)["SumfileAlgorithmOnly"]
                   => Enabled(SumfileEnable(s, type)) = {type}
<1>1. CASE type \notin Algorithms
  BY <1>1 DEF SumfileEnable
<1>2. CASE type \in Algorithms
  <2> DEFINE off == IF s["SumfileAlgorithmOnly"] THEN Algorithms ELSE {}
             t == SetNoSave(s, {type}, off)
  <2>1. SumfileEnable(s, type) = t
    BY <1>2 DEF SumfileEnable
  <2> HIDE DEF off
  <2>2. {type} \in SUBSET Algorithms /\ off \in SUBSET Algorithms
    BY <1>2 DEF off
  <2>3. /\ WholeCopy(t)
        /\ \A k \in Keys \ Algorithms : t[k] = s[k]
        /\ Enabled(t) = {type} \cup (Enabled(s) \ off)
    BY <2>2, SessionOnly
  <2>4. "SumfileAlgorithmOnly" \in Keys \ Algorithms
    BY KeysAssumption DEF Keys, Checks, Options
  <2>5. Enabled(s) \subseteq Algorithms
    BY DEF Enabled
  <2>6. t["SumfileAlgorithmOnly"] => Enabled(t) = {type}
    BY <2>3, <2>4, <2>5 DEF off
  <2>7. QED  BY <1>2, <2>1, <2>3, <2>6 DEF off
<1>3. QED  BY <1>1, <1>2

LEMMA LoadKeeps == ASSUME SettingsInv, NEW w \in Windows, Load(w) PROVE SettingsInv'
<1>1. WholeCopy([k \in Keys |-> Stored(registry, k)])
  BY KeysAssumption DEF SettingsInv, SettingsTypeOK, WholeCopy, Stored
<1>2. SettingsTypeOK'
  BY <1>1 DEF SettingsInv, SettingsTypeOK, Load, Phases
<1>3. Orderly' /\ SessionHashed'
  BY SettingsAssumption DEF SettingsInv, SettingsTypeOK, Orderly, SessionHashed, Load
<1>4. QED  BY <1>2, <1>3 DEF SettingsInv

LEMMA InitDialogKeeps == ASSUME SettingsInv, NEW w \in Windows, InitDialog(w) PROVE SettingsInv'
<1>1. PICK size \in ClipSizes, type \in SumfileTypes :
        /\ phase[w] = "loaded"
        /\ LET s == Session(live[w], size, type) IN
             /\ live' = [live EXCEPT ![w] = s]
             /\ hashed' = [hashed EXCEPT ![w] = Enabled(s)]
             /\ offered' = [offered EXCEPT ![w] = Offered(live[w], s)]
        /\ phase' = [phase EXCEPT ![w] = "hashing"]
        /\ sumtype' = [sumtype EXCEPT ![w] = type]
        /\ UNCHANGED <<registry, dlg>>
  BY DEF InitDialog
<1> DEFINE s == Session(live[w], size, type)
<1>2. /\ WholeCopy(s)
      /\ type \in Algorithms =>
           /\ type \in Enabled(s)
           /\ s["SumfileAlgorithmOnly"] => Enabled(s) = {type}
  BY AutoEnableCopies, SumfileEnabled DEF Session, SettingsInv, SettingsTypeOK
<1>3. Enabled(s) \subseteq Algorithms /\ Offered(live[w], s) = Enabled(s)
  BY DEF Enabled, Offered
<1> HIDE DEF s
<1>4. /\ live' = [live EXCEPT ![w] = s]
      /\ hashed' = [hashed EXCEPT ![w] = Enabled(s)]
      /\ offered' = [offered EXCEPT ![w] = Enabled(s)]
  BY <1>1, <1>3 DEF s
<1>5. SettingsTypeOK'
  BY <1>1, <1>2, <1>3, <1>4, SettingsAssumption DEF SettingsInv, SettingsTypeOK, Phases
<1>6. Orderly'
  BY <1>1, <1>4 DEF SettingsInv, SettingsTypeOK, Orderly
<1>7. SessionHashed'
  BY <1>1, <1>2, <1>4 DEF SettingsInv, SettingsTypeOK, SessionHashed
<1>8. QED  BY <1>5, <1>6, <1>7 DEF SettingsInv

(* What a dialog does to its own window and to the store is not seen by a  *)
(* session that is hashing.                                                *)
LEMMA SetKeeps ==
  ASSUME SettingsInv, NEW w \in Windows, NEW k \in Keys, NEW v \in Value(k),
         dlg[w] # Closed, dlg'[w] # Closed,
         dlg' \in [Windows -> [Checks -> BOOLEAN] \cup {Closed}],
         \A x \in Windows \ {w} : dlg'[x] = dlg[x],
         Set(w, k, v), UNCHANGED <<phase, hashed, sumtype, offered>>
  PROVE  SettingsInv'
<1>1. phase[w] \in {"early", "done"}
  BY DEF SettingsInv, Orderly
<1>2. v \in BOOLEAN \cup Colours
  BY DEF Value
<1>3. /\ live'[w] = [live[w] EXCEPT ![k] = v]
      /\ DOMAIN live' = Windows
      /\ \A x \in Windows \ {w} : live'[x] = live[x]
  BY DEF Set, SettingsInv, SettingsTypeOK
<1>4. WholeCopy(live'[w])
  BY <1>2, <1>3 DEF WholeCopy, SettingsInv, SettingsTypeOK
<1>5. SettingsTypeOK'
  BY <1>2, <1>3, <1>4 DEF Set, SettingsInv, SettingsTypeOK
<1>6. Orderly' /\ SessionHashed'
  BY <1>1, <1>3 DEF SettingsInv, Orderly, SessionHashed
<1>7. QED  BY <1>5, <1>6 DEF SettingsInv

(* The three ways to change a setting, and what they change it to.         *)
LEMMA EditMeans ==
  ASSUME SettingsInv, NEW w \in Windows,
         \/ \E a \in Algorithms : ToggleAlgorithm(w, a) \/ SelectAlgorithm(w, a)
         \/ \E k \in Options \cup ColourChecks : ClickBox(w, k)
         \/ \E k \in ColourValues, c \in Colours : PickColour(w, k, c)
  PROVE  \E k \in Keys : \E v \in Value(k) :
           /\ dlg[w] # Closed /\ dlg'[w] # Closed
           /\ dlg' \in [Windows -> [Checks -> BOOLEAN] \cup {Closed}]
           /\ \A x \in Windows \ {w} : dlg'[x] = dlg[x]
           /\ Set(w, k, v)
           /\ k \in Checks => dlg'[w][k] = v
           /\ UNCHANGED <<phase, hashed, sumtype, offered>>
<1>1. /\ dlg \in [Windows -> [Checks -> BOOLEAN] \cup {Closed}]
      /\ Closed \notin [Checks -> BOOLEAN]
  BY KeysAssumption DEF SettingsInv, SettingsTypeOK
<1>2. \A k \in Checks : k \in Keys /\ Value(k) = BOOLEAN
  BY KeysAssumption DEF Keys, Value
<1>3. ASSUME NEW k \in Checks, NEW v \in BOOLEAN, dlg[w] # Closed,
             dlg' = [dlg EXCEPT ![w][k] = v]
      PROVE  /\ dlg'[w] # Closed /\ dlg'[w][k] = v
             /\ dlg' \in [Windows -> [Checks -> BOOLEAN] \cup {Closed}]
             /\ \A x \in Windows \ {w} : dlg'[x] = dlg[x]
  BY <1>1, <1>3
<1>4. CASE \E a \in Algorithms : ToggleAlgorithm(w, a) \/ SelectAlgorithm(w, a)
  <2>1. PICK a \in Algorithms : ToggleAlgorithm(w, a) \/ SelectAlgorithm(w, a)
    BY <1>4
  <2>2. PICK v \in BOOLEAN : dlg[w] # Closed /\ ItemChanged(w, a, v)
    BY <1>1, <2>1 DEF ToggleAlgorithm, SelectAlgorithm, Checks
  <2>3. a \in Checks
    BY DEF Checks
  <2>4. QED  BY <1>2, <1>3, <2>2, <2>3 DEF ItemChanged
<1>5. CASE \E k \in Options \cup ColourChecks : ClickBox(w, k)
  <2>1. PICK k \in Checks : ClickBox(w, k)
    BY <1>5 DEF Checks
  <2>2. PICK v \in BOOLEAN : /\ dlg[w] # Closed /\ dlg' = [dlg EXCEPT ![w][k] = v]
                             /\ Set(w, k, v)
                             /\ UNCHANGED <<phase, hashed, sumtype, offered>>
    BY <1>1, <2>1 DEF ClickBox
  <2>3. QED  BY <1>2, <1>3, <2>2
<1>6. CASE \E k \in ColourValues, c \in Colours : PickColour(w, k, c)
  <2>1. PICK k \in ColourValues, c \in Colours : PickColour(w, k, c)
    BY <1>6
  <2>2. k \in Keys /\ k \notin Checks /\ c \in Value(k)
    BY KeysAssumption DEF Keys, Value
  <2>3. QED  BY <1>1, <2>1, <2>2 DEF PickColour
<1>7. QED  BY <1>4, <1>5, <1>6

(* The steps of a window that change no setting.                           *)
LEMMA OtherStepKeeps ==
  ASSUME SettingsInv, NEW w \in Windows,
         AllFilesFinished(w) \/ OpenSettings(w) \/ CloseSettings(w) \/ CloseWindow(w)
  PROVE  SettingsInv'
<1>1. CASE AllFilesFinished(w)
  BY <1>1 DEF AllFilesFinished, SettingsInv, SettingsTypeOK, Orderly, SessionHashed, Phases
<1>2. CASE OpenSettings(w)
  <2>1. Shown(w) \in [Checks -> BOOLEAN]
    BY KeysAssumption DEF Shown, SettingsInv, SettingsTypeOK, WholeCopy, Keys, Value
  <2>2. QED  BY <1>2, <2>1
             DEF OpenSettings, SettingsEnabled, SettingsInv, SettingsTypeOK, Orderly, SessionHashed
<1>3. CASE CloseSettings(w)
  BY <1>3 DEF CloseSettings, SettingsInv, SettingsTypeOK, Orderly, SessionHashed
<1>4. CASE CloseWindow(w)
  BY <1>4, SettingsAssumption
  DEF CloseWindow, SettingsInv, SettingsTypeOK, Orderly, SessionHashed, Phases
<1>5. QED  BY <1>1, <1>2, <1>3, <1>4

LEMMA StepKeeps == ASSUME SettingsInv, SettingsNext PROVE SettingsInv'
<1>1. PICK w \in Windows : WindowStep(w, Clicked)
  BY DEF SettingsNext
<1>2. CASE Load(w)
  BY <1>2, LoadKeeps
<1>3. CASE InitDialog(w)
  BY <1>3, InitDialogKeeps
<1>4. CASE AllFilesFinished(w) \/ OpenSettings(w) \/ CloseSettings(w) \/ CloseWindow(w)
  BY <1>4, OtherStepKeeps
<1>5. CASE \/ \E a \in Algorithms : ToggleAlgorithm(w, a) \/ SelectAlgorithm(w, a)
           \/ \E k \in Options \cup ColourChecks : ClickBox(w, k)
           \/ \E k \in ColourValues, c \in Colours : PickColour(w, k, c)
  BY <1>5, EditMeans, SetKeeps
<1>6. QED  BY <1>1, <1>2, <1>3, <1>4, <1>5 DEF WindowStep

LEMMA InvAlways == SettingsSpec => []SettingsInv
<1>1. SettingsInv /\ UNCHANGED settingsVars => SettingsInv'
  BY DEF settingsVars, SettingsInv, SettingsTypeOK, Orderly, SessionHashed, WholeCopy
<1>2. SettingsInv /\ [SettingsNext]_settingsVars => SettingsInv'
  BY <1>1, StepKeeps
<1>3. QED  BY <1>2, SettingsInitial, PTL DEF SettingsSpec

(* What a window shows is what its tasks compute, whatever other windows,  *)
(* the store and the clipboard do (MainDialog::OnInitDialog and            *)
(* Coordinator::AddFiles).                                                 *)
THEOREM SessionHashedAlways == SettingsSpec => []SessionHashed
<1>1. SettingsInv => SessionHashed
  BY DEF SettingsInv
<1>2. QED  BY <1>1, InvAlways, PTL

(* The store changes only to what an open dialog shows (the settings of    *)
(* a session stay in the session; RegistrySetting::SetNoSave).             *)
THEOREM StoreFollowsDialogAlways == SettingsSpec => StoreFollowsDialog
<1> DEFINE Follows == \A k \in Checks : registry'[k] # registry[k] =>
                        \E w \in Windows : /\ dlg[w] # Closed
                                           /\ dlg'[w] # Closed
                                           /\ registry'[k] = dlg'[w][k]
<1>1. ASSUME SettingsInv, SettingsNext PROVE Follows
  <2>1. PICK w \in Windows : WindowStep(w, Clicked)
    BY <1>1 DEF SettingsNext
  <2>2. CASE Load(w) \/ InitDialog(w) \/ AllFilesFinished(w) \/ OpenSettings(w)
             \/ CloseSettings(w) \/ CloseWindow(w)
    BY <2>2 DEF Load, InitDialog, AllFilesFinished, OpenSettings, CloseSettings, CloseWindow
  <2>3. CASE \/ \E a \in Algorithms : ToggleAlgorithm(w, a) \/ SelectAlgorithm(w, a)
             \/ \E k \in Options \cup ColourChecks : ClickBox(w, k)
             \/ \E k \in ColourValues, c \in Colours : PickColour(w, k, c)
    <3>1. PICK k \in Keys : \E v \in Value(k) :
            /\ dlg[w] # Closed /\ dlg'[w] # Closed
            /\ Set(w, k, v)
            /\ k \in Checks => dlg'[w][k] = v
      BY <1>1, <2>3, EditMeans
    <3>2. /\ registry \in [Keys -> BOOLEAN \cup Colours \cup {Absent}]
          /\ \E v \in Value(k) :
               /\ registry' \in {registry, [registry EXCEPT ![k] = v]}
               /\ k \in Checks => dlg'[w][k] = v
      BY <1>1, <3>1 DEF SettingsInv, SettingsTypeOK, Set
    <3>3. Checks \subseteq Keys
      BY DEF Keys
    <3>4. QED  BY <3>1, <3>2, <3>3
  <2>4. QED  BY <2>1, <2>2, <2>3 DEF WindowStep
<1>2. UNCHANGED settingsVars => Follows
  BY DEF settingsVars
<1>3. SettingsInv /\ [SettingsNext]_settingsVars => [Follows]_settingsVars
  BY <1>1, <1>2
<1>4. QED  BY <1>3, InvAlways, PTL DEF SettingsSpec, StoreFollowsDialog

-----------------------------------------------------------------------------
(* The best of the first n results: an expected one, a secure one if there *)
(* is any.                                                                 *)
Hits(results, hashes, n) == {a \in Algs : a < n /\ results[a] \in hashes}
BestOf(results, hashes, n, m) ==
  /\ hashes = {} => m = None
  /\ hashes # {} /\ Hits(results, hashes, n) = {} => m = Mismatch
  /\ Hits(results, hashes, n) # {} =>
       /\ m \in Hits(results, hashes, n)
       /\ Hits(results, hashes, n) \cap Secure # {} => m \in Secure

(* A turn of Finish finds the best of one result more.                     *)
LEMMA BestOneMore ==
  ASSUME NEW before, NEW after, NEW hashes, NEW n \in Algs, NEW m,
         BestOf(before, hashes, n, m),
         \A a \in Algs : a < n => after[a] = before[a]
  PROVE  BestOf(after, hashes, n + 1, MatchWith(m, n, after[n], hashes))
<1> DEFINE next == MatchWith(m, n, after[n], hashes)
           H == Hits(before, hashes, n)
           G == Hits(after, hashes, n + 1)
<1>0. AlgCount \in Nat /\ Secure \subseteq Algs
  BY ResultsAssumption
<1>1. \A a \in Algs : a < n + 1 <=> a < n \/ a = n
  BY <1>0 DEF Algs
<1>2. G = H \cup {a \in {n} : after[n] \in hashes}
  BY <1>0, <1>1 DEF Hits, Algs
<1>3. None \notin Algs /\ Mismatch \notin Algs /\ None # Mismatch
  BY <1>0 DEF None, Mismatch, Algs
<1>4. H \subseteq Algs /\ (H # {} => hashes # {}) /\ BestOf(before, hashes, n, m)
  BY DEF Hits
<1>5. /\ hashes = {} => m = None
      /\ hashes # {} /\ H = {} => m = Mismatch
      /\ H # {} => m \in H /\ (H \cap Secure # {} => m \in Secure)
  BY <1>4 DEF BestOf
<1>6. next = IF after[n] \in hashes /\ m # None /\ Trumps(m, n) THEN n ELSE m
  BY DEF MatchWith
<1> HIDE DEF H, next
<1>7. CASE after[n] \in hashes
  <2>1. G = H \cup {n} /\ hashes # {}
    BY <1>2, <1>7
  <2>2. next = IF m = Mismatch \/ m \notin Secure THEN n ELSE m
    <3>1. m # None
      BY <1>3, <1>4, <1>5, <2>1
    <3>2. QED  BY <1>6, <1>7, <3>1 DEF Trumps
  <2>3. next \in G /\ (G \cap Secure # {} => next \in Secure)
    BY <1>3, <1>4, <1>5, <2>1, <2>2
  <2>4. QED  BY <2>1, <2>3 DEF BestOf, next
<1>8. CASE after[n] \notin hashes
  <2>1. G = H /\ next = m
    BY <1>2, <1>6, <1>8
  <2>2. QED  BY <1>5, <2>1 DEF BestOf, next
<1>9. QED  BY <1>7, <1>8

-----------------------------------------------------------------------------
(* What the tasks are.                                                     *)
States == {"hashing", "finishing", "hashed", "erred", "failed"}

TasksTypeOK ==
  /\ submitted \in 0..FileCount
  /\ state \in [Files -> States]
  /\ turn \in [Files -> 0..AlgCount]
  /\ digest \in [Files -> [Algs -> Hashes \cup {NoHash}]]
  /\ expected \in [Files -> Expectations]
  /\ DOMAIN match = Files

(* What Finish has done of a file: a result for each algorithm it is done  *)
(* with and that has a context, and the best match of those.               *)
Matched(f) ==
  state[f] \in {"finishing", "hashed"} => BestOf(digest[f], expected[f], turn[f], match[f])
Computing(f) ==
  /\ state[f] \notin {"finishing", "hashed"} => turn[f] = 0
  /\ state[f] = "hashed" => turn[f] = AlgCount
  /\ \A a \in Algs : digest[f][a] = NoHash <=> ~(a < turn[f] /\ a \in HashedAlgs)
Worked(f) == Matched(f) /\ Computing(f)

TasksInv == TasksTypeOK /\ \A f \in Files : Worked(f)

LEMMA TasksInitial == ResultsInit => TasksInv
<1> SUFFICES ASSUME ResultsInit PROVE TasksInv
  OBVIOUS
<1>0. AlgCount \in Nat /\ FileCount \in Nat
  BY ResultsAssumption
<1>1. TasksTypeOK
  BY <1>0 DEF ResultsInit, TasksTypeOK, States
<1>2. ASSUME NEW f \in Files PROVE Worked(f)
  <2>1. state[f] = "hashing" /\ turn[f] = 0 /\ \A a \in Algs : digest[f][a] = NoHash
    BY DEF ResultsInit
  <2>2. \A a \in Algs : ~(a < 0)
    BY <1>0 DEF Algs
  <2>3. QED  BY <2>1, <2>2 DEF Worked, Matched, Computing
<1>3. QED  BY <1>1, <1>2 DEF TasksInv

(* A step of a task changes that task only.                                *)
LEMMA OthersKeep ==
  ASSUME TasksTypeOK, TasksTypeOK', NEW f, NEW g \in Files, f # g, Worked(g),
         expected' = expected, state'[g] = state[g], turn'[g] = turn[g],
         digest'[g] = digest[g], match'[g] = match[g]
  PROVE  Worked(g)'
  BY DEF Worked, Matched, Computing, BestOf, Hits

(* And what is finished, and a result that was computed, stay as they are. *)
Onward(g) ==
  /\ Done(g) => state'[g] = state[g] /\ digest'[g] = digest[g] /\ match'[g] = match[g]
  /\ \A a \in Algs : a < turn[g] => digest'[g][a] = digest[g][a]

LEMMA FinishAlgorithmKeeps ==
  ASSUME TasksInv, NEW f \in Files, FinishAlgorithm(f)
  PROVE  TasksInv' /\ \A g \in Files : Onward(g)
<1>1. PICK hash \in Hashes \cup {NoHash} :
        /\ state[f] = "finishing" /\ turn[f] < AlgCount
        /\ hash = NoHash <=> turn[f] \notin HashedAlgs
        /\ digest' = [digest EXCEPT ![f][turn[f]] = hash]
        /\ match' = [match EXCEPT ![f] = MatchWith(match[f], turn[f], hash, expected[f])]
        /\ turn' = [turn EXCEPT ![f] = turn[f] + 1]
        /\ UNCHANGED <<submitted, expected, state, messages>>
  BY DEF FinishAlgorithm
<1> DEFINE n == turn[f]
<1>2. /\ AlgCount \in Nat /\ n \in Nat /\ n \in Algs /\ n + 1 \in 0..AlgCount
      /\ Algs \subseteq Nat /\ n # AlgCount
  BY <1>1, ResultsAssumption DEF TasksInv, TasksTypeOK, Algs
<1>3. TasksTypeOK'
  <2>1. digest[f] \in [Algs -> Hashes \cup {NoHash}]
    BY DEF TasksInv, TasksTypeOK
  <2>2. [digest[f] EXCEPT ![n] = hash] \in [Algs -> Hashes \cup {NoHash}]
    BY <2>1
  <2>3. digest' = [digest EXCEPT ![f] = [digest[f] EXCEPT ![n] = hash]]
    BY <1>1
  <2>4. digest' \in [Files -> [Algs -> Hashes \cup {NoHash}]]
    BY <2>2, <2>3 DEF TasksInv, TasksTypeOK
  <2>5. turn' \in [Files -> 0..AlgCount]
    BY <1>1, <1>2 DEF TasksInv, TasksTypeOK
  <2>6. DOMAIN match' = Files
    BY <1>1 DEF TasksInv, TasksTypeOK
  <2>7. QED  BY <1>1, <2>4, <2>5, <2>6 DEF TasksInv, TasksTypeOK
<1>4. /\ digest'[f][n] = hash
      /\ \A a \in Algs : a # n => digest'[f][a] = digest[f][a]
      /\ turn'[f] = n + 1 /\ state'[f] = "finishing" /\ expected'[f] = expected[f]
      /\ match'[f] = MatchWith(match[f], n, hash, expected[f])
  BY <1>1, <1>2 DEF TasksInv, TasksTypeOK
<1>5. Worked(f)'
  <2>1. BestOf(digest[f], expected[f], n, match[f])
    BY <1>1 DEF TasksInv, Worked, Matched
  <2>2. \A a \in Algs : a < n => digest'[f][a] = digest[f][a]
    BY <1>2, <1>4
  <2>3. BestOf(digest'[f], expected[f], n + 1, MatchWith(match[f], n, digest'[f][n], expected[f]))
    <3>1. PICK after : after = digest'[f]
      OBVIOUS
    <3>2. \A a \in Algs : a < n => after[a] = digest[f][a]
      BY <2>2, <3>1
    <3>3. BestOf(after, expected[f], n + 1, MatchWith(match[f], n, after[n], expected[f]))
      BY <1>2, <2>1, <3>2, BestOneMore
    <3>4. QED  BY <3>1, <3>3
  <2>4. BestOf(digest'[f], expected'[f], turn'[f], match'[f])
    BY <1>4, <2>3
  <2>5. Matched(f)'
    BY <2>4 DEF Matched, BestOf, Hits
  <2>6. \A a \in Algs : digest'[f][a] = NoHash <=> ~(a < n + 1 /\ a \in HashedAlgs)
    <3>1. \A a \in Algs : digest[f][a] = NoHash <=> ~(a < n /\ a \in HashedAlgs)
      BY DEF TasksInv, Worked, Computing
    <3>2. \A a \in Algs : a < n + 1 <=> a < n \/ a = n
      BY <1>2
    <3>3. QED  BY <1>1, <1>2, <1>4, <3>1, <3>2
  <2>7. Computing(f)'
    BY <1>4, <2>6 DEF Computing
  <2>8. QED  BY <2>5, <2>7 DEF Worked
<1>6. ASSUME NEW g \in Files, g # f
      PROVE  /\ digest'[g] = digest[g] /\ match'[g] = match[g] /\ turn'[g] = turn[g]
             /\ state'[g] = state[g]
  BY <1>1, <1>6 DEF TasksInv, TasksTypeOK
<1>7. ASSUME NEW g \in Files PROVE Worked(g)'
  <2>1. CASE g = f
    BY <1>5, <2>1
  <2>2. CASE g # f
    BY <1>1, <1>3, <1>6, <2>2, OthersKeep DEF TasksInv
  <2>3. QED  BY <2>1, <2>2
<1>8. ASSUME NEW g \in Files PROVE Onward(g)
  <2>1. CASE g = f
    BY <1>1, <1>2, <1>4, <2>1 DEF Onward, Done
  <2>2. CASE g # f
    BY <1>6, <2>2 DEF Onward
  <2>3. QED  BY <2>1, <2>2
<1>9. QED  BY <1>3, <1>7, <1>8 DEF TasksInv

(* The other steps of the tasks compute nothing.                           *)
LEMMA OtherTaskKeeps ==
  ASSUME TasksInv, NEW f \in Files, SetError(f) \/ BeginFinish(f) \/ Complete(f)
  PROVE  TasksInv' /\ \A g \in Files : Onward(g)
<1>0. /\ TasksTypeOK /\ \A g \in Files : Worked(g)
      /\ AlgCount \in Nat
  BY ResultsAssumption DEF TasksInv
<1>1. /\ UNCHANGED <<submitted, digest, expected, turn>>
      /\ state' \in [Files -> States] /\ DOMAIN match' = Files
      /\ \A g \in Files \ {f} : state'[g] = state[g] /\ match'[g] = match[g]
      /\ ~Done(f)
  BY <1>0 DEF SetError, BeginFinish, Complete, TasksTypeOK, States, Done
<1>2. TasksTypeOK'
  BY <1>0, <1>1 DEF TasksTypeOK
<1>3. Worked(f)'
  <2>1. CASE SetError(f)
    <3>1. state[f] = "hashing" /\ state'[f] = "erred"
      BY <1>0, <2>1 DEF SetError, TasksTypeOK
    <3>2. QED  BY <1>0, <1>1, <3>1 DEF Worked, Matched, Computing
  <2>2. CASE BeginFinish(f)
    <3>1. /\ state[f] = "hashing" /\ state'[f] = "finishing"
          /\ match'[f] = IF expected[f] = {} THEN None ELSE Mismatch
      BY <1>0, <2>2 DEF BeginFinish, TasksTypeOK
    <3>2. turn'[f] = 0 /\ Computing(f)'
      BY <1>0, <1>1, <3>1 DEF Worked, Computing
    <3>3. Hits(digest'[f], expected'[f], 0) = {}
      BY <1>0 DEF Hits, Algs
    <3>4. BestOf(digest'[f], expected'[f], turn'[f], match'[f])
      BY <1>1, <3>1, <3>2, <3>3 DEF BestOf
    <3>5. Matched(f)'
      BY <3>4 DEF Matched, BestOf, Hits
    <3>6. QED  BY <3>2, <3>5 DEF Worked
  <2>3. CASE Complete(f)
    <3>1. /\ match'[f] = match[f]
          /\ \/ state[f] = "finishing" /\ turn[f] = AlgCount /\ state'[f] = "hashed"
             \/ state[f] = "erred" /\ state'[f] = "failed"
      BY <1>0, <2>3 DEF Complete, TasksTypeOK
    <3>2. Computing(f)'
      BY <1>0, <1>1, <3>1 DEF Worked, Computing
    <3>3. Matched(f)'
      BY <1>0, <1>1, <3>1 DEF Worked, Matched, BestOf, Hits
    <3>4. QED  BY <3>2, <3>3 DEF Worked
  <2>4. QED  BY <2>1, <2>2, <2>3
<1>4. ASSUME NEW g \in Files PROVE Worked(g)'
  <2>1. CASE g = f
    BY <1>3, <2>1
  <2>2. CASE g # f
    BY <1>0, <1>1, <1>2, <2>2, OthersKeep
  <2>3. QED  BY <2>1, <2>2
<1>5. \A g \in Files : Onward(g)
  BY <1>1 DEF Onward
<1>6. QED  BY <1>2, <1>4, <1>5 DEF TasksInv

LEMMA UntouchedKeep ==
  ASSUME TasksInv, UNCHANGED <<digest, expected, state, turn, match>>, submitted' \in 0..FileCount
  PROVE  TasksInv' /\ \A g \in Files : Onward(g)
<1>1. TasksTypeOK'
  BY DEF TasksInv, TasksTypeOK
<1>2. \A g \in Files : Worked(g)'
  BY DEF TasksInv, Worked, Matched, Computing, BestOf, Hits
<1>3. \A g \in Files : Onward(g)
  BY DEF Onward
<1>4. QED  BY <1>1, <1>2, <1>3 DEF TasksInv

LEMMA TasksStep ==
  ASSUME TasksInv, [ResultsNext]_resultVars PROVE TasksInv' /\ \A g \in Files : Onward(g)
<1>1. CASE ProcessFile
  <2>1. submitted' \in 0..FileCount
    BY <1>1, ResultsAssumption DEF ProcessFile, TasksInv, TasksTypeOK
  <2>2. QED  BY <1>1, <2>1, UntouchedKeep DEF ProcessFile
<1>2. CASE TaskStep
  BY <1>2, FinishAlgorithmKeeps, OtherTaskKeeps DEF TaskStep
<1>3. CASE \/ OnAllFilesFinished \/ OnStatusUpdateTimer \/ Copy
           \/ \E text \in Given : TypeText(text)
           \/ \E k \in {"strict", "autoformat"} : ChangeSettings(k)
           \/ UNCHANGED resultVars
  <2>1. UNCHANGED taskVars
    BY <1>3 DEF OnAllFilesFinished, OnStatusUpdateTimer, Copy, TypeText, ChangeSettings, resultVars
  <2>2. submitted' \in 0..FileCount
    BY <2>1 DEF taskVars, TasksInv, TasksTypeOK
  <2>3. QED  BY <2>1, <2>2, UntouchedKeep DEF taskVars
<1>4. QED  BY <1>1, <1>2, <1>3 DEF ResultsNext, ListNext, BoxNext

LEMMA TasksAlways == ResultsSpec => []TasksInv
  BY TasksInitial, TasksStep, PTL DEF ResultsSpec

(* A file's match is the best of the expected results, whatever order the  *)
(* algorithms have (FileHashTask::Finish).                                 *)
THEOREM SecureTrumpsAlways == ResultsSpec => []SecureTrumps
<1>1. ASSUME TasksInv PROVE SecureTrumps
  <2>1. SUFFICES ASSUME NEW f \in Files, state[f] = "hashed"
                 PROVE  LET hits == {a \in Algs : digest[f][a] \in expected[f]} IN
                        CASE expected[f] = {}              -> match[f] = None
                          [] expected[f] # {} /\ hits = {} -> match[f] = Mismatch
                          [] hits # {} -> /\ match[f] \in hits
                                          /\ hits \cap Secure # {} => match[f] \in Secure
    BY DEF SecureTrumps
  <2> DEFINE hits == {a \in Algs : digest[f][a] \in expected[f]}
  <2>2. BestOf(digest[f], expected[f], AlgCount, match[f])
    BY <1>1, <2>1 DEF TasksInv, Worked, Matched, Computing
  <2>3. Hits(digest[f], expected[f], AlgCount) = hits
    BY ResultsAssumption DEF Hits, Algs
  <2>4. hits # {} => expected[f] # {}
    OBVIOUS
  <2> HIDE DEF hits
  <2>5. /\ expected[f] = {} => match[f] = None
        /\ expected[f] # {} /\ hits = {} => match[f] = Mismatch
        /\ hits # {} => match[f] \in hits /\ (hits \cap Secure # {} => match[f] \in Secure)
    BY <2>2, <2>3 DEF BestOf
  <2>6. (CASE expected[f] = {}              -> match[f] = None
           [] expected[f] # {} /\ hits = {} -> match[f] = Mismatch
           [] hits # {} -> /\ match[f] \in hits
                           /\ hits \cap Secure # {} => match[f] \in Secure)
    BY <2>4, <2>5
  <2>7. QED  BY <2>6 DEF hits
<1>2. QED  BY <1>1, TasksAlways, PTL

-----------------------------------------------------------------------------
(* The status line.                                                        *)
StatusInv == listed \in Nat /\ status.temporary \in BOOLEAN /\ StatusShown

LEMMA StatusStep == ASSUME StatusInv, [ResultsNext]_resultVars PROVE StatusInv'
<1>1. CASE ProcessFile \/ TaskStep \/ UNCHANGED resultVars
  <2>1. UNCHANGED <<listed, status, timer>>
    BY <1>1 DEF ProcessFile, TaskStep, SetError, BeginFinish, FinishAlgorithm, Complete,
                DialogUnchanged, listVars, statusVars, resultVars
  <2>2. QED  BY <2>1 DEF StatusInv, StatusShown, finished
<1>2. CASE (\E text \in Given : TypeText(text)) \/ \E k \in {"strict", "autoformat"} : ChangeSettings(k)
  <2>1. UNCHANGED <<listed, status, timer>>
    BY <1>2 DEF TypeText, ChangeSettings, listVars, statusVars
  <2>2. QED  BY <2>1 DEF StatusInv, StatusShown, finished
<1>3. CASE OnAllFilesFinished
  <2>1. /\ listed \in Nat /\ listed' = listed + 1 /\ timer' = timer
        /\ status' = IF status.temporary THEN status ELSE [text |-> "done", temporary |-> FALSE]
    BY <1>3 DEF OnAllFilesFinished, StatusInv, UpdateDefaultStatus
  <2>2. listed' \in Nat /\ listed' # 0
    BY <2>1
  <2>3. CASE status.temporary
    BY <2>1, <2>2, <2>3 DEF StatusInv, StatusShown
  <2>4. CASE ~status.temporary
    <3>1. status'.text = "done" /\ status'.temporary = FALSE
      BY <2>1, <2>4
    <3>2. QED  BY <2>2, <3>1 DEF StatusInv, StatusShown, finished
  <2>5. QED  BY <2>3, <2>4
<1>4. CASE OnStatusUpdateTimer
  <2>1. /\ listed' = listed /\ timer' = timer
        /\ status' = [text |-> IF finished THEN "done" ELSE "processing", temporary |-> FALSE]
    BY <1>4 DEF OnStatusUpdateTimer, UpdateDefaultStatus, listVars
  <2>2. status'.text = (IF finished THEN "done" ELSE "processing") /\ status'.temporary = FALSE
    BY <2>1
  <2>3. QED  BY <2>1, <2>2 DEF StatusInv, StatusShown, finished
<1>5. CASE Copy
  <2>1. listed' = listed /\ timer' = TRUE /\ status' = [text |-> "copied", temporary |-> TRUE]
    BY <1>5 DEF Copy, SetTempStatus, listVars
  <2>2. status'.text = "copied" /\ status'.temporary = TRUE
    BY <2>1
  <2>3. QED  BY <2>1, <2>2 DEF StatusInv, StatusShown
<1>6. QED  BY <1>1, <1>2, <1>3, <1>4, <1>5 DEF ResultsNext, ListNext, BoxNext

(* The status line shows the state of the work unless a copy is shown, and *)
(* then the timer is set (SetTempStatus, UpdateDefaultStatus).             *)
THEOREM StatusShownAlways == ResultsSpec => []StatusShown
<1>1. ResultsInit => StatusInv
  BY DEF ResultsInit, StatusInv, StatusShown, finished
<1>2. StatusInv => StatusShown
  BY DEF StatusInv
<1>3. QED  BY <1>1, <1>2, StatusStep, PTL DEF ResultsSpec

-----------------------------------------------------------------------------
(* The box.  The first of some numbers is the least of them, and no later  *)
(* one takes its place.                                                    *)
LEMMA FirstIs ==
  ASSUME NEW X, X \subseteq Nat, X # {} PROVE Min(X) \in X /\ \A k \in X : Min(X) <= k
<1>1. \E j \in X : \A k \in X : j <= k
  BY LeastExists
<1>2. QED  BY <1>1 DEF Min

LEMMA FirstStays ==
  ASSUME NEW X, X # {}, NEW Y, X \subseteq Y, Y \subseteq Nat,
         \A y \in Y \ X : \A x \in X : x < y
  PROVE  Min(Y) = Min(X)
<1>1. Min(X) \in X /\ \A k \in X : Min(X) <= k
  BY FirstIs
<1>2. Min(Y) \in Y /\ \A k \in Y : Min(Y) <= k
  BY FirstIs
<1>3. Min(Y) \in X
  <2>1. Min(X) \in Nat /\ Min(Y) \in Nat /\ Min(Y) <= Min(X)
    BY <1>1, <1>2
  <2>2. ~(Min(X) < Min(Y))
    BY <2>1
  <2>3. QED  BY <1>1, <1>2, <2>2
<1>4. Min(X) \in Nat /\ Min(Y) \in Nat /\ Min(Y) <= Min(X) /\ Min(X) <= Min(Y)
  BY <1>1, <1>2, <1>3
<1>5. QED  BY <1>4

(* What a file was found to have it keeps, in the same colour, and it has  *)
(* nothing more once it is finished.                                       *)
LEMMA FoundStays ==
  ASSUME TasksInv, TasksInv', NEW f \in Files, Onward(f), NEW hash, hash # NoHash
  PROVE  /\ With(f, hash) # {} => With(f, hash)' # {} /\ ColourOf(f, hash)' = ColourOf(f, hash)
         /\ Done(f) => Done(f)' /\ With(f, hash)' = With(f, hash)
<1>0. AlgCount \in Nat /\ Algs \subseteq Nat /\ turn[f] \in Nat
  BY ResultsAssumption DEF TasksInv, TasksTypeOK, Algs
<1>1. ASSUME NEW a \in Algs, digest[f][a] # NoHash PROVE digest'[f][a] = digest[f][a]
  <2>1. a < turn[f]
    BY <1>1 DEF TasksInv, Worked, Computing
  <2>2. QED  BY <2>1 DEF Onward
<1>2. ASSUME NEW a \in Algs, ~(a < turn[f]), NEW b \in Algs, digest[f][b] # NoHash PROVE b < a
  <2>1. b < turn[f] /\ ~(a < turn[f]) /\ a \in Nat /\ b \in Nat /\ turn[f] \in Nat
    BY <1>0, <1>2 DEF TasksInv, Worked, Computing
  <2>2. QED  BY <2>1
<1> DEFINE X == {a \in Algs : digest[f][a] = hash}
           Y == {a \in Algs : digest'[f][a] = hash}
<1>3. X \subseteq Y /\ Y \subseteq Nat
  BY <1>0, <1>1
<1>4. ASSUME NEW y \in Y \ X, NEW x \in X PROVE x < y
  <2>1. ~(y < turn[f])
    BY <1>4 DEF Onward
  <2>2. QED  BY <1>2, <1>4, <2>1
<1>5. With(f, hash) = X /\ With(f, hash)' = Y
  BY DEF With
<1>6. Done(f) => X = Y /\ Done(f)'
  BY DEF Onward, Done
<1> HIDE DEF X, Y
<1>7. X # {} => Min(Y) = Min(X)
  BY <1>3, <1>4, FirstStays
<1>8. X # {} => ColourOf(f, hash)' = ColourOf(f, hash)
  <2>1. /\ ColourOf(f, hash) = IF Min(X) \in Secure THEN "Match" ELSE "Insecure"
        /\ ColourOf(f, hash)' = IF Min(Y) \in Secure THEN "Match" ELSE "Insecure"
    BY <1>5 DEF ColourOf, Min
  <2>2. QED  BY <1>7, <2>1
<1>9. QED  BY <1>3, <1>5, <1>6, <1>8

(* The text in the box is one that was read.                               *)
BoxInv ==
  /\ settings \in [{"strict", "autoformat"} -> BOOLEAN]
  /\ checked \subseteq {f \in Files : Done(f)}
  /\ VerdictOfText

(* What is true of a verdict about a hash that was found.                  *)
VerdictOf(hash) ==
  IF hash = NoHash THEN verdict = Unchecked
  ELSE /\ \A f \in checked : With(f, hash) # {} => verdict.file \in 1..f
       /\ \/ verdict = [colour |-> "Mismatch", file |-> 0]
          \/ /\ verdict.file \in Files /\ With(verdict.file, hash) # {}
             /\ verdict.colour = ColourOf(verdict.file, hash)

LEMMA VerdictIs == VerdictOfText <=> \E strict \in BOOLEAN : VerdictOf(Found(edit, strict))
  BY DEF VerdictOfText, VerdictOf

(* However the text was read, the text left in the box reads the same.     *)
LEMMA EditReads ==
  ASSUME BoxInv, UNCHANGED <<digest, state>>, NEW text, HashEditChanged(text)
  PROVE  checked' \subseteq {f \in Files : Done(f)}' /\ VerdictOfText'
<1> DEFINE hash == Found(text, settings.strict)
           hits == {f \in Files : With(f, hash) # {}}
<1>1. /\ settings.strict \in BOOLEAN
      /\ verdict' = Check(hash) /\ checked' = {f \in Files : Done(f)}
      /\ edit' = [hash |-> hash, as |-> "canonical"] \/ edit' = text
  BY DEF HashEditChanged, BoxInv
<1>2. Found(edit', settings.strict) = hash
  BY <1>1 DEF Found
<1>3. checked' \subseteq Files /\ checked' \subseteq {f \in Files : Done(f)}'
  BY <1>1 DEF Done
<1>4. /\ Found(edit, settings.strict)' = Found(edit', settings.strict')
      /\ \A strict : Found(edit, strict)' = Found(edit', strict)
      /\ \A f, h : With(f, h)' = With(f, h) /\ ColourOf(f, h)' = ColourOf(f, h)
  BY DEF Found, With, ColourOf, Min
<1>5. CASE hash = NoHash
  <2>1. verdict' = Unchecked
    BY <1>1, <1>5 DEF Check
  <2>2. QED  BY <1>1, <1>2, <1>3, <1>5, <2>1 DEF VerdictOfText, Found
<1>6. CASE hash # NoHash
  <2>1. verdict' = IF hits = {} THEN [colour |-> "Mismatch", file |-> 0]
                   ELSE [colour |-> ColourOf(Min(hits), hash), file |-> Min(hits)]
    BY <1>1, <1>6 DEF Check
  <2>2. hits # {} => Min(hits) \in hits /\ \A k \in hits : Min(hits) <= k
    BY ResultsAssumption, FirstIs DEF Files
  <2>3. \A f \in checked' : With(f, hash) # {} => verdict'.file \in 1..f
    <3>1. SUFFICES ASSUME NEW f \in checked', With(f, hash) # {} PROVE verdict'.file \in 1..f
      OBVIOUS
    <3>2. f \in hits
      BY <1>3, <3>1
    <3>3. verdict'.file = Min(hits) /\ Min(hits) \in Files /\ f \in Files /\ Min(hits) <= f
      BY <2>1, <2>2, <3>2
    <3> HIDE DEF hits
    <3>4. QED  BY <3>3, ResultsAssumption DEF Files
  <2>4. \/ verdict' = [colour |-> "Mismatch", file |-> 0]
        \/ /\ verdict'.file \in Files /\ With(verdict'.file, hash) # {}
           /\ verdict'.colour = ColourOf(verdict'.file, hash)
    <3>1. CASE hits = {}
      BY <2>1, <3>1
    <3>2. CASE hits # {}
      <4>1. verdict'.file = Min(hits) /\ verdict'.colour = ColourOf(Min(hits), hash)
        BY <2>1, <3>2
      <4>2. Min(hits) \in Files /\ With(Min(hits), hash) # {}
        BY <2>2, <3>2
      <4> HIDE DEF hits
      <4>3. QED  BY <4>1, <4>2
    <3>3. QED  BY <3>1, <3>2
  <2> HIDE DEF hash, hits
  <2>5. PICK h : h = hash
    OBVIOUS
  <2>6. VerdictOf(h)'
    BY <1>4, <1>6, <2>3, <2>4, <2>5 DEF VerdictOf
  <2>7. PICK strict \in BOOLEAN : h = Found(edit', strict)
    BY <1>1, <1>2, <2>5
  <2>8. VerdictOfText'
    BY <1>4, <2>6, <2>7 DEF VerdictOfText, VerdictOf
  <2>9. QED  BY <1>3, <2>8
<1>7. QED  BY <1>3, <1>5, <1>6

LEMMA BoxStays ==
  ASSUME TasksInv, TasksInv', \A g \in Files : Onward(g), BoxInv,
         UNCHANGED <<edit, verdict, checked>>
  PROVE  checked' \subseteq {f \in Files : Done(f)}' /\ VerdictOfText'
<1>0. checked \subseteq {f \in Files : Done(f)}
  BY DEF BoxInv
<1>1. \A f \in Files : Done(f) => Done(f)'
  BY DEF Onward, Done
<1>2. checked' \subseteq {f \in Files : Done(f)}'
  BY <1>0, <1>1
<1>3. PICK strict \in BOOLEAN : VerdictOf(Found(edit, strict))
  BY VerdictIs DEF BoxInv
<1>4. PICK hash : hash = Found(edit, strict)
  OBVIOUS
<1>5. VerdictOf(hash) /\ hash = Found(edit', strict)
  BY <1>3, <1>4
<1>6. VerdictOf(hash)'
  <2>1. CASE hash = NoHash
    BY <1>5, <2>1 DEF VerdictOf, Unchecked
  <2>2. CASE hash # NoHash
    <3>1. ASSUME NEW f \in Files, With(f, hash) # {}
          PROVE  With(f, hash)' # {} /\ ColourOf(f, hash)' = ColourOf(f, hash)
      BY <2>2, <3>1, FoundStays
    <3>2. ASSUME NEW f \in checked, With(f, hash)' # {} PROVE With(f, hash) # {}
      BY <1>0, <2>2, <3>2, FoundStays
    <3>3. /\ \A f \in checked : With(f, hash) # {} => verdict.file \in 1..f
          /\ \/ verdict = [colour |-> "Mismatch", file |-> 0]
             \/ /\ verdict.file \in Files /\ With(verdict.file, hash) # {}
                /\ verdict.colour = ColourOf(verdict.file, hash)
      BY <1>5, <2>2 DEF VerdictOf
    <3>4. PICK v, done : v = verdict /\ done = checked
      OBVIOUS
    <3>5. \A f \in done : With(f, hash)' # {} => v.file \in 1..f
      BY <3>2, <3>3, <3>4
    <3>6. \/ v = [colour |-> "Mismatch", file |-> 0]
          \/ /\ v.file \in Files /\ With(v.file, hash)' # {}
             /\ v.colour = ColourOf(v.file, hash)'
      BY <3>1, <3>3, <3>4
    <3>7. verdict' = v /\ checked' = done
      BY <3>4
    <3>8. Files' = Files
      BY DEF Files
    <3>9. \A f : With(f, hash)' = {a \in Algs : digest'[f][a] = hash}
      BY DEF With
    <3>10. \A f : ColourOf(f, hash)' =
             IF Min({a \in Algs : digest'[f][a] = hash}) \in Secure THEN "Match" ELSE "Insecure"
      BY DEF ColourOf, With
    <3>11. QED  BY <2>2, <3>5, <3>6, <3>7, <3>8, <3>9, <3>10 DEF VerdictOf, With, ColourOf
  <2>3. QED  BY <2>1, <2>2
<1>7. VerdictOfText'
  BY <1>5, <1>6 DEF VerdictOfText, VerdictOf, Found
<1>8. QED  BY <1>2, <1>7

LEMMA BoxStep == ASSUME TasksInv, BoxInv, [ResultsNext]_resultVars PROVE BoxInv'
<1>1. CASE \E text : HashEditChanged(text) /\ UNCHANGED <<digest, state, settings>>
  BY <1>1, EditReads DEF BoxInv
<1>2. CASE /\ UNCHANGED <<edit, verdict, checked>>
           /\ settings' \in [{"strict", "autoformat"} -> BOOLEAN]
  <2>1. TasksInv' /\ \A g \in Files : Onward(g)
    BY TasksStep
  <2>2. QED  BY <1>2, <2>1, BoxStays DEF BoxInv
<1>3. CASE ProcessFile \/ TaskStep \/ OnStatusUpdateTimer \/ Copy \/ UNCHANGED resultVars
  <2>1. UNCHANGED <<edit, verdict, checked, settings>>
    BY <1>3 DEF ProcessFile, TaskStep, SetError, BeginFinish, FinishAlgorithm, Complete,
                DialogUnchanged, OnStatusUpdateTimer, Copy, editVars, resultVars
  <2>2. QED  BY <1>2, <2>1 DEF BoxInv
<1>4. CASE OnAllFilesFinished
  BY <1>1, <1>2, <1>4 DEF OnAllFilesFinished, taskVars, editVars, BoxInv
<1>5. CASE \E text \in Given : TypeText(text)
  BY <1>1, <1>5 DEF TypeText, taskVars
<1>6. CASE \E k \in {"strict", "autoformat"} : ChangeSettings(k)
  <2>1. PICK k \in {"strict", "autoformat"} : ChangeSettings(k)
    BY <1>6
  <2>2. settings' \in [{"strict", "autoformat"} -> BOOLEAN]
    BY <2>1 DEF ChangeSettings, BoxInv
  <2>3. UNCHANGED <<edit, verdict, checked>>
    BY <2>1 DEF ChangeSettings, editVars
  <2>4. QED  BY <1>2, <2>2, <2>3
<1>7. QED  BY <1>3, <1>4, <1>5, <1>6 DEF ResultsNext, ListNext, BoxNext

LEMMA BoxInitial == ResultsInit => BoxInv
<1> SUFFICES ASSUME ResultsInit PROVE BoxInv
  OBVIOUS
<1>1. checked = {} /\ settings \in [{"strict", "autoformat"} -> BOOLEAN]
  BY DEF ResultsInit
<1>2. Found(edit, TRUE) = NoHash /\ verdict = Unchecked
  BY DEF ResultsInit, NoText, Found
<1>3. QED  BY <1>1, <1>2 DEF BoxInv, VerdictOfText

(* For any files and algorithms and any listing, early or late: the result *)
(* beside the box is that of the text in it, and what it says of a file    *)
(* stays true while other files are finished (OnHashEditChanged).          *)
THEOREM VerdictOfTextAlways == ResultsSpec => []VerdictOfText
<1>1. BoxInv => VerdictOfText
  BY DEF BoxInv
<1>2. QED  BY <1>1, BoxInitial, BoxStep, TasksAlways, PTL DEF ResultsSpec

-----------------------------------------------------------------------------
(* Sizes of sets.                                                          *)
LEMMA SameSize ==
  ASSUME NEW S, IsFiniteSet(S), NEW T, NEW g \in [S -> T],
         \A x, y \in S : g[x] = g[y] => x = y, \A t \in T : \E x \in S : g[x] = t
  PROVE  IsFiniteSet(T) /\ Cardinality(T) = Cardinality(S)
<1>1. g \in Bijection(S, T)
  BY DEF Bijection, Injection, Surjection, IsInjective
<1>2. QED  BY <1>1, FS_Bijection DEF ExistsBijection

LEMMA Together ==
  ASSUME NEW S, IsFiniteSet(S), NEW T, IsFiniteSet(T), S \cap T = {}
  PROVE  IsFiniteSet(S \cup T) /\ Cardinality(S \cup T) = Cardinality(S) + Cardinality(T)
<1>1. Cardinality(S) \in Nat /\ Cardinality(T) \in Nat /\ Cardinality(S \cap T) = 0
  BY FS_CardinalityType, FS_EmptySet
<1>2. /\ IsFiniteSet(S \cup T)
      /\ Cardinality(S \cup T) = Cardinality(S) + Cardinality(T) - Cardinality(S \cap T)
  BY FS_Union, Zenon
<1>3. QED  BY <1>1, <1>2

LEMMA FilesFinite == ASSUME NEW T, T \subseteq Files PROVE IsFiniteSet(T) /\ Cardinality(T) \in Nat
<1>1. IsFiniteSet(Files)
  BY ResultsAssumption, FS_Interval DEF Files
<1>2. QED  BY <1>1, FS_Subset, FS_CardinalityType

-----------------------------------------------------------------------------
(* The files and listings whose rows show a finished file, and what was    *)
(* counted when a file was not finished.                                   *)
Kinds == {"match", "mismatch", "unknown", "error"}
Firm == {x \in (1..listed) \X Files : \A e \in early : <<e.listing, e.file>> # x}
FirmAs(c) == {x \in Firm : Count(x[2]) = c}
Guesses(c) == {e \in early : e.as = c}
RowsAt(x) == {row \in rows : row.listing = x[1] /\ row.file = x[2]}

ListTypeOK ==
  /\ listed \in Nat /\ messages \in Nat /\ IsFiniteSet(early) /\ DOMAIN counts = Kinds
  /\ \A e \in early : e.listing \in 1..listed
  /\ \A row \in rows : row.listing \in 1..listed
FirmRows == \A x \in Firm : Done(x[2]) /\ RowsAt(x) = RowsOf(x[2], x[1])
Counted == \A c \in Kinds : counts[c] = Cardinality(Guesses(c)) + Cardinality(FirmAs(c))

(* When every file is finished, the last listing found them so, or a       *)
(* message for another one is under way.                                   *)
LastComes == AllFilesDone => messages > 0 \/ (listed > 0 /\ {listed} \X Files \subseteq Firm)

RowsInv == ListTypeOK /\ FirmRows /\ Counted /\ LastComes

LEMMA RowsInitial == ResultsInit => RowsInv
<1> SUFFICES ASSUME ResultsInit PROVE RowsInv
  OBVIOUS
<1>1. early = {} /\ rows = {} /\ listed = 0 /\ Firm = {}
  BY DEF ResultsInit, Firm
<1>2. Cardinality({}) = 0 /\ IsFiniteSet({})
  BY FS_EmptySet
<1>3. \A c : Guesses(c) = {} /\ FirmAs(c) = {}
  BY <1>1 DEF Guesses, FirmAs
<1>4. \A c \in Kinds : counts[c] = 0
  BY DEF ResultsInit, Kinds
<1>5. Counted
  BY <1>2, <1>3, <1>4 DEF Counted
<1>6. DOMAIN counts = Kinds /\ messages \in Nat
  BY DEF ResultsInit, Kinds
<1>7. ListTypeOK /\ FirmRows
  BY <1>1, <1>2, <1>6 DEF ListTypeOK, FirmRows
<1>8. LastComes
  <2>1. CASE FileCount = 0
    BY <2>1 DEF ResultsInit, LastComes
  <2>2. CASE FileCount # 0
    <3>1. 1 \in Files /\ state[1] = "hashing"
      BY <2>2, ResultsAssumption DEF ResultsInit, Files
    <3>2. QED  BY <3>1 DEF LastComes, AllFilesDone, Done
  <2>3. QED  BY <2>1, <2>2
<1>9. QED  BY <1>5, <1>7, <1>8 DEF RowsInv

(* A finished file keeps its rows and what it counts as.                   *)
LEMMA DoneKeeps ==
  ASSUME NEW f \in Files, Onward(f), Done(f)
  PROVE  Done(f)' /\ Count(f)' = Count(f) /\ \A n : RowsOf(f, n)' = RowsOf(f, n)
<1>1. state'[f] = state[f] /\ digest'[f] = digest[f] /\ match'[f] = match[f]
  BY DEF Onward
<1>2. QED  BY <1>1 DEF Done, Count, RowsOf, HasError

LEMMA ListStays ==
  ASSUME \A g \in Files : Onward(g), RowsInv, UNCHANGED listVars, messages' \in Nat,
         AllFilesDone' => messages' > 0 \/ (AllFilesDone /\ messages' = messages)
  PROVE  RowsInv'
<1>1. ListTypeOK'
  BY DEF RowsInv, ListTypeOK, listVars
<1>2. Firm' = Firm /\ \A x : RowsAt(x)' = RowsAt(x)
  BY DEF Firm, RowsAt, listVars
<1>3. \A x \in Firm : x[2] \in Files /\ Done(x[2])
  BY DEF RowsInv, FirmRows, Firm
<1>4. FirmRows'
  <2>1. SUFFICES ASSUME NEW x \in Firm PROVE Done(x[2])' /\ RowsAt(x)' = RowsOf(x[2], x[1])'
    BY <1>2 DEF FirmRows
  <2>2. RowsAt(x) = RowsOf(x[2], x[1])
    BY DEF RowsInv, FirmRows
  <2>3. QED  BY <1>2, <1>3, <2>2, DoneKeeps
<1>5. Counted'
  <2>1. ASSUME NEW c PROVE Guesses(c)' = Guesses(c) /\ FirmAs(c)' = FirmAs(c)
    <3>1. \A x \in Firm : Count(x[2])' = Count(x[2])
      BY <1>3, DoneKeeps
    <3>2. QED  BY <1>2, <3>1 DEF Guesses, FirmAs, listVars
  <2>2. QED  BY <2>1 DEF RowsInv, Counted, listVars
<1>6. LastComes'
  BY <1>2 DEF RowsInv, LastComes, listVars
<1>7. QED  BY <1>1, <1>4, <1>5, <1>6 DEF RowsInv

(* A listing n adds the files that are finished to the firm ones and       *)
(* guesses about the others.                                               *)
NewFirm(n) == {<<n, f>> : f \in {g \in Files : Done(g)}}
Guess(n, f) == [listing |-> n, file |-> f, as |-> Count(f)]
NewGuesses(n) == {Guess(n, f) : f \in {g \in Files : ~Done(g)}}

Listing ==
  /\ UNCHANGED <<digest, state, match>> /\ messages > 0
  /\ messages' = messages - 1 /\ listed' = listed + 1
  /\ rows' = rows \cup UNION {RowsOf(f, listed + 1) : f \in Files}
  /\ counts' = [c \in DOMAIN counts |-> counts[c] + Cardinality({f \in Files : Count(f) = c})]
  /\ early' = early \cup NewGuesses(listed + 1)

LEMMA IsListing == ASSUME OnAllFilesFinished PROVE Listing
  BY DEF OnAllFilesFinished, Listing, NewGuesses, Guess, taskVars

LEMMA NewGuessesAre ==
  ASSUME NEW n, NEW c
  PROVE  /\ IsFiniteSet(NewGuesses(n)) /\ \A e \in NewGuesses(n) : e.listing = n
         /\ IsFiniteSet({e \in NewGuesses(n) : e.as = c})
         /\ Cardinality({e \in NewGuesses(n) : e.as = c})
              = Cardinality({f \in Files : ~Done(f) /\ Count(f) = c})
<1> DEFINE U == {f \in Files : ~Done(f)}
           V == {f \in Files : ~Done(f) /\ Count(f) = c}
           new == {e \in NewGuesses(n) : e.as = c}
<1>1. \A f : Guess(n, f).listing = n /\ Guess(n, f).file = f /\ Guess(n, f).as = Count(f)
  BY DEF Guess
<1>2. IsFiniteSet(U) /\ IsFiniteSet(V)
  BY FilesFinite
<1>3. NewGuesses(n) = {Guess(n, f) : f \in U}
  BY DEF NewGuesses
<1>4. IsFiniteSet(NewGuesses(n))
  <2> DEFINE g == [f \in U |-> Guess(n, f)]
  <2>1. g \in [U -> NewGuesses(n)] /\ \A t \in NewGuesses(n) : \E f \in U : g[f] = t
    BY <1>3
  <2>2. \A x, y \in U : g[x] = g[y] => x = y
    BY <1>1
  <2> HIDE DEF g, U
  <2>3. QED  BY <1>2, <2>1, <2>2, SameSize
<1>5. IsFiniteSet(new) /\ Cardinality(new) = Cardinality(V)
  <2> DEFINE g == [f \in V |-> Guess(n, f)]
  <2>1. g \in [V -> new] /\ \A t \in new : \E f \in V : g[f] = t
    BY <1>1, <1>3
  <2>2. \A x, y \in V : g[x] = g[y] => x = y
    BY <1>1
  <2> HIDE DEF g, V, new
  <2>3. QED  BY <1>2, <2>1, <2>2, SameSize
<1>6. QED  BY <1>1, <1>3, <1>4, <1>5

LEMMA NewFirmIs ==
  ASSUME NEW n, NEW c
  PROVE  LET new == {x \in NewFirm(n) : Count(x[2]) = c} IN
         IsFiniteSet(new) /\ Cardinality(new) = Cardinality({f \in Files : Done(f) /\ Count(f) = c})
<1> DEFINE V == {f \in Files : Done(f) /\ Count(f) = c}
           new == {x \in NewFirm(n) : Count(x[2]) = c}
           g == [f \in V |-> <<n, f>>]
<1>1. g \in [V -> new] /\ \A t \in new : \E f \in V : g[f] = t
  BY DEF NewFirm
<1>2. \A x, y \in V : g[x] = g[y] => x = y
  OBVIOUS
<1>3. IsFiniteSet(V)
  BY FilesFinite
<1> HIDE DEF g, V, new
<1>4. IsFiniteSet(new) /\ Cardinality(new) = Cardinality(V)
  BY <1>1, <1>2, <1>3, SameSize
<1>5. QED  BY <1>4 DEF new, V

LEMMA FirmGrows ==
  ASSUME ListTypeOK, Listing PROVE Firm' = Firm \cup NewFirm(listed + 1)
<1> DEFINE n == listed + 1
<1>1. /\ n \in Nat /\ 1..listed' = (1..listed) \cup {n} /\ n \notin 1..listed
      /\ early' = early \cup NewGuesses(n)
      /\ \A e \in early : e.listing \in 1..listed
  BY DEF Listing, ListTypeOK
<1>2. /\ \A e \in NewGuesses(n) : e.listing = n /\ e.file \in Files /\ ~Done(e.file)
      /\ \A f \in Files : ~Done(f) => \E e \in NewGuesses(n) : e.listing = n /\ e.file = f
  <2>1. \A f : Guess(n, f).listing = n /\ Guess(n, f).file = f
    BY DEF Guess
  <2>2. QED  BY <2>1 DEF NewGuesses
<1>3. Firm' = {x \in (1..listed') \X Files : \A e \in early' : <<e.listing, e.file>> # x}
  BY DEF Firm, Files
<1> HIDE DEF n
<1>4. ASSUME NEW k \in 1..listed, NEW f \in Files PROVE <<k, f>> \in Firm' <=> <<k, f>> \in Firm
  <2>1. \A e \in NewGuesses(n) : <<e.listing, e.file>> # <<k, f>>
    BY <1>1, <1>2
  <2>2. QED  BY <1>1, <1>3, <2>1 DEF Firm
<1>5. ASSUME NEW f \in Files PROVE <<n, f>> \in Firm' <=> Done(f)
  <2>1. \A e \in early : <<e.listing, e.file>> # <<n, f>>
    BY <1>1
  <2>2. (\A e \in NewGuesses(n) : <<e.listing, e.file>> # <<n, f>>) <=> Done(f)
    BY <1>2
  <2>3. QED  BY <1>1, <1>3, <2>1, <2>2
<1>6. Firm' \subseteq ((1..listed) \cup {n}) \X Files /\ Firm \subseteq (1..listed) \X Files
  BY <1>1, <1>3 DEF Firm
<1>7. ASSUME NEW A, NEW B, NEW x \in A \X B PROVE \E a \in A, b \in B : x = <<a, b>>
  OBVIOUS
<1>8. \A x \in Firm' : x \in Firm \cup NewFirm(n)
  <2>1. SUFFICES ASSUME NEW x \in Firm' PROVE x \in Firm \cup NewFirm(n)
    OBVIOUS
  <2>2. PICK k \in (1..listed) \cup {n}, f \in Files : x = <<k, f>>
    <3>1. x \in ((1..listed) \cup {n}) \X Files
      BY <1>6, <2>1
    <3>2. PICK A : A = (1..listed) \cup {n}
      OBVIOUS
    <3>3. x \in A \X Files
      BY <3>1, <3>2
    <3>4. \E k \in A, f \in Files : x = <<k, f>>
      BY <1>7, <3>3
    <3>5. QED  BY <3>2, <3>4
  <2>3. QED  BY <1>4, <1>5, <2>1, <2>2 DEF NewFirm
<1>9. \A x \in Firm \cup NewFirm(n) : x \in Firm'
  <2>1. \A x \in Firm : \E k \in 1..listed, f \in Files : x = <<k, f>>
    BY <1>6
  <2>2. QED  BY <1>4, <1>5, <2>1 DEF NewFirm
<1>10. QED  BY <1>8, <1>9 DEF n

LEMMA ListingCounts == ASSUME RowsInv, Listing PROVE Counted'
<1> DEFINE n == listed + 1
<1>0. ListTypeOK /\ Counted /\ n \in Nat /\ n \notin 1..listed
  BY DEF RowsInv, ListTypeOK
<1>1. Firm' = Firm \cup NewFirm(n) /\ early' = early \cup NewGuesses(n)
  BY <1>0, FirmGrows DEF Listing
<1>2. \A f : Count(f)' = Count(f)
  BY DEF Listing, Count, HasError
<1> HIDE DEF n
<1>3. ASSUME NEW c \in Kinds
      PROVE  counts'[c] = Cardinality(Guesses(c)') + Cardinality(FirmAs(c)')
  <2> DEFINE V == {f \in Files : ~Done(f) /\ Count(f) = c}
             W == {f \in Files : Done(f) /\ Count(f) = c}
             newG == {e \in NewGuesses(n) : e.as = c}
             newF == {x \in NewFirm(n) : Count(x[2]) = c}
  <2>1. counts'[c] = counts[c] + Cardinality({f \in Files : Count(f) = c})
    BY <1>0 DEF Listing, ListTypeOK
  <2>2. /\ IsFiniteSet(V) /\ Cardinality(V) \in Nat /\ IsFiniteSet(W) /\ Cardinality(W) \in Nat
    BY FilesFinite
  <2>3. Cardinality({f \in Files : Count(f) = c}) = Cardinality(V) + Cardinality(W)
    <3>1. {f \in Files : Count(f) = c} = V \cup W /\ V \cap W = {}
      OBVIOUS
    <3> HIDE DEF V, W
    <3>2. QED  BY <2>2, <3>1, Together
  <2>4. IsFiniteSet(newG) /\ Cardinality(newG) = Cardinality(V)
    BY NewGuessesAre
  <2>5. IsFiniteSet(newF) /\ Cardinality(newF) = Cardinality(W)
    BY NewFirmIs
  <2>6. Guesses(c)' = Guesses(c) \cup newG /\ Guesses(c) \cap newG = {}
    <3>1. \A e \in newG : e.listing = n
      BY NewGuessesAre
    <3>2. \A e \in early : e.listing # n
      BY <1>0 DEF ListTypeOK
    <3>3. QED  BY <1>1, <3>1, <3>2 DEF Guesses
  <2>7. FirmAs(c)' = FirmAs(c) \cup newF /\ FirmAs(c) \cap newF = {}
    <3>1. \A x \in newF : x[1] = n
      BY DEF NewFirm
    <3>2. \A x \in Firm : x[1] # n
      BY <1>0 DEF Firm
    <3>3. FirmAs(c)' = {x \in Firm' : Count(x[2]) = c}
      BY <1>2 DEF FirmAs
    <3>4. QED  BY <1>1, <3>1, <3>2, <3>3 DEF FirmAs
  <2>8. /\ IsFiniteSet(Guesses(c)) /\ Cardinality(Guesses(c)) \in Nat
        /\ IsFiniteSet(FirmAs(c)) /\ Cardinality(FirmAs(c)) \in Nat
    <3>1. IsFiniteSet(early) /\ Guesses(c) \subseteq early
      BY <1>0 DEF ListTypeOK, Guesses
    <3>2. IsFiniteSet((1..listed) \X Files) /\ FirmAs(c) \subseteq (1..listed) \X Files
      <4>1. IsFiniteSet(1..listed) /\ IsFiniteSet(Files)
        BY <1>0, FS_Interval, FilesFinite DEF ListTypeOK
      <4>2. QED  BY <4>1, FS_Product DEF FirmAs, Firm
    <3>3. QED  BY <3>1, <3>2, FS_Subset, FS_CardinalityType
  <2> HIDE DEF V, W, newG, newF
  <2>9. Cardinality(Guesses(c)') = Cardinality(Guesses(c)) + Cardinality(V)
    BY <2>4, <2>6, <2>8, Together
  <2>10. Cardinality(FirmAs(c)') = Cardinality(FirmAs(c)) + Cardinality(W)
    BY <2>5, <2>7, <2>8, Together
  <2>11. counts[c] = Cardinality(Guesses(c)) + Cardinality(FirmAs(c))
    BY <1>0 DEF Counted
  <2>12. QED  BY <2>1, <2>2, <2>3, <2>8, <2>9, <2>10, <2>11
<1>4. QED  BY <1>3 DEF Counted, Kinds

LEMMA RowOf == ASSUME NEW f, NEW n, NEW row \in RowsOf(f, n) PROVE row.file = f /\ row.listing = n
  BY DEF RowsOf, HashRow, ErrorRow

LEMMA ListingRows == ASSUME RowsInv, Listing PROVE FirmRows'
<1> DEFINE n == listed + 1
           fresh == UNION {RowsOf(f, n) : f \in Files}
<1>0. ListTypeOK /\ n \in Nat /\ n \notin 1..listed
  BY DEF RowsInv, ListTypeOK
<1>1. Firm' = Firm \cup NewFirm(n) /\ rows' = rows \cup fresh
  BY <1>0, FirmGrows DEF Listing
<1>2. /\ \A f : Done(f)' <=> Done(f)
      /\ \A f, k : RowsOf(f, k)' = RowsOf(f, k)
  BY DEF Listing, Done, RowsOf, HasError
<1>3. /\ \A row \in rows : row.listing # n
      /\ \A row \in fresh : row.listing = n
      /\ \A f \in Files : {row \in fresh : row.file = f} = RowsOf(f, n)
  BY <1>0, RowOf DEF ListTypeOK
<1>4. \A x : RowsAt(x)' = {row \in rows \cup fresh : row.listing = x[1] /\ row.file = x[2]}
  BY <1>1 DEF RowsAt
<1> HIDE DEF n, fresh
<1>5. ASSUME NEW x \in Firm PROVE Done(x[2]) /\ RowsAt(x)' = RowsOf(x[2], x[1])
  <2>1. x[1] # n /\ Done(x[2]) /\ RowsAt(x) = RowsOf(x[2], x[1])
    BY <1>0 DEF RowsInv, FirmRows, Firm
  <2>2. RowsAt(x)' = RowsAt(x)
    BY <1>3, <1>4, <2>1 DEF RowsAt
  <2>3. QED  BY <2>1, <2>2
<1>6. ASSUME NEW x \in NewFirm(n) PROVE Done(x[2]) /\ RowsAt(x)' = RowsOf(x[2], x[1])
  <2>1. x[1] = n /\ x[2] \in Files /\ Done(x[2])
    BY DEF NewFirm
  <2>2. RowsAt(x)' = {row \in fresh : row.file = x[2]}
    BY <1>3, <1>4, <2>1
  <2>3. QED  BY <1>3, <2>1, <2>2
<1>7. QED  BY <1>1, <1>2, <1>5, <1>6 DEF FirmRows

LEMMA ListingKeeps == ASSUME RowsInv, Listing PROVE RowsInv'
<1> DEFINE n == listed + 1
<1>0. ListTypeOK /\ n \in Nat /\ n # 0 /\ 1..listed \subseteq 1..n /\ n \in 1..n /\ listed' = n
  BY DEF RowsInv, ListTypeOK, Listing
<1>1. FirmRows' /\ Counted'
  BY ListingRows, ListingCounts
<1>2. ListTypeOK'
  <2>1. messages' \in Nat /\ DOMAIN counts' = Kinds
    BY <1>0 DEF Listing, ListTypeOK
  <2>2. IsFiniteSet(early') /\ \A e \in early' : e.listing \in 1..n
    <3>1. early' = early \cup NewGuesses(n) /\ IsFiniteSet(NewGuesses(n))
          /\ \A e \in NewGuesses(n) : e.listing = n
      BY NewGuessesAre DEF Listing
    <3>2. IsFiniteSet(early) /\ \A e \in early : e.listing \in 1..listed
      BY <1>0 DEF ListTypeOK
    <3> HIDE DEF n
    <3>3. IsFiniteSet(early \cup NewGuesses(n))
      BY <3>1, <3>2, FS_Union
    <3>4. QED  BY <1>0, <3>1, <3>2, <3>3
  <2>3. \A row \in rows' : row.listing \in 1..n
    <3>1. \A row \in rows : row.listing \in 1..listed
      BY <1>0 DEF ListTypeOK
    <3>2. rows' = rows \cup UNION {RowsOf(f, n) : f \in Files}
      BY DEF Listing
    <3> HIDE DEF n
    <3>3. \A row \in UNION {RowsOf(f, n) : f \in Files} : row.listing = n
      BY RowOf
    <3>4. QED  BY <1>0, <3>1, <3>2, <3>3
  <2>4. QED  BY <1>0, <2>1, <2>2, <2>3 DEF ListTypeOK
<1>3. LastComes'
  <2>1. ASSUME AllFilesDone' PROVE {n} \X Files \subseteq Firm'
    <3>1. \A f \in Files : Done(f)
      BY <2>1 DEF AllFilesDone, Done, Listing
    <3>2. {n} \X Files = NewFirm(n)
      BY <3>1 DEF NewFirm
    <3>3. QED  BY <1>0, <3>2, FirmGrows
  <2>2. n > 0
    BY <1>0
  <2> HIDE DEF n
  <2>3. AllFilesDone' => messages' > 0 \/ (listed' > 0 /\ {listed'} \X Files \subseteq Firm')
    BY <1>0, <2>1, <2>2
  <2>4. QED  BY <2>3 DEF LastComes, AllFilesDone, Done, Firm
<1>4. QED  BY <1>1, <1>2, <1>3 DEF RowsInv

LEMMA RowsStep == ASSUME TasksInv, RowsInv, [ResultsNext]_resultVars PROVE RowsInv'
<1>0. messages \in Nat /\ \A g \in Files : Onward(g)
  BY TasksStep DEF RowsInv, ListTypeOK
<1>1. CASE OnAllFilesFinished
  BY <1>1, IsListing, ListingKeeps
<1>2. ASSUME NEW f \in Files, SetError(f) \/ BeginFinish(f) \/ FinishAlgorithm(f) PROVE RowsInv'
  <2>1. UNCHANGED <<listVars, messages>> /\ state'[f] \in {"erred", "finishing"}
    BY <1>2 DEF SetError, BeginFinish, FinishAlgorithm, DialogUnchanged, TasksInv, TasksTypeOK
  <2>2. ~AllFilesDone'
    BY <2>1 DEF AllFilesDone, Done
  <2>3. QED  BY <1>0, <2>1, <2>2, ListStays
<1>3. ASSUME NEW f \in Files, Complete(f) PROVE RowsInv'
  <2>1. /\ UNCHANGED listVars /\ submitted \in 0..FileCount
        /\ messages' = IF \A g \in 1..submitted : g = f \/ Done(g) THEN messages + 1 ELSE messages
        /\ \A g \in Files \ {f} : state'[g] = state[g]
    BY <1>3 DEF Complete, DialogUnchanged, TasksInv, TasksTypeOK
  <2>2. messages' \in Nat
    BY <1>0, <2>1
  <2>3. AllFilesDone' => messages' > 0
    <3>1. SUFFICES ASSUME AllFilesDone' PROVE messages' > 0
      OBVIOUS
    <3>2. \A g \in Files \ {f} : Done(g)
      BY <2>1, <3>1 DEF AllFilesDone, Done
    <3>3. 1..submitted \subseteq Files
      BY <2>1, ResultsAssumption DEF Files
    <3>4. \A g \in 1..submitted : g = f \/ Done(g)
      BY <3>2, <3>3
    <3>5. QED  BY <1>0, <2>1, <3>4
  <2>4. QED  BY <1>0, <2>1, <2>2, <2>3, ListStays
<1>4. CASE \/ ProcessFile \/ OnStatusUpdateTimer \/ Copy
           \/ \E text \in Given : TypeText(text)
           \/ \E k \in {"strict", "autoformat"} : ChangeSettings(k)
           \/ UNCHANGED resultVars
  <2>1. UNCHANGED <<listVars, messages, state>>
    BY <1>4 DEF ProcessFile, OnStatusUpdateTimer, Copy, TypeText, ChangeSettings, DialogUnchanged,
                taskVars, resultVars
  <2>2. AllFilesDone' => AllFilesDone
    BY <2>1 DEF AllFilesDone, Done
  <2>3. QED  BY <1>0, <2>1, <2>2, ListStays
<1>5. QED  BY <1>1, <1>2, <1>3, <1>4 DEF ResultsNext, ListNext, BoxNext, TaskStep

-----------------------------------------------------------------------------
(* The rows of a finished file that have one of some colours.              *)
Picked(f, n, cs) == {row \in RowsOf(f, n) : HashColorTypeForFile(f, row.alg) \in cs}

(* The match of a file that was hashed is an algorithm it was hashed with. *)
LEMMA MatchIs ==
  ASSUME TasksInv, NEW f \in Files, state[f] = "hashed"
  PROVE  match[f] \in HashedAlgs \cup {None, Mismatch}
<1>1. /\ BestOf(digest[f], expected[f], AlgCount, match[f]) /\ expected[f] \in Expectations
      /\ \A a \in Algs : digest[f][a] # NoHash => a \in HashedAlgs
  BY DEF TasksInv, TasksTypeOK, Worked, Matched, Computing
<1>2. CASE Hits(digest[f], expected[f], AlgCount) # {}
  <2>1. match[f] \in Algs /\ digest[f][match[f]] \in expected[f]
    BY <1>1, <1>2 DEF BestOf, Hits
  <2>2. expected[f] \subseteq Hashes
    BY <1>1, ResultsAssumption
  <2>3. digest[f][match[f]] # NoHash
    BY <2>1, <2>2, ResultsAssumption
  <2>4. QED  BY <1>1, <2>1, <2>3
<1>3. CASE Hits(digest[f], expected[f], AlgCount) = {}
  BY <1>1, <1>3 DEF BestOf
<1>4. QED  BY <1>2, <1>3

LEMMA ManyRows ==
  ASSUME NEW f, NEW n
  PROVE  /\ IsFiniteSet(HashedAlgs)
         /\ IsFiniteSet({HashRow(f, a, n) : a \in HashedAlgs})
         /\ Cardinality({HashRow(f, a, n) : a \in HashedAlgs}) = Cardinality(HashedAlgs)
         /\ HashedAlgs # {} => Cardinality(HashedAlgs) # 0
<1> DEFINE T == {HashRow(f, a, n) : a \in HashedAlgs}
           g == [a \in HashedAlgs |-> HashRow(f, a, n)]
<1>1. IsFiniteSet(HashedAlgs)
  <2>1. IsFiniteSet(0..(AlgCount - 1))
    BY ResultsAssumption, FS_Interval
  <2>2. HashedAlgs \in SUBSET (0..(AlgCount - 1))
    BY ResultsAssumption DEF Algs
  <2>3. QED  BY <2>1, <2>2, FS_Subset
<1>2. g \in [HashedAlgs -> T] /\ \A x \in T : \E a \in HashedAlgs : g[a] = x
  OBVIOUS
<1>3. \A a, b \in HashedAlgs : g[a] = g[b] => a = b
  <2>1. \A a : HashRow(f, a, n).alg = a
    BY DEF HashRow
  <2>2. QED  BY <2>1
<1> HIDE DEF T, g
<1>4. IsFiniteSet(T) /\ Cardinality(T) = Cardinality(HashedAlgs)
  BY <1>1, <1>2, <1>3, SameSize
<1>5. QED  BY <1>1, <1>4, FS_EmptySet DEF T

(* What a file counts as is what its rows show.                            *)
LEMMA CountShown ==
  ASSUME TasksInv, NEW f \in Files, Done(f), NEW n
  PROVE  /\ Count(f) = "match" <=> Cardinality(Picked(f, n, {"Match", "Insecure"})) = 1
         /\ Count(f) = "error" <=> Picked(f, n, {"Error"}) # {}
         /\ HashedAlgs # {} =>
              /\ Count(f) = "mismatch" <=> Cardinality(Picked(f, n, {"Mismatch"})) = Cardinality(HashedAlgs)
              /\ Count(f) = "unknown" <=> Cardinality(Picked(f, n, {"Unknown"})) = Cardinality(HashedAlgs)
<1>1. /\ Cardinality({}) = 0 /\ 0 # 1 /\ \A x : Cardinality({x}) = 1
      /\ HashedAlgs # {} => Cardinality(HashedAlgs) # 0
  BY FS_EmptySet, FS_Singleton, ManyRows
<1>2. CASE state[f] = "failed"
  <2>0. HasError(f)
    BY <1>2 DEF HasError
  <2>1. \A a : HashColorTypeForFile(f, a) = "Error"
    BY <2>0 DEF HashColorTypeForFile
  <2>2. RowsOf(f, n) = {ErrorRow(f, n)} /\ Count(f) = "error"
    BY <2>0 DEF RowsOf, Count
  <2>3. /\ Picked(f, n, {"Match", "Insecure"}) = {} /\ Picked(f, n, {"Mismatch"}) = {}
        /\ Picked(f, n, {"Unknown"}) = {} /\ Picked(f, n, {"Error"}) = {ErrorRow(f, n)}
    BY <2>1, <2>2 DEF Picked
  <2>4. QED  BY <1>1, <2>2, <2>3
<1>3. CASE state[f] = "hashed"
  <2> DEFINE m == match[f]
  <2>0. ~HasError(f) /\ state[f] = "hashed"
    BY <1>3 DEF HasError
  <2>1. m \in HashedAlgs \cup {None, Mismatch}
    BY <2>0, MatchIs
  <2>2. None # Mismatch /\ None \notin HashedAlgs /\ Mismatch \notin HashedAlgs
    BY ResultsAssumption DEF None, Mismatch, Algs
  <2>3. /\ \A row \in RowsOf(f, n) : row.alg \in HashedAlgs /\ row = HashRow(f, row.alg, n)
        /\ \A a \in HashedAlgs : HashRow(f, a, n) \in RowsOf(f, n) /\ HashRow(f, a, n).alg = a
    <3>1. RowsOf(f, n) = {HashRow(f, a, n) : a \in HashedAlgs}
      <4>1. \A a \in Algs : digest[f][a] = NoHash <=> ~(a < AlgCount /\ a \in HashedAlgs)
        BY <2>0 DEF TasksInv, Worked, Computing
      <4>2. HashedAlgs \subseteq Algs /\ \A a \in Algs : a < AlgCount
        BY ResultsAssumption DEF Algs
      <4>3. {b \in Algs : digest[f][b] # NoHash} = HashedAlgs
        BY <4>1, <4>2
      <4>4. QED  BY <2>0, <4>3 DEF RowsOf
    <3>2. \A a : HashRow(f, a, n).alg = a
      BY DEF HashRow
    <3>3. QED  BY <3>1, <3>2
  <2>4. CASE m = None
    <3>1. \A a : HashColorTypeForFile(f, a) = "Unknown"
      BY <2>0, <2>2, <2>4 DEF HashColorTypeForFile
    <3>2. /\ Picked(f, n, {"Match", "Insecure"}) = {} /\ Picked(f, n, {"Mismatch"}) = {}
          /\ Picked(f, n, {"Error"}) = {}
          /\ Picked(f, n, {"Unknown"}) = {HashRow(f, a, n) : a \in HashedAlgs}
      BY <2>3, <3>1 DEF Picked
    <3>3. Count(f) = "unknown"
      BY <2>0, <2>2, <2>4 DEF Count
    <3>4. Cardinality(Picked(f, n, {"Unknown"})) = Cardinality(HashedAlgs)
      BY <3>2, ManyRows
    <3>5. QED  BY <1>1, <3>2, <3>3, <3>4
  <2>5. CASE m = Mismatch
    <3>1. \A a \in HashedAlgs : HashColorTypeForFile(f, a) = "Mismatch"
      BY <2>0, <2>2, <2>5 DEF HashColorTypeForFile
    <3>2. /\ Picked(f, n, {"Match", "Insecure"}) = {} /\ Picked(f, n, {"Error"}) = {}
          /\ Picked(f, n, {"Unknown"}) = {}
          /\ Picked(f, n, {"Mismatch"}) = {HashRow(f, a, n) : a \in HashedAlgs}
      BY <2>3, <3>1 DEF Picked
    <3>3. Count(f) = "mismatch"
      BY <2>0, <2>2, <2>5 DEF Count
    <3>4. Cardinality(Picked(f, n, {"Mismatch"})) = Cardinality(HashedAlgs)
      BY <3>2, ManyRows
    <3>5. QED  BY <1>1, <3>2, <3>3, <3>4
  <2>6. CASE m \in HashedAlgs
    <3>1. \A a : HashColorTypeForFile(f, a) = IF a = m THEN IF a \in Secure THEN "Match" ELSE "Insecure"
                                              ELSE "Unknown"
      BY <2>0, <2>2, <2>6 DEF HashColorTypeForFile
    <3>2. /\ Picked(f, n, {"Match", "Insecure"}) = {HashRow(f, m, n)} /\ Picked(f, n, {"Error"}) = {}
          /\ Picked(f, n, {"Mismatch"}) = {}
          /\ Picked(f, n, {"Unknown"}) = {HashRow(f, a, n) : a \in HashedAlgs \ {m}}
      BY <2>3, <2>6, <3>1 DEF Picked
    <3>3. Cardinality(Picked(f, n, {"Unknown"})) # Cardinality(HashedAlgs)
      <4> DEFINE T == {HashRow(f, a, n) : a \in HashedAlgs}
                 U == {HashRow(f, a, n) : a \in HashedAlgs \ {m}}
      <4>1. IsFiniteSet(T) /\ Cardinality(T) = Cardinality(HashedAlgs) /\ Cardinality(T) \in Nat
        BY ManyRows, FS_CardinalityType
      <4>2. HashRow(f, m, n) \in T /\ U = T \ {HashRow(f, m, n)}
        BY <2>3, <2>6
      <4> HIDE DEF T, U, m
      <4>3. Cardinality(U) = Cardinality(T) - 1
        BY <4>1, <4>2, FS_RemoveElement
      <4>4. QED  BY <3>2, <4>1, <4>3 DEF T, U
    <3>4. Count(f) = "match"
      BY <2>0, <2>2, <2>6 DEF Count
    <3>5. QED  BY <1>1, <3>2, <3>3, <3>4
  <2>7. QED  BY <2>1, <2>4, <2>5, <2>6
<1>4. QED  BY <1>2, <1>3 DEF Done

(* For any number of files and algorithms, any results and any listings,   *)
(* early, late or repeated: what FileFinished (MainDialog.cpp) counts      *)
(* beyond what it took unfinished files for is what the rows and their     *)
(* colours show (HashColorTypeForFile), and the last listing is of         *)
(* finished files.                                                         *)
THEOREM RowsAgreeWithCountsAlways == ResultsSpec => []RowsAgreeWithCounts
<1>1. ASSUME TasksInv, RowsInv PROVE RowsAgreeWithCounts
  <2> DEFINE Coloured(x, cs) == {row \in rows : /\ row.listing = x[1] /\ row.file = x[2]
                                                /\ HashColorTypeForFile(x[2], row.alg) \in cs}
             Wholly(c) == {x \in Firm : Cardinality(Coloured(x, {c})) = Cardinality(HashedAlgs)}
  <2>1. ASSUME NEW x \in Firm
        PROVE  /\ x[2] \in Files /\ Done(x[2])
               /\ \A cs : Coloured(x, cs) = Picked(x[2], x[1], cs)
    <3>1. x[2] \in Files /\ Done(x[2]) /\ RowsAt(x) = RowsOf(x[2], x[1])
      BY <1>1 DEF RowsInv, FirmRows, Firm
    <3>2. \A cs : Coloured(x, cs) = {row \in RowsAt(x) : HashColorTypeForFile(x[2], row.alg) \in cs}
      BY DEF RowsAt
    <3>3. QED  BY <3>1, <3>2 DEF Picked
  <2> HIDE DEF Coloured
  <2>2. {x \in Firm : Cardinality(Coloured(x, {"Match", "Insecure"})) = 1} = FirmAs("match")
    <3>1. \A x \in Firm : Count(x[2]) = "match" <=> Cardinality(Coloured(x, {"Match", "Insecure"})) = 1
      BY <1>1, <2>1, CountShown
    <3>2. QED  BY <3>1 DEF FirmAs
  <2>3. {x \in Firm : Coloured(x, {"Error"}) # {}} = FirmAs("error")
    <3>1. \A x \in Firm : Count(x[2]) = "error" <=> Coloured(x, {"Error"}) # {}
      BY <1>1, <2>1, CountShown
    <3>2. QED  BY <3>1 DEF FirmAs
  <2>4. HashedAlgs # {} => Wholly("Mismatch") = FirmAs("mismatch") /\ Wholly("Unknown") = FirmAs("unknown")
    <3>1. SUFFICES ASSUME HashedAlgs # {}
                   PROVE  Wholly("Mismatch") = FirmAs("mismatch") /\ Wholly("Unknown") = FirmAs("unknown")
      OBVIOUS
    <3>2. \A x \in Firm : /\ Count(x[2]) = "mismatch"
                               <=> Cardinality(Coloured(x, {"Mismatch"})) = Cardinality(HashedAlgs)
                          /\ Count(x[2]) = "unknown"
                               <=> Cardinality(Coloured(x, {"Unknown"})) = Cardinality(HashedAlgs)
      BY <1>1, <2>1, <3>1, CountShown
    <3>3. QED  BY <3>2 DEF FirmAs
  <2>5. /\ counts.match = Cardinality(Guesses("match")) + Cardinality(FirmAs("match"))
        /\ counts.error = Cardinality(Guesses("error")) + Cardinality(FirmAs("error"))
        /\ counts.mismatch = Cardinality(Guesses("mismatch")) + Cardinality(FirmAs("mismatch"))
        /\ counts.unknown = Cardinality(Guesses("unknown")) + Cardinality(FirmAs("unknown"))
    BY <1>1 DEF RowsInv, Counted, Kinds
  <2>6. AllFilesDone /\ messages = 0 => finished /\ {listed} \X Files \subseteq Firm
    BY <1>1 DEF RowsInv, ListTypeOK, LastComes, finished
  <2> HIDE DEF Wholly
  <2>7. /\ counts.match = Cardinality(Guesses("match"))
             + Cardinality({x \in Firm : Cardinality(Coloured(x, {"Match", "Insecure"})) = 1})
        /\ counts.error = Cardinality(Guesses("error"))
             + Cardinality({x \in Firm : Coloured(x, {"Error"}) # {}})
        /\ HashedAlgs # {} =>
             /\ counts.mismatch = Cardinality(Guesses("mismatch")) + Cardinality(Wholly("Mismatch"))
             /\ counts.unknown = Cardinality(Guesses("unknown")) + Cardinality(Wholly("Unknown"))
    BY <2>2, <2>3, <2>4, <2>5
  <2>8. QED  BY <2>6, <2>7 DEF RowsAgreeWithCounts, Firm, Guesses, Coloured, Wholly
<1>2. QED  BY <1>1, TasksAlways, RowsInitial, RowsStep, PTL DEF ResultsSpec

-----------------------------------------------------------------------------
(* The pieces of a body, as far as the reply was read.                     *)
Pieces(n) == [i \in 1..n |-> i]

(* What DoHTTPS has of the reply at each of its calls.                     *)
Read ==
  /\ call \in {"idle", "session", "connection", "request", "send", "receive", "headers",
               "available", "read", "closing", "answered", "crashed"}
  /\ call \in {"idle", "session", "connection", "request", "send", "receive", "headers"} =>
       sent = 0 /\ body = <<>>
  /\ call \in {"available", "read"} => sent \in Nat /\ body = Pieces(sent)
  /\ call \in {"headers", "available", "read"} => reply.pieces \in Nat
  /\ call \in {"available", "read"} => sent <= reply.pieces
  /\ call = "read" => available \in 1..(reply.pieces - sent)
  /\ call = "answered" => handles = <<>>

(* What it returns.                                                        *)
Answered ==
  call \in {"closing", "answered"} =>
    IF result.error = 0 THEN Whole(result.body) /\ result.code = reply.code
                        ELSE result.code \in 2..8 /\ result.body = <<>>

ReplyInv == Read /\ Answered

LEMMA MorePieces ==
  ASSUME NEW m \in Nat, NEW n \in Nat
  PROVE  Pieces(m) \o [i \in 1..n |-> m + i] = Pieces(m + n)
<1> DEFINE more == [i \in 1..n |-> m + i]
           both == Pieces(m) \o more
<1>1. Pieces(m) \in Seq(Nat) /\ Len(Pieces(m)) = m /\ more \in Seq(Nat) /\ Len(more) = n
  BY DEF Pieces
<1>2. both \in Seq(Nat) /\ Len(both) = m + n
  BY <1>1
<1>3. \A i \in 1..(m + n) : both[i] = i
  BY <1>1 DEF Pieces
<1>4. QED  BY <1>2, <1>3 DEF Pieces

(* The calls follow each other as they are listed.                         *)
LEMMA StepIs == \A n \in 1..7 : call = Steps[n] => Step = n
<1>1. DOMAIN Steps = 1..7 /\ \A m, n \in 1..7 : Steps[m] = Steps[n] => m = n
  BY DEF Steps
<1>2. QED  BY <1>1 DEF Step

LEMMA ReplyStep == ASSUME ReplyInv, [QueryNext]_queryVars PROVE ReplyInv'
<1>1. CASE \/ OnVTClicked \/ CheckForUpdates \/ (\E a \in Later : EnableLater(a))
  <2>1. call = "idle" /\ call' \in {"idle", "session"} /\ UNCHANGED httpVars
    BY <1>1 DEF OnVTClicked, CheckForUpdates, EnableLater, Begin
  <2>2. QED  BY <2>1 DEF ReplyInv, Read, Answered, httpVars
<1>2. CASE OpenHandle
  <2>1. /\ call \in {"session", "connection", "request"}
        /\ call' \in {"connection", "request", "send"}
        /\ UNCHANGED <<reply, sent, available, body, result>>
    <3>1. Steps[1] = "session" /\ Steps[2] = "connection" /\ Steps[3] = "request" /\ Steps[4] = "send"
      BY DEF Steps
    <3>2. \E n \in 1..3 : call = Steps[n] /\ call' = Steps[n + 1]
      BY <1>2, <3>1, StepIs DEF OpenHandle
    <3>3. QED  BY <1>2, <3>1, <3>2 DEF OpenHandle
  <2>2. QED  BY <2>1 DEF ReplyInv, Read, Answered
<1>3. CASE Exchange
  <2>1. Steps[4] = "send" /\ Steps[5] = "receive" /\ Steps[6] = "headers" /\ Steps[7] = "available"
    BY DEF Steps
  <2>2. PICK n \in 4..6 : call = Steps[n] /\ call' = Steps[n + 1]
    BY <1>3, <2>1, StepIs DEF Exchange
  <2>3. /\ UNCHANGED <<handles, sent, available, body, result>>
        /\ reply' \in IF call = "receive" THEN Replies ELSE {reply}
    BY <1>3 DEF Exchange
  <2>4. <<>> = Pieces(0)
    BY DEF Pieces
  <2>5. CASE n = 4
    BY <2>1, <2>2, <2>5, <2>3 DEF ReplyInv, Read, Answered
  <2>6. CASE n = 5
    BY <2>1, <2>2, <2>6, <2>3, QueryAssumption DEF ReplyInv, Read, Answered
  <2>7. CASE n = 6
    BY <2>1, <2>2, <2>7, <2>3, <2>4 DEF ReplyInv, Read, Answered
  <2>8. QED  BY <2>5, <2>6, <2>7
<1>4. CASE QueryDataAvailable
  <2>1. CASE sent = reply.pieces
    <3>1. /\ call' = "closing" /\ reply' = reply
          /\ result' = [error |-> 0, code |-> reply.code, body |-> body]
      BY <1>4, <2>1 DEF QueryDataAvailable, Leave
    <3>2. body = Pieces(reply.pieces)
      BY <1>4, <2>1 DEF QueryDataAvailable, ReplyInv, Read
    <3>3. QED  BY <3>1, <3>2 DEF ReplyInv, Read, Answered, Whole, Pieces
  <2>2. CASE sent # reply.pieces
    BY <1>4, <2>2 DEF QueryDataAvailable, ReplyInv, Read, Answered
  <2>3. QED  BY <2>1, <2>2
<1>5. CASE ReadData
  <2>1. PICK n \in 1..available : body' = Received(n) /\ sent' = sent + n
    BY <1>5 DEF ReadData
  <2>2. call = "read" /\ call' = "available" /\ UNCHANGED <<reply, available, handles, result>>
    BY <1>5 DEF ReadData
  <2>3. /\ sent \in Nat /\ body = Pieces(sent) /\ reply.pieces \in Nat
        /\ available \in 1..(reply.pieces - sent)
    BY <2>2 DEF ReplyInv, Read
  <2>4. n \in Nat /\ sent + n \in Nat /\ sent + n <= reply.pieces
    BY <2>1, <2>3
  <2>5. body' = Pieces(sent + n)
    BY <2>1, <2>3, <2>4, MorePieces DEF Received
  <2>6. QED  BY <2>1, <2>2, <2>3, <2>4, <2>5 DEF ReplyInv, Read, Answered
<1>6. CASE Fails
  <2>1. \/ call = "read" /\ result' = [error |-> 1, code |-> 8, body |-> <<>>]
        \/ \E n \in 1..7 : result' = [error |-> 1, code |-> n + 1, body |-> <<>>]
    <3>1. call \in ToSet(Steps) => \E n \in 1..7 : call = Steps[n]
      BY DEF ToSet, Steps
    <3>2. Steps[1] # "read" /\ Steps[2] # "read" /\ Steps[3] # "read" /\ Steps[4] # "read"
          /\ Steps[5] # "read" /\ Steps[6] # "read" /\ Steps[7] # "read"
      BY DEF Steps
    <3>3. QED  BY <1>6, <3>1, <3>2, StepIs DEF Fails, Leave
  <2>2. call' = "closing" /\ result'.error = 1 /\ result'.body = <<>> /\ result'.code \in 2..8
    BY <1>6, <2>1 DEF Fails, Leave
  <2>3. QED  BY <2>2 DEF ReplyInv, Read, Answered
<1>7. CASE CloseHandle
  BY <1>7 DEF CloseHandle, ReplyInv, Read, Answered, Whole
<1>8. CASE (\E form \in {"items", "version"} : Throws(form)) \/ UseReply \/ ShowVersion
  <2>1. \/ call' = "idle" /\ sent' = 0 /\ body' = <<>>
        \/ call' = "crashed"
    BY <1>8 DEF Throws, UseReply, ShowVersion, Return
  <2>2. QED  BY <2>1 DEF ReplyInv, Read, Answered
<1>9. CASE (\E f \in ToSet(QueryFiles) : FileFails(f) \/ Finish(f)) \/ ListFiles \/ UNCHANGED queryVars
  <2>1. UNCHANGED <<httpVars, call>>
    BY <1>9 DEF FileFails, Finish, ListFiles, queryVars
  <2>2. QED  BY <2>1 DEF httpVars, ReplyInv, Read, Answered, Whole
<1>10. QED
  BY <1>1, <1>2, <1>3, <1>4, <1>5, <1>6, <1>7, <1>8, <1>9 DEF QueryNext

(* DoHTTPS reports success only with the whole body and the status sent,   *)
(* else the call that failed, and it has closed every handle.              *)
THEOREM ReplyWholeAlways == QuerySpec => []ReplyWhole
<1>1. QueryInit => ReplyInv
  BY DEF QueryInit, ReplyInv, Read, Answered
<1>2. ReplyInv => ReplyWhole
  BY DEF ReplyInv, Read, Answered, ReplyWhole
<1>3. QED  BY <1>1, <1>2, ReplyStep, PTL DEF QuerySpec

-----------------------------------------------------------------------------
(* The map of a reply after each of its items.                             *)
MapStep(g, items, n) == IF n = 0 THEN <<>> ELSE ResultMap(g[n - 1], items[n])
Maps(items) == CHOOSE g : g = [n \in 0..Len(items) |-> MapStep(g, items, n)]

LEMMA MapOfIs == \A items : MapOf(items) = Maps(items)
  BY DEF MapOf, Maps, MapStep

LEMMA MapUnfolds ==
  ASSUME NEW items, Len(items) \in Nat
  PROVE  \A n \in 0..Len(items) : MapOf(items)[n] = MapStep(MapOf(items), items, n)
<1> DEFINE N == Len(items)
           Right(m, g) == \A k \in 0..N : k <= m => g[k] = MapStep(g, items, k)
           Good == {m \in Nat : \E g : Right(m, g)}
<1>0. N \in Nat
  OBVIOUS
<1> HIDE DEF N
<1>1. 0 \in Good
  <2> DEFINE g == [k \in 0..N |-> <<>>]
  <2>1. Right(0, g)
    BY <1>0 DEF MapStep
  <2>2. QED  BY <2>1
<1>2. ASSUME NEW m \in Nat, m \in Good PROVE m + 1 \in Good
  <2>1. PICK g : Right(m, g)
    BY <1>2
  <2> DEFINE h == [k \in 0..N |-> MapStep(g, items, k)]
  <2>2. ASSUME NEW k \in 0..N, k <= m + 1 PROVE h[k] = MapStep(h, items, k)
    <3>1. CASE k = 0
      BY <3>1 DEF MapStep
    <3>2. CASE k # 0
      <4>1. k - 1 \in 0..N /\ k - 1 <= m
        BY <1>0, <2>2, <3>2
      <4>2. h[k - 1] = g[k - 1]
        BY <2>1, <4>1
      <4>3. QED  BY <4>2 DEF MapStep
    <3>3. QED  BY <3>1, <3>2
  <2>3. Right(m + 1, h)
    BY <2>2
  <2> HIDE DEF h, Right
  <2>4. QED  BY <2>3
<1>3. Nat \subseteq Good
  <2> HIDE DEF Good
  <2>1. QED  BY <1>1, <1>2, NumberInduction
<1>4. PICK g : Right(N, g)
  BY <1>0, <1>3
<1> DEFINE h == [k \in 0..N |-> g[k]]
<1>5. \A k \in 0..N : h[k] = MapStep(h, items, k)
  BY <1>0, <1>4 DEF MapStep
<1>6. h = [k \in 0..N |-> MapStep(h, items, k)]
  BY <1>5
<1> HIDE DEF h
<1> DEFINE t == Maps(items)
<1>7. t = [k \in 0..N |-> MapStep(t, items, k)]
  BY <1>6 DEF Maps, N
<1> HIDE DEF t
<1>8. \A k \in 0..N : t[k] = MapStep(t, items, k)
  BY <1>7
<1>9. QED  BY <1>8, MapOfIs DEF t, N

(* Each result is that of the last of the first n items about its digest.  *)
LastSaid(map, items, n) ==
  /\ "odd" \notin DOMAIN map
  /\ \A c \in DOMAIN map : \E k \in 1..n :
       /\ items[k] = [content |-> c, found |-> map[c]]
       /\ \A m \in 1..n : m > k => items[m].content # c

LEMMA MapMeans ==
  ASSUME NEW items, Len(items) \in Nat, \A k \in 1..Len(items) : IsItem(items[k])
  PROVE  LastSaid(MapOf(items)[Len(items)], items, Len(items))
<1> DEFINE map == MapOf(items)
           Good == {n \in Nat : n <= Len(items) => LastSaid(map[n], items, n)}
<1>0. \A n \in 0..Len(items) : map[n] = MapStep(map, items, n)
  BY MapUnfolds
<1> HIDE DEF map
<1>1. 0 \in Good
  <2>0. 0 \in 0..Len(items)
    OBVIOUS
  <2>1. map[0] = <<>>
    BY <1>0, <2>0 DEF MapStep
  <2>2. DOMAIN map[0] = {}
    BY <2>1
  <2>3. QED  BY <2>2 DEF LastSaid
<1>2. ASSUME NEW n \in Nat, n \in Good PROVE n + 1 \in Good
  <2> SUFFICES ASSUME n + 1 <= Len(items) PROVE LastSaid(map[n + 1], items, n + 1)
    OBVIOUS
  <2> DEFINE old == map[n]
             new == map[n + 1]
             item == items[n + 1]
  <2>1. LastSaid(old, items, n)
    BY <1>2
  <2>2. n + 1 \in 0..Len(items) /\ n + 1 \in 1..Len(items) /\ (n + 1) - 1 = n /\ n + 1 # 0
    OBVIOUS
  <2>3. new = ResultMap(old, item)
    BY <1>0, <2>2 DEF MapStep
  <2>4. item = [content |-> item.content, found |-> item.found]
    BY <2>2 DEF IsItem
  <2>5. \A k \in 1..n : k \in 1..(n + 1) /\ n + 1 > k
    OBVIOUS
  <2>6. \A m \in 1..(n + 1) : m \in 1..n \/ m = n + 1
    OBVIOUS
  <2> HIDE DEF old, new
  <2>7. CASE item.content = "odd"
    <3>1. new = old
      BY <2>3, <2>7 DEF ResultMap
    <3>2. SUFFICES ASSUME NEW c \in DOMAIN old
                   PROVE  \E k \in 1..(n + 1) :
                            /\ items[k] = [content |-> c, found |-> old[c]]
                            /\ \A m \in 1..(n + 1) : m > k => items[m].content # c
      BY <2>1, <3>1 DEF LastSaid, new
    <3>3. PICK k \in 1..n : /\ items[k] = [content |-> c, found |-> old[c]]
                            /\ \A m \in 1..n : m > k => items[m].content # c
      BY <2>1 DEF LastSaid
    <3>4. c # "odd"
      BY <2>1 DEF LastSaid
    <3>5. QED  BY <2>5, <2>6, <2>7, <3>3, <3>4
  <2>8. CASE item.content # "odd"
    <3>1. /\ DOMAIN new = DOMAIN old \cup {item.content}
          /\ new[item.content] = item.found
          /\ \A c \in DOMAIN old : c # item.content => new[c] = old[c]
      BY <2>3, <2>8 DEF ResultMap
    <3>2. SUFFICES ASSUME NEW c \in DOMAIN new
                   PROVE  \E k \in 1..(n + 1) :
                            /\ items[k] = [content |-> c, found |-> new[c]]
                            /\ \A m \in 1..(n + 1) : m > k => items[m].content # c
      BY <2>1, <2>8, <3>1 DEF LastSaid, new
    <3>3. CASE c = item.content
      <4>1. items[n + 1] = [content |-> c, found |-> new[c]]
        BY <2>4, <3>1, <3>3
      <4>2. n + 1 \in 1..(n + 1) /\ \A m \in 1..(n + 1) : ~(m > n + 1)
        OBVIOUS
      <4>3. QED  BY <4>1, <4>2
    <3>4. CASE c # item.content
      <4>1. c \in DOMAIN old /\ new[c] = old[c]
        BY <3>1, <3>4
      <4>2. PICK k \in 1..n : /\ items[k] = [content |-> c, found |-> old[c]]
                              /\ \A m \in 1..n : m > k => items[m].content # c
        BY <2>1, <4>1 DEF LastSaid
      <4>3. QED  BY <2>5, <2>6, <3>4, <4>1, <4>2
    <3>5. QED  BY <3>3, <3>4
  <2>9. QED  BY <2>7, <2>8
<1>3. Nat \subseteq Good
  <2> HIDE DEF Good
  <2>1. QED  BY <1>1, <1>2, NumberInduction
<1>4. Len(items) \in Good /\ Len(items) <= Len(items)
  BY <1>3
<1>5. QED  BY <1>4 DEF map

(* Each file without an error is sent once.                                *)
LEMMA SentMeans ==
  /\ Len(Sent) \in Nat /\ DOMAIN Sent = 1..Len(Sent)
  /\ \A i \in DOMAIN Sent : Sent[i] \notin broken
  /\ \A i, j \in DOMAIN Sent : i # j => Sent[i] # Sent[j]
<1> DEFINE places == {i \in DOMAIN QueryFiles : QueryFiles[i] \notin broken}
           S == ToSet(QueryFiles)
           N == Len(QueryFiles)
<1>1. QueryFiles \in Seq(S) /\ DOMAIN QueryFiles = 1..N /\ N \in 0..N /\ N \in Nat
  BY QueryAssumption
<1>2. Sent = Collected(QueryFiles, places)[N]
  BY DEF Sent, Selected
<1> HIDE DEF S, places
<1>3. Sent \in Seq(S) /\ TakenFrom(Sent, QueryFiles, places, N)
  BY <1>1, <1>2, CollectedMeans
<1>4. Len(Sent) \in Nat /\ DOMAIN Sent = 1..Len(Sent)
  BY <1>3
<1>5. PICK at \in [1..Len(Sent) -> places \cap 1..N] :
        /\ \A i \in 1..Len(Sent) : Sent[i] = QueryFiles[at[i]]
        /\ \A i, j \in 1..Len(Sent) : i < j => at[i] < at[j]
  BY <1>3 DEF TakenFrom
<1>6. ASSUME NEW i \in 1..Len(Sent)
      PROVE  at[i] \in 1..N /\ Sent[i] = QueryFiles[at[i]] /\ Sent[i] \notin broken
  BY <1>5 DEF places
<1>7. ASSUME NEW i \in 1..Len(Sent), NEW j \in 1..Len(Sent), i # j PROVE Sent[i] # Sent[j]
  <2>1. i < j \/ j < i
    BY <1>4, <1>7
  <2>2. at[i] # at[j] /\ at[i] \in DOMAIN QueryFiles /\ at[j] \in DOMAIN QueryFiles
    BY <1>1, <1>5, <1>6, <2>1
  <2>3. QED  BY <1>6, <2>2, QueryAssumption
<1>8. QED  BY <1>4, <1>6, <1>7

(* A sequence, as a function from its places.                              *)
IsSeq(s) == Len(s) \in Nat /\ DOMAIN s = 1..Len(s) /\ s \in Seq({s[i] : i \in 1..Len(s)})

(* While VirusTotal is asked, there was consent, the button has not yet    *)
(* been disabled, and each file is asked about once; and there are fewer   *)
(* answers than listings while the button is enabled.                      *)
AskedOnce ==
  /\ Len(asked) \in Nat /\ DOMAIN asked = 1..Len(asked)
  /\ \A i, j \in DOMAIN asked : i # j => asked[i].file # asked[j].file

Asking ==
  /\ listings \in Nat /\ answers \in Nat
  /\ button => allowed /\ answers < listings
  /\ call # "idle" /\ purpose = "vt" => button /\ consent /\ AskedOnce
  /\ reply \in Replies \cup {NoReply}
  /\ IsSeq(vtrows)
AskInv == Asking /\ VTRowsTrue

LEMMA AskedAre == ASSUME NEW a, asked' = Asked(a) PROVE AskedOnce'
<1> DEFINE N == Len(Sent)
           sent1 == [i \in 1..N |-> [file |-> Sent[i], digest |-> HashResult(Sent[i], a)]]
           T == {sent1[i] : i \in 1..N}
<1>1. N \in Nat /\ DOMAIN Sent = 1..N
  BY SentMeans
<1>2. asked' = sent1
  BY <1>1 DEF Asked
<1>3. \A i \in 1..N : asked'[i].file = Sent[i]
  BY <1>2
<1>4. asked' \in [1..N -> T] /\ DOMAIN asked' = 1..N
  BY <1>2
<1> HIDE DEF T, N, sent1
<1>5. Len(asked') = N
  BY <1>1, <1>4
<1>6. QED  BY <1>1, <1>3, <1>4, <1>5, SentMeans DEF AskedOnce

(* What is true of a row, given what is finished.                          *)
RowTrue(row, n, finishedFiles) ==
  /\ row.answer \in 1..n
  /\ row.digest # Nothing => row.file \in finishedFiles /\ row.digest[2] = Content[row.file]
  /\ \E k \in DOMAIN row.items :
       /\ row.items[k] = [content |-> Of(row.digest), found |-> row.found]
       /\ \A m \in DOMAIN row.items : m > k => row.items[m].content # row.items[k].content

LEMMA RowsAre ==
  VTRowsTrue <=>
    /\ vtrows # <<>> => consent /\ allowed
    /\ answers <= listings
    /\ \A i, j \in DOMAIN vtrows :
         i # j /\ vtrows[i].file = vtrows[j].file => vtrows[i].answer # vtrows[j].answer
    /\ \A i \in DOMAIN vtrows : RowTrue(vtrows[i], answers, complete \ broken)
  BY DEF VTRowsTrue, RowTrue

LEMMA KnownAre ==
  ASSUME AskedOnce, NEW map
  PROVE  /\ Len(Known(map)) \in Nat /\ DOMAIN Known(map) = 1..Len(Known(map))
         /\ \A i \in DOMAIN Known(map) :
              /\ Known(map)[i].digest = HashResult(Known(map)[i].file, algo)
              /\ Of(Known(map)[i].digest) \in DOMAIN map
         /\ \A i, j \in DOMAIN Known(map) : i # j => Known(map)[i].file # Known(map)[j].file
<1> DEFINE N == Len(asked)
           list == NowAsked
           places == {i \in DOMAIN list : Of(list[i].digest) \in DOMAIN map}
           S == {list[i] : i \in 1..N}
           known == Selected(list, places)
<1>1. N \in Nat /\ DOMAIN asked = 1..N
  BY DEF AskedOnce
<1>2. list \in [1..N -> S] /\ DOMAIN list = 1..N
  BY <1>1 DEF NowAsked
<1>3. \A i \in 1..N : list[i].file = asked[i].file /\ list[i].digest = HashResult(asked[i].file, algo)
  BY <1>1 DEF NowAsked
<1>4. Known(map) = known
  BY DEF Known
<1>5. \A i \in places : Of(list[i].digest) \in DOMAIN map
  OBVIOUS
<1> HIDE DEF S, places, list
<1>6. list \in Seq(S) /\ Len(list) = N /\ N \in 0..N
  BY <1>1, <1>2
<1>7. known \in Seq(S) /\ TakenFrom(known, list, places, N)
  BY <1>1, <1>6, CollectedMeans DEF Selected
<1>8. Len(known) \in Nat /\ DOMAIN known = 1..Len(known)
  BY <1>7
<1> HIDE DEF known
<1>9. PICK at \in [1..Len(known) -> places \cap 1..N] :
        /\ \A i \in 1..Len(known) : known[i] = list[at[i]]
        /\ \A i, j \in 1..Len(known) : i < j => at[i] < at[j]
  BY <1>7 DEF TakenFrom
<1>10. ASSUME NEW i \in 1..Len(known)
       PROVE  /\ at[i] \in 1..N /\ known[i].file = asked[at[i]].file
              /\ known[i].digest = HashResult(known[i].file, algo)
              /\ Of(known[i].digest) \in DOMAIN map
  <2>1. at[i] \in places /\ at[i] \in 1..N /\ known[i] = list[at[i]]
    BY <1>9
  <2>2. known[i].file = asked[at[i]].file /\ known[i].digest = HashResult(asked[at[i]].file, algo)
    BY <1>3, <2>1
  <2>3. QED  BY <1>5, <2>1, <2>2
<1>11. ASSUME NEW i \in 1..Len(known), NEW j \in 1..Len(known), i # j
       PROVE  known[i].file # known[j].file
  <2>1. i < j \/ j < i
    BY <1>8, <1>11
  <2>2. at[i] # at[j] /\ at[i] \in DOMAIN asked /\ at[j] \in DOMAIN asked
    BY <1>1, <1>9, <1>10, <2>1
  <2>3. QED  BY <1>10, <2>2 DEF AskedOnce
<1>12. QED  BY <1>4, <1>8, <1>10, <1>11

(* A sequence and what is put behind it.                                   *)
Behind(s, t, r) ==
  /\ IsSeq(r) /\ Len(r) = Len(s) + Len(t)
  /\ \A i \in 1..Len(s) : r[i] = s[i]
  /\ \A i \in 1..Len(t) : r[Len(s) + i] = t[i]

LEMMA FromFunction ==
  ASSUME NEW r, NEW n \in Nat, DOMAIN r = 1..n, Len(r) = n, r \in [1..n -> {r[i] : i \in 1..n}]
  PROVE  IsSeq(r)
<1> DEFINE R == {r[i] : i \in 1..n}
<1>1. r \in [1..n -> R]
  OBVIOUS
<1> HIDE DEF R
<1>2. r \in Seq(R)
  BY <1>1
<1>3. QED  BY <1>2 DEF IsSeq, R

LEMMA PutBehind == ASSUME NEW s, IsSeq(s), NEW t, IsSeq(t) PROVE Behind(s, t, s \o t)
<1> DEFINE A == {s[i] : i \in 1..Len(s)}
           B == {t[i] : i \in 1..Len(t)}
           U == A \cup B
           r == s \o t
           m == Len(s)
           n == Len(t)
<1>1. s \in Seq(A) /\ t \in Seq(B) /\ m \in Nat /\ n \in Nat
  BY DEF IsSeq
<1> HIDE DEF A, B
<1>2. s \in Seq(U) /\ t \in Seq(U)
  BY <1>1
<1> HIDE DEF U
<1>3. /\ r \in Seq(U) /\ Len(r) = m + n
      /\ \A i \in 1..(m + n) : r[i] = IF i <= m THEN s[i] ELSE t[i - m]
  BY <1>2, ConcatProperties
<1> HIDE DEF r, m, n
<1>4. m + n \in Nat /\ DOMAIN r = 1..(m + n)
  BY <1>1, <1>3
<1>5. r \in [1..(m + n) -> {r[i] : i \in 1..(m + n)}]
  BY <1>3, <1>4
<1>6. IsSeq(r)
  BY <1>3, <1>4, <1>5, FromFunction
<1>7. \A i \in 1..m : r[i] = s[i]
  BY <1>1, <1>3
<1>8. ASSUME NEW i \in 1..n PROVE r[m + i] = t[i]
  <2>1. m + i \in 1..(m + n) /\ ~(m + i <= m) /\ (m + i) - m = i
    BY <1>1
  <2>2. r[m + i] = IF m + i <= m THEN s[m + i] ELSE t[(m + i) - m]
    BY <1>3, <2>1
  <2>3. QED  BY <2>1, <2>2
<1>9. QED  BY <1>3, <1>6, <1>7, <1>8 DEF r, m, n, Behind

(* What each new row says.                                                 *)
NewRowTrue(row, map, items) ==
  /\ row.answer = answers + 1 /\ row.items = items
  /\ row.digest = HashResult(row.file, algo)
  /\ Of(row.digest) \in DOMAIN map /\ row.found = map[Of(row.digest)]
RowsTrue(new, map, items) ==
  /\ IsSeq(new)
  /\ \A i \in 1..Len(new) : NewRowTrue(new[i], map, items)
  /\ \A i, j \in 1..Len(new) : i # j => new[i].file # new[j].file

LEMMA NewRowsAre ==
  ASSUME AskedOnce, NEW map, NEW items
  PROVE  RowsTrue(NewRows(map, items), map, items)
<1> DEFINE new == NewRows(map, items)
           N == Len(Known(map))
<1>1. /\ N \in Nat /\ DOMAIN Known(map) = 1..N
      /\ \A i \in 1..N : /\ Known(map)[i].digest = HashResult(Known(map)[i].file, algo)
                         /\ Of(Known(map)[i].digest) \in DOMAIN map
      /\ \A i, j \in 1..N : i # j => Known(map)[i].file # Known(map)[j].file
  BY KnownAre
<1>2. new = [i \in 1..N |-> NewRow(map, items, Known(map)[i])]
  BY <1>1 DEF NewRows
<1> HIDE DEF new, N
<1>3. \A i \in 1..N : new[i] = NewRow(map, items, Known(map)[i])
  BY <1>2
<1>4. new \in [1..N -> {new[i] : i \in 1..N}] /\ DOMAIN new = 1..N
  BY <1>2
<1>5. Len(new) = N /\ IsSeq(new)
  <2> DEFINE Q == {new[i] : i \in 1..N}
  <2>1. new \in [1..N -> Q]
    BY <1>4
  <2> HIDE DEF Q
  <2>2. Len(new) = N
    BY <1>1, <1>4, <2>1
  <2>3. QED  BY <1>1, <1>4, <2>2, FromFunction
<1>6. \A x : /\ NewRow(map, items, x).answer = answers + 1 /\ NewRow(map, items, x).items = items
             /\ NewRow(map, items, x).file = x.file /\ NewRow(map, items, x).digest = x.digest
             /\ NewRow(map, items, x).found = map[Of(x.digest)]
  BY DEF NewRow
<1>7. ASSUME NEW i \in 1..N
      PROVE  NewRowTrue(new[i], map, items) /\ new[i].file = Known(map)[i].file
  BY <1>1, <1>3, <1>6 DEF NewRowTrue
<1>8. \A i, j \in 1..N : i # j => new[i].file # new[j].file
  BY <1>1, <1>7
<1>9. QED  BY <1>5, <1>7, <1>8 DEF new, RowsTrue

LEMMA RowsAdded ==
  ASSUME Asking, VTRowsTrue, AskedOnce, button, consent,
         UNCHANGED <<consent, allowed, complete, broken, listings>>,
         NEW items, items \in Seq(ToSet(items)), \A x \in ToSet(items) : IsItem(x), AddRows(items)
  PROVE  VTRowsTrue' /\ answers' = answers + 1 /\ IsSeq(vtrows')
<1> DEFINE map == MapOf(items)[Len(items)]
           new == NewRows(map, items)
           n == answers + 1
           L == Len(vtrows)
<1>1. /\ Len(items) \in Nat /\ DOMAIN items = 1..Len(items)
      /\ \A k \in 1..Len(items) : IsItem(items[k])
  <2>1. Len(items) \in Nat /\ DOMAIN items = 1..Len(items)
    OBVIOUS
  <2>2. \A k \in 1..Len(items) : items[k] \in ToSet(items)
    BY <2>1 DEF ToSet
  <2>3. QED  BY <2>1, <2>2
<1>2. LastSaid(map, items, Len(items))
  BY <1>1, MapMeans
<1>3. answers' = n /\ vtrows' = vtrows \o new
  BY DEF AddRows
<1> HIDE DEF map
<1>4. RowsTrue(new, map, items)
  BY NewRowsAre
<1> HIDE DEF new, L
<1>5. IsSeq(new) /\ \A i, j \in 1..Len(new) : i # j => new[i].file # new[j].file
  BY <1>4 DEF RowsTrue
<1>6. ASSUME NEW i \in 1..Len(new) PROVE RowTrue(new[i], n, complete \ broken) /\ new[i].answer = n
  <2> DEFINE c == Of(new[i].digest)
  <2>1. NewRowTrue(new[i], map, items)
    BY <1>4 DEF RowsTrue
  <2>2. new[i].answer = n /\ n \in 1..n
    BY <2>1 DEF Asking, NewRowTrue
  <2>3. c \in DOMAIN map /\ new[i].found = map[c] /\ new[i].items = items
    BY <2>1 DEF NewRowTrue
  <2>4. new[i].digest = HashResult(new[i].file, algo)
    BY <2>1 DEF NewRowTrue
  <2>5. new[i].digest # Nothing =>
          new[i].file \in complete \ broken /\ new[i].digest[2] = Content[new[i].file]
    <3>1. CASE new[i].file \in complete \ broken /\ algo \in computed
      <4>1. new[i].digest = <<algo, Content[new[i].file]>>
        BY <2>4, <3>1 DEF HashResult
      <4>2. new[i].digest[2] = Content[new[i].file]
        BY <4>1
      <4>3. QED  BY <3>1, <4>2
    <3>2. CASE ~(new[i].file \in complete \ broken /\ algo \in computed)
      BY <2>4, <3>2 DEF HashResult
    <3>3. QED  BY <3>1, <3>2
  <2> HIDE DEF c
  <2>6. PICK k \in 1..Len(items) : /\ items[k] = [content |-> c, found |-> map[c]]
                                   /\ \A m \in 1..Len(items) : m > k => items[m].content # c
    BY <1>2, <2>3 DEF LastSaid
  <2>7. items[k].content = c
    BY <2>6
  <2>8. QED  BY <1>1, <2>2, <2>3, <2>5, <2>6, <2>7 DEF RowTrue, c
<1>7. Behind(vtrows, new, vtrows') /\ IsSeq(vtrows)
  BY <1>3, <1>5, PutBehind DEF Asking
<1>8. /\ L \in Nat /\ Len(new) \in Nat /\ DOMAIN vtrows' = 1..(L + Len(new)) /\ DOMAIN vtrows = 1..L
      /\ \A i \in 1..L : vtrows'[i] = vtrows[i]
      /\ \A i \in 1..Len(new) : vtrows'[L + i] = new[i]
  BY <1>5, <1>7 DEF Behind, IsSeq, L
<1>9. \A i \in DOMAIN vtrows' : i \in 1..L \/ \E k \in 1..Len(new) : i = L + k
  <2>1. ASSUME NEW i \in DOMAIN vtrows', i \notin 1..L PROVE i - L \in 1..Len(new) /\ i = L + (i - L)
    BY <1>8, <2>1
  <2>2. QED  BY <2>1
<1>10. \A i \in 1..L : RowTrue(vtrows[i], answers, complete \ broken)
  BY <1>8, RowsAre
<1>11. ASSUME NEW row, RowTrue(row, answers, complete \ broken)
       PROVE  RowTrue(row, n, complete \ broken) /\ row.answer # n
  BY <1>11 DEF RowTrue, Asking
<1>12. ASSUME NEW i \in 1..L
       PROVE  RowTrue(vtrows'[i], n, complete \ broken) /\ vtrows'[i].answer # n
  BY <1>8, <1>10, <1>11
<1>13. ASSUME NEW i \in DOMAIN vtrows', i \notin 1..L
       PROVE  RowTrue(vtrows'[i], n, complete \ broken) /\ vtrows'[i].answer = n
  <2>1. PICK k \in 1..Len(new) : i = L + k
    BY <1>9, <1>13
  <2>2. vtrows'[i] = new[k]
    BY <1>8, <2>1
  <2>3. QED  BY <1>6, <2>2
<1>14. ASSUME NEW i \in DOMAIN vtrows', NEW j \in DOMAIN vtrows', i # j,
              vtrows'[i].file = vtrows'[j].file
       PROVE  vtrows'[i].answer # vtrows'[j].answer
  <2>1. CASE i \in 1..L /\ j \in 1..L
    BY <1>8, <1>14, <2>1, RowsAre
  <2>2. CASE i \in 1..L /\ j \notin 1..L
    BY <1>12, <1>13, <2>2
  <2>3. CASE i \notin 1..L /\ j \in 1..L
    BY <1>12, <1>13, <2>3
  <2>4. CASE i \notin 1..L /\ j \notin 1..L
    <3>1. PICK k \in 1..Len(new), m \in 1..Len(new) : i = L + k /\ j = L + m
      BY <1>9, <2>4
    <3>2. k # m /\ vtrows'[i] = new[k] /\ vtrows'[j] = new[m]
      BY <1>8, <1>14, <3>1
    <3>3. QED  BY <1>5, <1>14, <3>2
  <2>5. QED  BY <2>1, <2>2, <2>3, <2>4
<1>15. consent' /\ allowed' /\ answers' <= listings'
  BY <1>3 DEF Asking
<1>16. \A i \in DOMAIN vtrows' : RowTrue(vtrows'[i], answers', complete' \ broken')
  BY <1>3, <1>12, <1>13
<1>17. VTRowsTrue'
  BY <1>14, <1>15, <1>16 DEF VTRowsTrue, RowTrue
<1>18. QED  BY <1>3, <1>7, <1>17 DEF Behind

(* The rows stay true when files are finished: a row's digest is of a file *)
(* that was.                                                               *)
LEMMA RowsKept ==
  ASSUME VTRowsTrue, UNCHANGED <<allowed, answers, vtrows>>, consent => consent',
         answers <= listings => answers <= listings', complete \ broken \subseteq complete' \ broken'
  PROVE  VTRowsTrue'
<1>1. /\ vtrows # <<>> => consent' /\ allowed'
      /\ answers' <= listings'
      /\ \A i, j \in DOMAIN vtrows :
           i # j /\ vtrows[i].file = vtrows[j].file => vtrows[i].answer # vtrows[j].answer
      /\ \A i \in DOMAIN vtrows : RowTrue(vtrows[i], answers, complete \ broken)
  BY RowsAre
<1>2. \A i \in DOMAIN vtrows : RowTrue(vtrows[i], answers, complete' \ broken')
  BY <1>1 DEF RowTrue
<1>3. QED  BY <1>1, <1>2 DEF VTRowsTrue, RowTrue

LEMMA AskStep == ASSUME AskInv, [QueryNext]_queryVars PROVE AskInv'
<1>1. Asking /\ VTRowsTrue
  BY DEF AskInv
<1>2. CASE OnVTClicked
  <2>1. /\ call = "idle" /\ button /\ consent' = TRUE
        /\ UNCHANGED <<allowed, button, complete, broken, listings, answers, vtrows, reply>>
        /\ asked' = Asked(Candidates[1]) \/ (call' = call)
    BY <1>2 DEF OnVTClicked, CheckForToS, fileVars, httpVars
  <2>2. VTRowsTrue'
    BY <1>1, <2>1, RowsKept
  <2>3. asked' = Asked(Candidates[1]) => AskedOnce'
    BY AskedAre
  <2>4. QED  BY <1>1, <2>1, <2>2, <2>3 DEF AskInv, Asking, IsSeq
<1>3. CASE CheckForUpdates \/ (\E a \in Later : EnableLater(a))
  <2>1. /\ call = "idle" /\ (call' = "idle" \/ purpose' = "update")
        /\ UNCHANGED <<consent, allowed, button, complete, broken, listings, answers, vtrows, reply>>
    BY <1>3 DEF CheckForUpdates, EnableLater, Begin, vtVars, fileVars, httpVars
  <2>2. VTRowsTrue'
    BY <1>1, <2>1, RowsKept
  <2>3. QED  BY <1>1, <2>1, <2>2 DEF AskInv, Asking, IsSeq
<1>4. CASE \E f \in ToSet(QueryFiles) : FileFails(f) \/ Finish(f)
  <2>1. PICK f : FileFails(f) \/ Finish(f)
    BY <1>4
  <2>2. /\ UNCHANGED <<consent, allowed, button, listings, answers, vtrows, reply, call, purpose, asked>>
        /\ f \notin complete /\ complete \subseteq complete'
        /\ broken' \in {broken, broken \cup {f}}
    BY <2>1 DEF FileFails, Finish, httpVars
  <2>3. complete \ broken \subseteq complete' \ broken'
    BY <2>2
  <2>4. VTRowsTrue'
    BY <1>1, <2>2, <2>3, RowsKept
  <2>5. QED  BY <1>1, <2>2, <2>4 DEF AskInv, Asking, AskedOnce, IsSeq
<1>5. CASE ListFiles
  <2>1. /\ UNCHANGED <<consent, allowed, complete, broken, answers, vtrows, reply, call>>
        /\ call = "idle" /\ listings' = listings + 1 /\ button' = (allowed \/ button)
    BY <1>5 DEF ListFiles, fileVars, httpVars
  <2>2. listings \in Nat /\ answers \in Nat /\ answers <= listings
    BY <1>1 DEF Asking, VTRowsTrue
  <2>3. VTRowsTrue'
    BY <1>1, <2>1, <2>2, RowsKept
  <2>4. button' => allowed' /\ answers' < listings'
    <3>1. answers < listings + 1
      BY <2>2
    <3>2. button => allowed
      BY <1>1 DEF Asking
    <3>3. QED  BY <2>1, <3>1, <3>2
  <2>5. QED  BY <1>1, <2>1, <2>2, <2>3, <2>4 DEF AskInv, Asking, IsSeq
<1>6. CASE \/ OpenHandle \/ Exchange \/ QueryDataAvailable \/ ReadData \/ Fails \/ CloseHandle
           \/ UNCHANGED queryVars
  <2>1. /\ UNCHANGED <<consent, allowed, button, complete, broken, listings, answers, vtrows, asked,
                       purpose>>
        /\ call' # "idle" => call # "idle"
        /\ reply' \in Replies \cup {reply}
    BY <1>6 DEF OpenHandle, Exchange, QueryDataAvailable, ReadData, Fails, CloseHandle, Leave,
                queryVars, vtVars, fileVars, httpVars, ToSet, Steps
  <2>2. VTRowsTrue'
    BY <1>1, <2>1, RowsKept
  <2>3. QED  BY <1>1, <2>1, <2>2 DEF AskInv, Asking, AskedOnce, IsSeq
<1>7. CASE (\E form \in {"items", "version"} : Throws(form)) \/ ShowVersion
  <2>1. /\ UNCHANGED <<consent, allowed, button, complete, broken, listings, answers, vtrows>>
        /\ call' = "idle" /\ reply' = NoReply
    BY <1>7 DEF Throws, ShowVersion, Return, fileVars
  <2>2. VTRowsTrue'
    BY <1>1, <2>1, RowsKept
  <2>3. QED  BY <1>1, <2>1, <2>2 DEF AskInv, Asking, IsSeq
<1>8. CASE UseReply
  <2>1. call = "answered" /\ purpose = "vt" /\ reply.form = "items"
    BY <1>8 DEF UseReply, Unusable
  <2>2. button /\ consent /\ AskedOnce /\ answers < listings /\ allowed
    BY <1>1, <2>1 DEF Asking
  <2>3. CASE reply.items = <<>>
    <3>1. UNCHANGED <<consent, allowed, button, complete, broken, listings, answers, vtrows, asked,
                      purpose, reply>>
      BY <1>8, <2>3 DEF UseReply, vtVars, fileVars, httpVars
    <3>2. VTRowsTrue'
      BY <1>1, <3>1, RowsKept
    <3>3. QED  BY <1>1, <2>1, <3>1, <3>2 DEF AskInv, Asking, AskedOnce, IsSeq
  <2>4. CASE reply.items # <<>>
    <3>1. /\ UNCHANGED <<consent, allowed, complete, broken, listings>>
          /\ AddRows(reply.items) /\ button' = FALSE /\ call' = "idle" /\ reply' = NoReply
      BY <1>8, <2>4 DEF UseReply, Return, fileVars
    <3>2. reply \in Replies
      BY <1>1, <2>1 DEF Asking, NoReply
    <3>3. reply.items \in Seq(ToSet(reply.items)) /\ \A x \in ToSet(reply.items) : IsItem(x)
      BY <2>1, <3>2, QueryAssumption
    <3>4. VTRowsTrue' /\ answers' = answers + 1 /\ IsSeq(vtrows')
      BY <1>1, <2>2, <3>1, <3>3, RowsAdded
    <3>5. QED  BY <1>1, <3>1, <3>4 DEF AskInv, Asking
  <2>5. QED  BY <2>3, <2>4
<1>9. QED
  BY <1>2, <1>3, <1>4, <1>5, <1>6, <1>7, <1>8 DEF QueryNext

(* However often files are listed and VirusTotal is asked, no answer gives *)
(* a file two rows, and a row holds what was said last of its digest.      *)
THEOREM VTRowsTrueAlways == QuerySpec => []VTRowsTrue
<1>1. QueryInit => AskInv
  <2>1. SUFFICES ASSUME QueryInit PROVE AskInv
    OBVIOUS
  <2>2. /\ listings = 0 /\ answers = 0 /\ button = FALSE /\ call = "idle" /\ reply = NoReply
        /\ vtrows = <<>>
    BY <2>1 DEF QueryInit
  <2>3. Len(vtrows) = 0 /\ DOMAIN vtrows = {} /\ \A R : vtrows \in Seq(R)
    BY <2>2
  <2>4. IsSeq(vtrows)
    BY <2>3 DEF IsSeq
  <2>5. Asking
    BY <2>2, <2>4 DEF Asking
  <2>6. VTRowsTrue
    BY <2>2, <2>3 DEF VTRowsTrue
  <2>7. QED  BY <2>5, <2>6 DEF AskInv
<1>2. AskInv => VTRowsTrue
  BY DEF AskInv
<1>3. QED  BY <1>1, <1>2, AskStep, PTL DEF QuerySpec
=============================================================================
