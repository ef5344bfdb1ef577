------------------------------ MODULE MCDialog ------------------------------
(***************************************************************************)
(* One run for the three modules of the dialog.  They share no state, so   *)
(* each behaviour is one of a part of one module, the others at rest:      *)
(* "windows" are two windows over one store, "options" one window with     *)
(* every option and start, "list" and "box" the two parts of Results,      *)
(* "query" the servers.                                                    *)
(***************************************************************************)
EXTENDS Settings, Results, Query

CONSTANTS w1, w2, md5, md4, sha1, red, blue, MatchFgEnabled, MatchFgColor, h1, h2

VARIABLE part
dialogVars == <<settingsVars, resultVars, queryVars, part>>

(* md5 and md4 have digests of one size.                                   *)
MCSizeOf == [a \in Algorithms |-> IF a = sha1 THEN 20 ELSE 16]
MCDefault == [k \in Keys |-> IF k \in ColourValues THEN red
                             ELSE k \in {md5, "ClipboardAutoenable",
                                     "ClipboardAutoenableIfNone", "SumfileAlgorithmOnly"}]
(* Bounds: two windows without the options and listed once, and one window *)
(* with them.                                                              *)
TwoWindows ==
  /\ SettingsNext
  /\ \A w \in Windows : /\ sumtype'[w] \in {NotSumfile, md4}
                        /\ ~live'[w][sha1]
                        /\ phase'[w] # "early"
OneWindow == WindowStep(w1, {sha1} \cup Options) /\ sumtype'[w1] # md4

MCClicked == {md4, MatchFgEnabled, MatchFgColor}
AnyHashes == SUBSET Hashes

(* Two files, of which a reply may name both, one or none.                 *)
MCFiles == <<1, 2>>
MCContent == [f \in {1, 2} |-> IF f = 2 THEN "x" ELSE "y"]
MCComputed == {{}, {"MD5"}, {"SHA-256", "SHA-1", "MD5"}}
Item(c, found) == [content |-> c, found |-> found]
Items(list) == [code |-> 200, form |-> "items", items |-> list, pieces |-> 2]
MCReplies ==
  {Items(<<>>), Items(<<Item("x", TRUE), Item("x", FALSE)>>), Items(<<Item("empty", TRUE)>>),
   Items(<<Item("y", TRUE), Item("odd", TRUE), Item("x", FALSE)>>)}
  \cup {[code |-> 500, form |-> "other", pieces |-> 1],
        [code |-> 200, form |-> "other", pieces |-> 1],
        [code |-> 200, form |-> "broken", pieces |-> 0]}
  \cup {[code |-> 200, form |-> "version", version |-> v, pieces |-> 1] : v \in 1..3}

NothingTyped == settings.strict /\ settings.autoformat
NothingExpected == \A f \in Files : expected[f] = {}
FirstQuery == computed = {} /\ consent /\ allowed

Init ==
  /\ SettingsInit /\ ResultsInit /\ QueryInit
  /\ \/ part \in {"windows", "options"} /\ NothingTyped /\ NothingExpected /\ FirstQuery
     \/ part = "list" /\ NothingTyped /\ FirstQuery
     \/ part = "box" /\ NothingExpected /\ FirstQuery
     \/ part = "query" /\ NothingTyped /\ NothingExpected

Next ==
  \/ part = "windows" /\ TwoWindows /\ UNCHANGED <<resultVars, queryVars, part>>
  \/ part = "options" /\ OneWindow /\ UNCHANGED <<resultVars, queryVars, part>>
  \/ part = "list" /\ ListNext /\ UNCHANGED <<settingsVars, queryVars, part>>
  \/ part = "box" /\ BoxNext /\ UNCHANGED <<settingsVars, queryVars, part>>
  \/ part = "query" /\ QueryNext /\ UNCHANGED <<settingsVars, resultVars, part>>

Spec == Init /\ [][Next]_dialogVars /\ WF_dialogVars(part = "box" /\ OnStatusUpdateTimer
                                                      /\ UNCHANGED <<settingsVars, queryVars, part>>)
=============================================================================
