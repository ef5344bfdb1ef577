------------------------------- MODULE Query --------------------------------
(***************************************************************************)
(* What a window asks of servers: VirusTotal about its files (OnVTClicked, *)
(* virustotal.cpp) and GitHub about a newer version (updatecheck.cpp),     *)
(* both through DoHTTPS (https.cpp).  The thread of the window blocks in   *)
(* every call, every call may fail, and files may still be hashed by other *)
(* threads if they were listed early.                                      *)
(***************************************************************************)
EXTENDS Naturals, Sequences, SequencesExt, FiniteSets, Selection

CONSTANTS
  QueryFiles,   \* the files of the coordinator, in their order
  Content,      \* the content of each; a digest is <<algorithm, content>>
  Replies,      \* what the servers may answer, see below
  Computed,     \* bound: sets of algorithms the tasks may have computed
  Later,        \* bound: algorithms switched in the settings afterwards
  Version       \* of this build; 0 is a development build

(* A reply has a status, and a body that is "broken" (no JSON), "other"    *)
(* (JSON of another form), "items" ([content, found], of any algorithm's   *)
(* digest that was asked for, or "odd" for an item of other types) or      *)
(* "version".  Each file is a task of its own, also if two name the same.  *)
IsItem(x) == x = [content |-> x.content, found |-> x.found]
ASSUME QueryAssumption ==
  /\ Version \in Nat /\ \A s \in Computed \cup {Later} : s \subseteq {"SHA-256", "SHA-1", "MD5"}
  /\ \A r \in Replies :
       /\ r.form \in {"broken", "other", "items", "version"}
       /\ r.pieces \in Nat
       /\ r.form = "items" => /\ r.items \in Seq(ToSet(r.items))
                              /\ \A x \in ToSet(r.items) : IsItem(x)
  /\ QueryFiles \in Seq(ToSet(QueryFiles))
  /\ \A i, j \in DOMAIN QueryFiles : i # j => QueryFiles[i] # QueryFiles[j]

VARIABLES
  consent,   \* virustotal_tos
  allowed,   \* GetMachineSettingDWORD("ForceDisableVT") is 0
  button,    \* the VirusTotal button is enabled
  computed, enabledNow,   \* algorithms of the tasks, and of the settings now
  complete, broken,   \* the files that are finished, and those with an error
  listings,  \* how often ALL_FILES_FINISHED was handled
  call,      \* the next call of DoHTTPS or its caller, or "idle"
  purpose,   \* "vt" or "update"
  algo,      \* the algorithm of the query
  asked,     \* the files sent, each with the digest sent
  handles,   \* the WinHTTP handles that are open
  reply, sent, available, body,  \* the answer, the pieces read of it, those
             \* announced, and the buffer
  result,    \* HTTPResult
  answers,   \* how many queries had their rows added
  vtrows,    \* the rows added to the list, each with its answer
  shown      \* the last message box

fileVars == <<computed, complete, broken>>
vtVars == <<consent, allowed, button, fileVars, enabledNow, listings, algo, asked, answers, vtrows>>
httpVars == <<handles, reply, sent, available, body, result>>
queryVars == <<vtVars, httpVars, call, purpose, shown>>

(* The algorithms of OnVTClicked, in the order it tries them.              *)
Preferred == <<"SHA-256", "SHA-1", "MD5">>
NoReply == [code |-> 0, form |-> "broken", pieces |-> 0]
NoResult == [error |-> 0, code |-> 0, body |-> <<>>]
Nothing == <<>>   \* an empty digest

(* The window when its files have been started.                            *)
QueryInit ==
  /\ consent \in BOOLEAN /\ allowed \in BOOLEAN /\ button = FALSE
  /\ computed \in Computed /\ enabledNow = computed
  /\ complete = {} /\ broken = {} /\ listings = 0
  /\ call = "idle" /\ purpose = "vt" /\ algo = "none"
  /\ asked = <<>> /\ answers = 0 /\ vtrows = <<>> /\ shown = "none"
  /\ handles = <<>> /\ reply = NoReply /\ sent = 0 /\ available = 0
  /\ body = <<>> /\ result = NoResult

(* Threads set the error of a file and finish files, whatever the window   *)
(* does; the error of a file that could not be opened is there before.     *)
FileFails(f) ==
  /\ call # "crashed" /\ f \notin complete \cup broken
  /\ broken' = broken \cup {f}
  /\ UNCHANGED <<consent, allowed, button, computed, complete, enabledNow, listings, algo, asked,
                 answers, vtrows, httpVars, call, purpose, shown>>
Finish(f) ==
  /\ call # "crashed" /\ f \notin complete
  /\ complete' = complete \cup {f}
  /\ UNCHANGED <<consent, allowed, button, computed, broken, enabledNow, listings, algo, asked,
                 answers, vtrows, httpVars, call, purpose, shown>>

(* The completion of a file sends one message, or none; a window without   *)
(* files is sent one.                                                      *)
MessagesSent == IF QueryFiles = <<>> THEN 1 ELSE Cardinality(complete)

(* OnAllFilesFinished enables the button, at each listing, early or not,   *)
(* unless the machine's policy forbids it.                                 *)
ListFiles ==
  /\ call = "idle" /\ listings < MessagesSent
  /\ listings' = listings + 1
  /\ button' = (allowed \/ button)
  /\ UNCHANGED <<consent, allowed, fileVars, enabledNow, algo, asked, answers, vtrows,
                 httpVars, call, purpose, shown>>

(* The settings dialog changes what is enabled, not what is computed.      *)
EnableLater(a) ==
  /\ call = "idle" /\ listings > 0
  /\ enabledNow' = IF a \in enabledNow THEN enabledNow \ {a} ELSE enabledNow \cup {a}
  /\ UNCHANGED <<consent, allowed, button, fileVars, listings, algo, asked, answers, vtrows,
                 httpVars, call, purpose, shown>>

(* A file that is not finished has no results and no error.                *)
HashResult(f, a) ==
  IF f \in complete \ broken /\ a \in computed THEN <<a, Content[f]>> ELSE Nothing
Candidates == SelectSeq(Preferred, LAMBDA a : a \in enabledNow)
Sent == Selected(QueryFiles, {i \in DOMAIN QueryFiles : QueryFiles[i] \notin broken})

(* CheckForToS: the answer yes is stored, no only ends the click.          *)
CheckForToS(agreed) == agreed /\ consent' = TRUE

(* What vt::Query sends of each file.                                      *)
Asked(a) == [i \in DOMAIN Sent |-> [file |-> Sent[i], digest |-> HashResult(Sent[i], a)]]

Begin(why) == call' = "session" /\ purpose' = why /\ shown' = "none"

OnVTClicked ==
  /\ call = "idle" /\ button
  /\ \E agreed \in BOOLEAN : (consent => agreed) /\ CheckForToS(agreed)
  /\ IF Candidates = <<>>
     THEN /\ shown' = "noAlgorithm"
          /\ UNCHANGED <<algo, asked, call, purpose>>
     ELSE Begin("vt") /\ algo' = Candidates[1] /\ asked' = Asked(Candidates[1])
  /\ UNCHANGED <<allowed, button, fileVars, enabledNow, listings, answers, vtrows, httpVars>>

(* The button in the settings dialog.                                      *)
CheckForUpdates ==
  /\ call = "idle" /\ listings > 0
  /\ IF Version = 0
     THEN shown' = "developmentBuild" /\ UNCHANGED <<call, purpose>>
     ELSE Begin("update")
  /\ UNCHANGED <<vtVars, httpVars>>
-----------------------------------------------------------------------------
(* DoHTTPS                                                                 *)

(* The calls in their order, with the location of a failure.               *)
Steps == <<"session", "connection", "request", "send", "receive", "headers", "available">>
Step == CHOOSE i \in DOMAIN Steps : Steps[i] = call

(* The blocks are left inside out, each closing its handle.  The location  *)
(* of an error and the status share a union.                               *)
Leave(error, code, text) ==
  /\ result' = [error |-> error, code |-> code, body |-> text]
  /\ call' = "closing"

(* GetLastError is not 0 after a failure.                                  *)
Fails ==
  /\ call \in ToSet(Steps) \cup {"read"}
  /\ Leave(1, IF call = "read" THEN 8 ELSE Step + 1, <<>>)
  /\ UNCHANGED <<vtVars, purpose, shown, handles, reply, sent, available, body>>

OpenHandle ==
  /\ call \in {"session", "connection", "request"}
  /\ handles' = Append(handles, call)
  /\ call' = Steps[Step + 1]
  /\ UNCHANGED <<vtVars, purpose, shown, reply, sent, available, body, result>>

Exchange ==
  /\ call \in {"send", "receive", "headers"}
  /\ reply' \in IF call = "receive" THEN Replies ELSE {reply}
  /\ reply'.form \in {"items", "version"} => (purpose = "vt") = (reply'.form = "items")
  /\ call' = Steps[Step + 1]
  /\ UNCHANGED <<vtVars, purpose, shown, handles, sent, available, body, result>>

QueryDataAvailable ==
  /\ call = "available"
  /\ IF sent = reply.pieces
     THEN Leave(0, reply.code, body) /\ UNCHANGED available
     ELSE /\ available' \in 1..(reply.pieces - sent)
          /\ call' = "read"
          /\ UNCHANGED result
  /\ UNCHANGED <<vtVars, purpose, shown, handles, reply, sent, body>>

(* The buffer is made as long as was announced and cut to what was read.   *)
Received_Uncut(n) ==
  body \o [i \in 1..available |-> IF i <= n THEN sent + i ELSE 0]
Received(n) == body \o [i \in 1..n |-> sent + i]

ReadData ==
  /\ call = "read"
  /\ \E n \in 1..available : body' = Received(n) /\ sent' = sent + n
  /\ call' = "available"
  /\ UNCHANGED <<vtVars, purpose, shown, handles, reply, available, result>>

CloseHandle ==
  /\ call = "closing"
  /\ IF handles = <<>> THEN call' = "answered" /\ UNCHANGED handles
                       ELSE handles' = Front(handles) /\ UNCHANGED call
  /\ UNCHANGED <<vtVars, purpose, shown, reply, sent, available, body, result>>
-----------------------------------------------------------------------------
(* A body with a piece missing or added is not the JSON that was sent.     *)
Whole(text) == text = [i \in 1..reply.pieces |-> i]
Unusable(form) ==
  result.error # 0 \/ result.code # 200 \/ ~Whole(result.body) \/ reply.form # form

(* The caller is done with the reply.                                      *)
Return ==
  /\ call' = "idle"
  /\ reply' = NoReply /\ sent' = 0 /\ available' = 0 /\ body' = <<>>
  /\ result' = NoResult /\ purpose' = "vt" /\ algo' = "none" /\ asked' = <<>>
  /\ UNCHANGED <<consent, allowed, fileVars, enabledNow, listings, handles>>

(* vt::Query and GetLatestVersion throw, the caller shows what is wrong.   *)
Throws(form) ==
  /\ call = "answered"
  /\ form = IF purpose = "vt" THEN "items" ELSE "version"
  /\ Unusable(form)
  /\ shown' = "error"
  /\ Return
  /\ UNCHANGED <<button, answers, vtrows>>

(* The map from digests to results, after each item of the reply: a later  *)
(* one replaces an earlier one.                                            *)
ResultMap_FirstStays(map, item) ==
  IF item.content = "odd" \/ item.content \in DOMAIN map THEN map
  ELSE [c \in DOMAIN map \cup {item.content} |->
          IF c = item.content THEN item.found ELSE map[c]]
ResultMap(map, item) ==
  IF item.content = "odd" THEN map
  ELSE [c \in DOMAIN map \cup {item.content} |->
          IF c = item.content THEN item.found ELSE map[c]]

MapOf(items) ==
  LET after[n \in 0..Len(items)] ==
        IF n = 0 THEN <<>> ELSE ResultMap(after[n - 1], items[n])
  IN  after

(* The content whose digest was sent; files have no content in common with *)
(* an empty digest.                                                        *)
Of(digest) == IF digest = Nothing THEN "empty" ELSE digest[2]

(* A row for each file sent that the map has a result of, by the digest it *)
(* has now: a file may have been finished since its digest was sent.       *)
NowAsked == [i \in DOMAIN asked |->
               [file |-> asked[i].file, digest |-> HashResult(asked[i].file, algo)]]
Known(map) == Selected(NowAsked, {i \in DOMAIN NowAsked : Of(NowAsked[i].digest) \in DOMAIN map})
NewRow(map, items, x) ==
  [file |-> x.file, found |-> map[Of(x.digest)], digest |-> x.digest, items |-> items,
   answer |-> answers + 1]
NewRows(map, items) == [i \in DOMAIN Known(map) |-> NewRow(map, items, Known(map)[i])]
AddRows(items) ==
  /\ answers' = answers + 1
  /\ vtrows' = vtrows \o NewRows(MapOf(items)[Len(items)], items)

(* The items are used before it is known that there is one; tiny-json      *)
(* takes no null pointer.                                                  *)
UseReply ==
  /\ call = "answered" /\ purpose = "vt" /\ ~Unusable("items")
  /\ IF reply.items = <<>>
     THEN call' = "crashed" /\ UNCHANGED <<vtVars, httpVars, purpose>>
     ELSE AddRows(reply.items) /\ button' = FALSE /\ Return
  /\ UNCHANGED shown

(* Version::operator> is in Codec.                                         *)
ShowVersion ==
  /\ call = "answered" /\ purpose = "update" /\ ~Unusable("version")
  /\ shown' = IF reply.version > Version THEN "available" ELSE "newest"
  /\ Return
  /\ UNCHANGED <<button, answers, vtrows>>

QueryNext ==
  \/ (\E f \in ToSet(QueryFiles) : FileFails(f) \/ Finish(f)) \/ ListFiles
  \/ OnVTClicked \/ CheckForUpdates \/ (\E a \in Later : EnableLater(a))
  \/ OpenHandle \/ Exchange \/ QueryDataAvailable \/ ReadData \/ Fails \/ CloseHandle
  \/ (\E form \in {"items", "version"} : Throws(form)) \/ UseReply \/ ShowVersion
QuerySpec == QueryInit /\ [][QueryNext]_queryVars
-----------------------------------------------------------------------------
(* DoHTTPS reports success only with the whole body and the status that    *)
(* the server sent, also when the body came in more pieces, and smaller    *)
(* ones, than were announced; otherwise an error at the call that failed.  *)
(* In both cases it has closed every handle it opened.                     *)
ReplyWhole ==
  call = "answered" =>
    /\ handles = <<>>
    /\ IF result.error = 0 THEN Whole(result.body) /\ result.code = reply.code
                           ELSE result.code \in 2..8 /\ result.body = <<>>

(* However often the query failed and was repeated, there are no more      *)
(* answers with rows than listings of the files, and each gave a file one  *)
(* row at most; it was sent with consent and against no policy, and the    *)
(* row says what the reply said last about the digest that the file had    *)
(* when the reply came: its own, of a file hashed without an error, or an  *)
(* empty one.  (A file that is not finished, and one that was hashed       *)
(* before the algorithm was enabled, has an empty digest.)                 *)
VTRowsTrue ==
  /\ vtrows # <<>> => consent /\ allowed
  /\ answers <= listings
  /\ \A i, j \in DOMAIN vtrows :
       i # j /\ vtrows[i].file = vtrows[j].file => vtrows[i].answer # vtrows[j].answer
  /\ \A i \in DOMAIN vtrows :
       LET row == vtrows[i] IN
       /\ row.answer \in 1..answers
       /\ row.digest # Nothing =>
            row.file \in complete \ broken /\ row.digest[2] = Content[row.file]
       /\ \E k \in DOMAIN row.items :
            /\ row.items[k] = [content |-> Of(row.digest), found |-> row.found]
            /\ \A n \in DOMAIN row.items :
                 n > k => row.items[n].content # row.items[k].content
=============================================================================
