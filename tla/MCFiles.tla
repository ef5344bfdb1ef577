------------------------------ MODULE MCFiles -------------------------------
(***************************************************************************)
(* One run for what is read from and written to files.  The modules share  *)
(* no state but the parser's, so each behaviour is one of a part: "list"   *)
(* collects files, "parse" reads any file of a few lines, "export" writes  *)
(* a file and reads it back; the others are at rest, as they end.          *)
(***************************************************************************)
EXTENDS Export, FileList, TLC

VARIABLE part
filesVars == <<allVars, listVars, part>>

(* A small file system: r holds a, b, a folder d that is also D~1, and     *)
(* checksum files; d holds c and a link to r; q holds x.                   *)
P(a, b) == <<a, b>>
MCDirs == {<<"r">>, P("r", "d"), <<"r", "d", "link">>, <<"q">>}
MCLinks == {<<"r", "d", "link">>}
MCPlain == {P("r", "a"), P("r", "b"), P("r", "b.md5"), P("r", "all.md5"), P("r", "all.sfv"),
            P("r", "all.md5.md5"),
            <<"r", "d", "c">>, <<"r", "d", "link", "a">>, P("q", "x")}
MCLongName == [n \in {"r", "q", "d", "link", "a", "b", "c", "x", "gone", "all.md5",
                      "all.sfv", "b.md5", "all.md5.md5", "D~1"} |-> IF n = "D~1" THEN "d" ELSE n]

H(bytes, n) == [size |-> bytes, value |-> n]
Line(name, expected) == [name |-> name, hash |-> expected]
MCSums == [p \in MCPlain |->
  CASE p = P("r", "all.md5") -> <<Line(<<"a">>, H(16, 1)), Line(<<"D~1", "c">>, H(16, 2)),
                                  Line(<<"d", "c">>, H(20, 3)), Line(<<"D~1", "gone">>, H(16, 1)),
                                  Line(<<"d", "gone">>, H(16, 2)), Line(<<>>, H(16, 1)),
                                  Line(<<"b">>, H(16, 1))>>
    [] p \in {P("r", "b.md5"), P("r", "all.md5.md5")} -> <<Line(<<>>, H(16, 2))>>
    [] p = P("r", "all.sfv") -> <<Line(<<"a">>, H(4, 1))>>
    [] OTHER                 -> <<>>]

(* 0 is CRC32, 1 is MD5 and 2 SHA-1, which is enabled.                     *)
MCTypeOf == [p \in MCPlain |-> IF p \in {P("r", n) : n \in {"all.md5", "b.md5", "all.md5.md5"}} THEN 1 ELSE -1]
MCBeside == (P("r", "b") :> [a \in 0..2 |-> IF a = 1 THEN {P("r", "b.md5")} ELSE {}]) @@
            (P("r", "all.md5") :> [a \in 0..2 |-> IF a = 1 THEN {P("r", "all.md5.md5")} ELSE {}])
MCChoices == {<<P("r", "all.md5")>>, <<P("r", "all.sfv")>>, <<P("r", "b.md5")>>, <<P("r", "b")>>,
              <<<<"r">>>>, <<P("r", "D~1")>>, <<<<"r", "d", "link">>>>, <<P("r", "gone")>>,
              <<P("r", "a"), P("r", "b"), P("r", "D~1")>>, <<P("q", "x"), <<"r">>>>,
              <<<<"r", "D~1", "c">>, <<"r", "D~1", "gone">>>>, <<P("r", "a"), P("r", "a")>>}
MCSelections == {{2}, {1, 2}}

(* Names that differ in all that the parser sees of them.                  *)
N(first, blank, digits, eight) ==
  [first |-> first, blank |-> blank, digits |-> digits, eight |-> eight]
MCNames == << N("sharp", FALSE, "no", FALSE),      \* #1.txt
              N("semicolon", TRUE, "no", FALSE),   \* ; list.txt
              N("other", FALSE, "no", FALSE),      \* a.txt
              N("other", TRUE, "no", FALSE),       \* b c.txt
              N("other", FALSE, "pairs", TRUE),    \* deadbeef
              N("other", FALSE, "odd", FALSE) >>   \* feeds
Sfv == [kind |-> "sfv", algs |-> <<0>>]    \* CRC32
Hash == [kind |-> "hash", algs |-> <<>>]
Sum1 == [kind |-> "sum", algs |-> <<1>>]
MCExporters == {Sfv, Hash, Sum1}
MCSets == {{1}, {0, 1}}

ListAtRest == handled = 0 /\ list = <<>> /\ chosen = <<>> /\ entries = <<>>
  /\ listed = <<>> /\ base = <<>> /\ type = NotSumfile /\ stage = "done"
  /\ settings = [hash_sumfile_too |-> FALSE, look_for_sumfiles |-> FALSE, algorithms |-> {}]

JobAtRest == job = <<>> /\ saved = "no" /\ whole = <<>>
ParserAtRest ==
  /\ size = "tiny" /\ lines = <<>> /\ pc = "returned" /\ mapping = FALSE /\ view = FALSE
  /\ comment = "unknown" /\ hash = "unknown" /\ at = 0 /\ files = <<>>
  /\ output = <<>> /\ error = FALSE

Init ==
  \/ part = "list" /\ FileListInit /\ JobAtRest /\ ParserAtRest
  \/ part = "parse" /\ SumFileInit /\ JobAtRest /\ ListAtRest
  \/ part = "export" /\ ExportInit /\ ListAtRest

Next ==
  \/ part = "list" /\ FileListNext /\ UNCHANGED <<allVars, part>>
  \/ part = "parse" /\ SumFileNext /\ UNCHANGED <<exportVars, listVars, part>>
  \/ part = "export" /\ ExportNext /\ UNCHANGED <<listVars, part>>

Spec == Init /\ [][Next]_filesVars
=============================================================================
