----------------------------- MODULE MCLibrary ------------------------------
(***************************************************************************)
(* One run for what has no state of its own beside a call or an object:    *)
(* "streams" are the contexts of algorithms, "registry" the choice of the  *)
(* library and the table of algorithms, "box" the owner of a context,      *)
(* "codec" the conversions.                                                *)
(***************************************************************************)
EXTENDS Streams, Algorithms, HashBox, Codec

VARIABLE part
libraryVars == <<streamVars, algVars, boxVars, codecVars, part>>

(* Every x64 machine by the bits that are asked for, with and without      *)
(* those that come along, and the other two architectures; Windows on x64  *)
(* and on x86 needs SSE2.                                                  *)
Optional == {"OSXSAVE", "AVX", "AVX2", "AVX512F", "AVX512VL"}
Companions == {{}, {"SSE4_1"}, {"SSE4_1"} \cup Avx2Family,
               {"SSE4_1"} \cup Avx2Family \cup Avx512Family}
Saved == {{}, {"XMM", "YMM"}, {"XMM", "YMM", "ZMM"}}
Arm == [arch |-> "ARM64", leaves |-> 7, cpuid |-> {"SSE2"}, xcr0 |-> {}]
MCMachines ==
  {[arch |-> "X64", leaves |-> n, cpuid |-> {"SSE2"} \cup bits \cup more, xcr0 |-> saved] :
     n \in {0, 1, 7}, bits \in SUBSET Optional, more \in Companions, saved \in Saved}
  \cup {Arm, [Arm EXCEPT !.arch = "IX86"]}

StreamsAtRest == algorithm = "eD2k"
RegistryAtRest == machine = Arm
CodecAtRest == job = "text" /\ input = <<>>

Init ==
  /\ \/ part = "streams" /\ RegistryAtRest /\ CodecAtRest
     \/ part = "registry" /\ StreamsAtRest /\ CodecAtRest
     \/ part = "box" /\ StreamsAtRest /\ RegistryAtRest /\ CodecAtRest
     \/ part = "codec" /\ StreamsAtRest /\ RegistryAtRest
  /\ StreamsInit /\ AlgInit /\ HashBoxInit /\ CodecInit

Next ==
  \/ part = "streams" /\ StreamsNext /\ UNCHANGED <<algVars, boxVars, codecVars, part>>
  \/ part = "registry" /\ AlgNext /\ UNCHANGED <<streamVars, boxVars, codecVars, part>>
  \/ part = "box" /\ HashBoxNext /\ UNCHANGED <<streamVars, algVars, codecVars, part>>
  \/ part = "codec" /\ CodecNext /\ UNCHANGED <<streamVars, algVars, boxVars, part>>

Spec == Init /\ [][Next]_libraryVars
=============================================================================
