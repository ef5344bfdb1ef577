----------------------------- MODULE Algorithms -----------------------------
(***************************************************************************)
(* The registry of algorithms (LegacyHasher.cpp), built from the library   *)
(* that fits the machine (Hasher2.cpp): which library, which entry stands  *)
(* for which of its algorithms with which parameters, and how long the     *)
(* digests are that a context of it says, checks and writes.               *)
(***************************************************************************)
EXTENDS Integers, Sequences, SequencesExt, FiniteSets

CONSTANTS
  Machines  \* [arch, leaves, cpuid, xcr0]: pages and bits of CPUID, and the
            \* registers that the operating system saves

(* The builds for 32 bits use SSE2 unasked.                                *)
ASSUME MachinesAssumption ==
  \A m \in Machines : /\ m.arch \in {"IX86", "X64", "ARM64"}
                      /\ m.arch = "IX86" => "SSE2" \in m.cpuid

VARIABLES
  machine,
  registry,  \* the entries of algorithms[] constructed so far
  context,   \* <<>>, or the entry that a HashBox was made for
  digest,    \* <<>>, or how much the buffer was sized and how much was written
  crashed    \* a null pointer was used

algVars == <<machine, registry, context, digest, crashed>>

(* get_cpu_level: AVX and later need pages up to 7, XGETBV, and the        *)
(* registers saved by the system.                                          *)
Sse2(m) == m.leaves # 0 /\ "SSE2" \in m.cpuid
Avx(m) == /\ Sse2(m) /\ m.leaves >= 7 /\ "OSXSAVE" \in m.cpuid
          /\ {"XMM", "YMM"} \subseteq m.xcr0 /\ "AVX" \in m.cpuid
Avx2(m) == Avx(m) /\ "AVX2" \in m.cpuid
Avx512_SystemUnasked(m) == Avx2(m) /\ {"AVX512F", "AVX512VL"} \subseteq m.cpuid
Avx512(m) == /\ Avx2(m) /\ {"AVX512F", "AVX512VL"} \subseteq m.cpuid
             /\ {"XMM", "YMM", "ZMM"} \subseteq m.xcr0

get_cpu_level(m) ==
  CASE m.arch = "IX86"  -> "X86"
    [] m.arch = "ARM64" -> "NEON"
    [] m.arch = "X64"   -> (CASE Avx512(m)                -> "AVX512"
                              [] Avx2(m) /\ ~Avx512(m)    -> "AVX2"
                              [] Avx(m) /\ ~Avx2(m)       -> "AVX"
                              [] Sse2(m) /\ ~Avx(m)       -> "SSE2"
                              [] OTHER                    -> "None")

(* The library whose table get_algorithms_begin and _end delimit; none     *)
(* gives two null pointers.                                                *)
Library(level) ==
  CASE level = "X86"             -> "x86"
    [] level \in {"SSE2", "AVX"} -> "SSE2"
    [] level \in {"AVX2", "AVX512"} -> level
    [] level = "NEON"            -> "ARM64"
    [] OTHER                     -> "none"

(* Hasher2.cpp: the sizes of contexts without parameters, and the checks   *)
(* and sizes of those with.                                                *)
QUICKXORHASH_SIZE == 20
FixedSizes ==
  [CRC32 |-> 4, CRC64 |-> 8, XXH32 |-> 4, XXH64 |-> 8, MD4 |-> 16, MD5 |-> 16,
   RipeMD160 |-> 20, BLAKE2sp |-> 32, eD2k |-> 16, QuickXorHash |-> QUICKXORHASH_SIZE]
MbedSizes == [n \in {"SHA-1", "SHA-224", "SHA-256", "SHA-384", "SHA-512"} |->
  CASE n = "SHA-1" -> 20 [] n = "SHA-224" -> 28 [] n = "SHA-256" -> 32
    [] n = "SHA-384" -> 48 [] n = "SHA-512" -> 64]
GostBits == [n \in {"GOST 2012 (256)", "GOST 2012 (512)"} |->
  IF n = "GOST 2012 (256)" THEN 256 ELSE 512]

Blake3ParamCheck(p) == IF p[1] % 8 # 0 THEN 0 ELSE p[1] \div 8
KeccakParamCheck(p) ==  \* what Keccak_HashInitialize accepts
  IF p[1] + p[2] # 1600 \/ p[1] \notin 1..1600 \/ p[1] % 8 # 0 \/ p[4] = 0 THEN 0
  ELSE p[3] \div 8
K12ParamCheck(p) == IF p[1] % 8 # 0 THEN 0 ELSE p[1] \div 8
PH128ParamCheck(p) == IF p[1] = 0 THEN 0 ELSE p[2] \div 8
PH256ParamCheck(p) == IF p[1] = 0 \/ p[2] % 8 # 0 THEN 0 ELSE p[2] \div 8

(* fixedOutputLength after the constructor: bytes for K12, else bits.      *)
K12OutputLength_InBits(p) == p[1]
K12OutputLength(p) == p[1] \div 8

ParamCheck(name, p) ==
  CASE name = "BLAKE3" -> Blake3ParamCheck(p) [] name = "Keccak" -> KeccakParamCheck(p)
    [] name = "K12"    -> K12ParamCheck(p)    [] name = "PH128"  -> PH128ParamCheck(p)
    [] name = "PH256"  -> PH256ParamCheck(p)
    [] name \in {"eD2k", "eD2k (Old)"} -> FixedSizes["eD2k"]
    [] name = "XXH3-64"            -> 8  [] name = "XXH3-128" -> 16
    [] name \in DOMAIN FixedSizes       -> FixedSizes[name]
    [] name \in DOMAIN MbedSizes   -> MbedSizes[name]
    [] name \in DOMAIN GostBits    -> GostBits[name] \div 8

GetOutputSize(name, p) ==
  CASE name = "BLAKE3" -> p[1] \div 8 [] name = "Keccak" -> p[3] \div 8
    [] name = "K12"    -> K12OutputLength(p)
    [] name \in {"PH128", "PH256"} -> p[2] \div 8
    [] OTHER           -> ParamCheck(name, p)

(* The shifts of the digests that are numbers, one per byte written.       *)
BytesOf(bits) == [i \in 1..(bits \div 8) |-> bits - 8 * i]
XXH3_128Bytes == BytesOf(64) \o BytesOf(64)  \* high64, low64

(* What Finish writes: its own bytes, the parameter's or the library's.    *)
Written(name, p) ==
  CASE name \in {"CRC32", "XXH32"} -> Len(BytesOf(32))
    [] name \in {"CRC64", "XXH64", "XXH3-64"} -> Len(BytesOf(64))
    [] name = "XXH3-128" -> Len(XXH3_128Bytes)
    [] OTHER -> GetOutputSize(name, p)

(* k_algorithms, in every library the same.                                *)
Insecure == {"CRC32", "CRC64", "XXH32", "XXH64", "XXH3-64", "XXH3-128", "MD4", "MD5",
             "eD2k", "eD2k (Old)", "QuickXorHash"}
Secure == {"RipeMD160", "SHA-1", "SHA-224", "SHA-256", "SHA-384", "SHA-512", "BLAKE2sp",
           "Keccak", "K12", "PH128", "PH256", "BLAKE3", "GOST 2012 (256)", "GOST 2012 (512)"}

(* algorithms[] as it is written: name, expected size, extensions, the     *)
(* library's name and parameters.                                          *)
k_count == 31
k_max_size == 66
Row(name, size, exts, alg, params) ==
  [name |-> name, size |-> size, exts |-> exts, alg |-> alg, params |-> params]
Same(name, size, exts) == Row(name, size, exts, name, <<>>)
SumExtensions(name) == {name, name \o "sum", name \o "sums"}

Rows == <<
  Same("CRC32", 4, {}), Same("CRC64", 8, {}),
  Same("XXH32", 4, {"xxh32"}), Same("XXH64", 8, {"xxh64"}),
  Same("XXH3-64", 8, {"xxh3-64"}), Same("XXH3-128", 16, {"xxh3-128"}),
  Same("MD4", 16, {"md4"}), Same("MD5", 16, SumExtensions("md5")),
  Same("RipeMD160", 20, {"ripemd160"}), Same("SHA-1", 20, SumExtensions("sha1")),
  Same("SHA-224", 28, {"sha224", "sha224sum"}), Same("SHA-256", 32, SumExtensions("sha256")),
  Same("SHA-384", 48, {"sha384"}), Same("SHA-512", 64, SumExtensions("sha512")),
  Row("Blake2sp", 32, {"blake2sp"}, "BLAKE2sp", <<>>),
  Row("SHA3-224", 28, {"sha3-224"}, "Keccak", <<1152, 448, 224, 6>>),
  Row("SHA3-256", 32, {"sha3-256"}, "Keccak", <<1088, 512, 256, 6>>),
  Row("SHA3-384", 48, {"sha3-384"}, "Keccak", <<832, 768, 384, 6>>),
  Row("SHA3-512", 64, {"sha3", "sha3-512"}, "Keccak", <<576, 1024, 512, 6>>),
  Row("K12-264", 33, {"k12-264"}, "K12", <<264>>),
  Row("K12-256", 32, {}, "K12", <<256>>), Row("K12-512", 64, {}, "K12", <<512>>),
  Row("PH128-264", 33, {"ph128-264"}, "PH128", <<8192, 264>>),
  Row("PH256-528", 66, {"ph256-528"}, "PH256", <<8192, 528>>),
  Row("BLAKE3", 32, {"blake3"}, "BLAKE3", <<256>>),
  Row("BLAKE3-512", 64, {}, "BLAKE3", <<512>>),
  Same("GOST 2012 (256)", 32, {}), Same("GOST 2012 (512)", 64, {}),
  Same("eD2k", 16, {}), Same("eD2k (Old)", 16, {}), Same("QuickXorHash", 20, {}) >>

(* The constructor: an entry whose algorithm the library does not have     *)
(* stays without one, with size 0.                                         *)
Found(row) == Library(get_cpu_level(machine)) # "none" /\ row.alg \in Insecure \cup Secure
Constructed(row) ==
  [name |-> row.name, exts |-> row.exts, params |-> row.params, expected |-> row.size,
   algorithm |-> IF Found(row) THEN row.alg ELSE "none",
   size |-> IF Found(row) THEN ParamCheck(row.alg, row.params) ELSE 0,
   secure |-> Found(row) /\ row.alg \in Secure]

AlgInit ==
  /\ machine \in Machines
  /\ registry = <<>> /\ context = <<>> /\ digest = <<>> /\ crashed = FALSE

ConstructEntry ==
  /\ Len(registry) < k_count
  /\ registry' = Append(registry, Constructed(Rows[Len(registry) + 1]))
  /\ UNCHANGED <<machine, context, digest, crashed>>

(* LegacyHashAlgorithm::MakeContext goes through _algorithm.               *)
MakeContext(i) ==
  /\ Len(registry) = k_count /\ context = <<>> /\ ~crashed
  /\ IF registry[i].algorithm = "none"
     THEN crashed' = TRUE /\ UNCHANGED context
     ELSE context' = <<registry[i]>> /\ UNCHANGED crashed
  /\ digest' = <<>>
  /\ UNCHANGED <<machine, registry>>

(* The buffer is sized by GetOutputSize (FileHashTask) or by the entry     *)
(* (Benchmark), then filled, and the box is destroyed.                     *)
FinishContext ==
  /\ context # <<>>
  /\ LET e == context[1]
     IN  digest' = <<[size |-> e.size, resized |-> GetOutputSize(e.algorithm, e.params),
                      written |-> Written(e.algorithm, e.params)]>>
  /\ context' = <<>>
  /\ UNCHANGED <<machine, registry, crashed>>

AlgNext == ConstructEntry \/ (\E i \in 1..k_count : MakeContext(i)) \/ FinishContext
AlgSpec == AlgInit /\ [][AlgNext]_algVars
-----------------------------------------------------------------------------
(* blake3_dispatch.c: what each build of the library calls, by the macros  *)
(* its flags define.                                                       *)
Macros(lib) ==
  CASE lib = "AVX512" -> {"AVX512", "AVX2", "SSE4_1", "SSE2"}
    [] lib = "AVX2"   -> {"AVX2", "SSE4_1", "SSE2"}
    [] lib = "SSE2"   -> {"SSE2"}
    [] lib = "x86"    -> {"SSE2"}
    [] lib = "ARM64"  -> {"NEON"}
    [] OTHER          -> {}
First(lib, order) ==
  LET defined == {i \in DOMAIN order : order[i] \in Macros(lib)}
  IN  IF defined = {} THEN "portable"
      ELSE order[CHOOSE i \in defined : \A j \in defined : i <= j]
blake3_compress(lib) == First(lib, <<"AVX512", "SSE4_1", "SSE2">>)
blake3_hash_many(lib) == First(lib, <<"AVX512", "AVX2", "SSE4_1", "SSE2", "NEON">>)

(* What the functions of BLAKE3 are written in, by bits of CPUID, and what *)
(* the compiler may use by the flag /arch of a library: for clang-cl, AVX2 *)
(* and AVX512 each allow much more than the bit of their name.             *)
Avx2Family == {"AVX", "AVX2", "BMI1", "BMI2", "FMA", "F16C", "LZCNT", "MOVBE"}
Avx512Family == {"AVX512F", "AVX512VL", "AVX512BW", "AVX512DQ", "AVX512CD"}
WrittenIn(f) ==
  CASE f = "AVX512" -> {"AVX512F", "AVX512VL"} [] f = "AVX2" -> {"AVX2"}
    [] f = "SSE4_1" -> {"SSE4_1"} [] f = "SSE2" -> {"SSE2"} [] OTHER -> {}
Allowed(lib) ==
  CASE lib = "AVX512" -> Avx512Family \cup Avx2Family [] lib = "AVX2" -> Avx2Family
    [] lib = "SSE2"   -> {"SSE2"} [] OTHER -> {}
Registers(lib) ==
  CASE lib = "AVX512" -> {"YMM", "ZMM"} [] lib = "AVX2" -> {"YMM"} [] OTHER -> {}

(* The bits that CPUs have together.  The code relies on it: it asks for   *)
(* AVX2, AVX512F and AVX512VL only, for the rest of the families never.    *)
FamiliesWhole(m) ==
  /\ "AVX" \in m.cpuid => "SSE4_1" \in m.cpuid
  /\ "AVX2" \in m.cpuid => Avx2Family \subseteq m.cpuid
  /\ "AVX512VL" \in m.cpuid => Avx512Family \subseteq m.cpuid

(* The library chosen needs no registers that the system does not save     *)
(* when it switches threads.  On a machine whose families are whole it has *)
(* no instructions that are missing, neither those the compiler may use    *)
(* nor those of the functions BLAKE3 picks; on one where they are not (a   *)
(* virtual one may hide any bit) it may: nothing stands against that.      *)
OnlyExecutable ==
  LET lib == Library(get_cpu_level(machine))
      picked == {blake3_compress(lib), blake3_hash_many(lib)}
  IN  /\ Registers(lib) \subseteq machine.xcr0
      /\ "NEON" \in picked => machine.arch = "ARM64"
      /\ FamiliesWhole(machine) =>
           Allowed(lib) \cup UNION {WrittenIn(f) : f \in picked} \subseteq machine.cpuid

(* The table of algorithms is right: by the assertions of the constructor  *)
(* and of Benchmark.cpp every entry has the size the table expects, and a  *)
(* context says so too and fills exactly that much, which fits every fixed *)
(* buffer; an extension belongs to one algorithm only, for path.cpp takes  *)
(* the last that has it and the exporter any, and a name to one entry, for *)
(* it is the key of the setting and of ByName.                             *)
TableSound ==
  /\ \A i \in DOMAIN registry : registry[i].algorithm # "none" =>
       registry[i].size = registry[i].expected /\ registry[i].size \in 1..k_max_size
  /\ digest # <<>> => digest[1].resized = digest[1].size /\ digest[1].written = digest[1].size
  /\ \A i, j \in DOMAIN registry : i # j =>
       registry[i].exts \cap registry[j].exts = {} /\ registry[i].name # registry[j].name
=============================================================================
