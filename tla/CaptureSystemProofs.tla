------------------------ MODULE CaptureSystemProofs ------------------------
(***************************************************************************)
(* Proofs about CaptureSystem, for any number of CPUs, sockets and         *)
(* connections, any files and any faults of TLSHub.                        *)
(***************************************************************************)
EXTENDS CaptureSystem, KeyProviderProofs, FiniteSetTheorems

USE DEF systemVars, kernelVars, keyVars, fileVars, pollVars, vars, serviceVars, clientVars,
        providerVars
----------------------------------------------------------------------------
(* Reading a file line by line.  The loop is a fold over the indices of    *)
(* the lines, the last one outermost; induction is by a smallest           *)
(* counterexample.                                                         *)

LEMMA Least ==
  ASSUME NEW N \in SUBSET Nat, N # {}
  PROVE  \E m \in N : \A n \in N : m <= n
<1>1. IsWellFoundedOn({p \in Nat \X Nat : p[1] < p[2]}, Nat)
  BY NatLessThanWellFounded DEF OpToRel
<1>2. PICK m \in N : \A n \in N : ~(<<n, m>> \in {p \in Nat \X Nat : p[1] < p[2]})
  BY <1>1, WFMin
<1>3. \A n \in N : ~(n < m)
  BY <1>2
<1>. QED BY <1>3

LEMMA MaxFacts ==
  ASSUME NEW n \in Nat, NEW s \in SUBSET (0 .. n), s # {}
  PROVE  Max(s) \in s /\ \A x \in s : x <= Max(s)
<1>. DEFINE Bounds == {b \in Nat : \A x \in s : x <= b}
<1>1. Bounds \in SUBSET Nat /\ n \in Bounds
  OBVIOUS
<1>2. PICK b \in Bounds : \A m \in Bounds : b <= m
  <2>. HIDE DEF Bounds
  <2>. QED BY <1>1, Least
<1>3. b \in s
  <2>. SUFFICES ASSUME b \notin s PROVE FALSE
    OBVIOUS
  <2>1. PICK x \in s : TRUE
    OBVIOUS
  <2>2. b - 1 \in Bounds
    BY <1>2, <2>1
  <2>. QED BY <1>2, <2>2
<1>4. \A x \in s : b >= x /\ x <= b
  BY <1>2
<1>5. Max(s) \in s /\ \A x \in s : Max(s) >= x
  BY <1>3, <1>4 DEF Max
<1>. QED BY <1>5

(* What is left when the last index is taken away.                         *)
LEMMA RestFacts ==
  ASSUME NEW n \in Nat, NEW k \in Nat, NEW s \in SUBSET (1 .. n), s # {}, \A x \in s : x <= k
  PROVE  /\ Max(s) \in 1 .. n /\ s \ {Max(s)} \in SUBSET (1 .. n)
         /\ k > 0 /\ \A x \in s \ {Max(s)} : x <= k - 1
<1>1. PICK m : m = Max(s) /\ m \in s /\ \A x \in s : x <= m
  BY MaxFacts
<1>2. k > 0 /\ \A x \in s \ {m} : x <= k - 1
  BY <1>1
<1>. QED BY <1>1, <1>2

(* A recursion over the lines has a solution.                              *)
Solution(g, n, V, base, F) ==
  /\ g \in [SUBSET (1 .. n) -> V]
  /\ \A s \in SUBSET (1 .. n) : g[s] = IF s = {} THEN base ELSE F[<<Max(s), g[s \ {Max(s)}]>>]

LEMMA RecursionExists ==
  ASSUME NEW n \in Nat, NEW V, NEW base \in V, NEW F \in [(1 .. n) \X V -> V]
  PROVE  \E g : Solution(g, n, V, base, F)
<1>. DEFINE Layer(k) == {s \in SUBSET (1 .. n) : \A x \in s : x <= k}
            Solves(g, k) ==
              /\ g \in [Layer(k) -> V]
              /\ \A s \in Layer(k) : g[s] = IF s = {} THEN base ELSE F[<<Max(s), g[s \ {Max(s)}]>>]
            Bad == {k \in Nat : ~\E g : Solves(g, k)}
<1>1. Bad = {}
  <2>. SUFFICES ASSUME Bad # {} PROVE FALSE
    OBVIOUS
  <2>1. PICK k \in Bad : \A m \in Bad : k <= m
    <3>1. Bad \in SUBSET Nat
      OBVIOUS
    <3>. HIDE DEF Bad
    <3>. QED BY <3>1, Least
  <2>2. k \in Nat /\ k # 0
    <3>1. Layer(0) = {{}}
      OBVIOUS
    <3>2. Solves([s \in Layer(0) |-> base], 0)
      BY <3>1
    <3>. HIDE DEF Solves
    <3>. QED BY <2>1, <3>2
  <2>3. k \in Nat /\ k - 1 \in Nat /\ k - 1 \notin Bad
    <3>. HIDE DEF Bad
    <3>. QED BY <2>1, <2>2
  <2>4. PICK g : Solves(g, k - 1)
    BY <2>3
  <2>5. PICK h : h = [s \in Layer(k) |-> IF s \in Layer(k - 1) THEN g[s] ELSE F[<<Max(s), g[s \ {Max(s)}]>>]]
    OBVIOUS
  <2>6. ASSUME NEW s \in Layer(k), s # {}
        PROVE  s \ {Max(s)} \in Layer(k - 1) /\ Max(s) \in 1 .. n
    BY <2>3, <2>6, RestFacts
  <2>7. Layer(k - 1) \subseteq Layer(k) /\ {} \in Layer(k - 1)
    BY <2>3
  <2>8. \A s \in Layer(k - 1) : h[s] = g[s]
    BY <2>5, <2>7
  <2>9. ASSUME NEW s \in Layer(k)
        PROVE  h[s] \in V /\ h[s] = IF s = {} THEN base ELSE F[<<Max(s), h[s \ {Max(s)}]>>]
    <3>1. CASE s = {}
      BY <2>4, <2>7, <2>8, <3>1
    <3>2. CASE s # {}
      <4>1. s \ {Max(s)} \in Layer(k - 1) /\ Max(s) \in 1 .. n
        BY <2>6, <3>2
      <4>2. h[s \ {Max(s)}] = g[s \ {Max(s)}] /\ g[s \ {Max(s)}] \in V
        BY <2>4, <2>8, <4>1
      <4>3. h[s] = F[<<Max(s), g[s \ {Max(s)}]>>]
        BY <2>4, <2>5, <3>2
      <4>. QED BY <3>2, <4>1, <4>2, <4>3
    <3>. QED BY <3>1, <3>2
  <2>10. Solves(h, k)
    BY <2>5, <2>9
  <2>. QED BY <2>1, <2>10
<1>2. PICK g : Solves(g, n)
  BY <1>1
<1>3. Layer(n) = SUBSET (1 .. n)
  OBVIOUS
<1>. QED BY <1>2, <1>3 DEF Solution

LEMMA IntervalFacts ==
  ASSUME NEW n \in Nat, NEW k \in 1 .. n
  PROVE  Max(1 .. k) = k /\ (1 .. k) \ {k} = 1 .. (k - 1) /\ 1 .. k \in SUBSET (1 .. n) /\ 1 .. k # {}
<1>1. 1 .. k \in SUBSET (1 .. n) /\ 1 .. k # {} /\ k \in 1 .. k
  OBVIOUS
<1>2. PICK m : m = Max(1 .. k) /\ m \in 1 .. k /\ \A x \in 1 .. k : x <= m
  <2>1. 1 .. k \in SUBSET (0 .. n)
    OBVIOUS
  <2>. QED BY <1>1, <2>1, MaxFacts
<1>3. m = k
  BY <1>1, <1>2
<1>4. (1 .. k) \ {k} = 1 .. (k - 1)
  OBVIOUS
<1>. QED BY <1>1, <1>2, <1>3, <1>4

(* load_config, a line at a time.                                          *)
NoConfig == [mode |-> "TLSHUB", path |-> DefaultPath]

LEMMA ConfigFold ==
  ASSUME NEW n \in Nat, NEW lines, DOMAIN lines = 1 .. n
  PROVE  \E h : /\ h[0] = NoConfig
                /\ \A k \in 1 .. n : h[k] = ApplyLine(h[k - 1], lines[k])
                /\ FoldLeft(ApplyLine, NoConfig, lines) = h[n]
<1>. DEFINE Values == {"TLSHUB", "OPENSSL", "BORINGSSL"}
            Paths == {DefaultPath} \cup {lines[i].words[3] : i \in 1 .. n}
            V == [mode : Values, path : Paths]
<1>1. NoConfig \in V
  BY DEF NoConfig
<1>2. ASSUME NEW i \in 1 .. n, NEW v \in V
      PROVE  ApplyLine(v, lines[i]) \in V
  <2>1. CASE SetsMode(lines[i])
    <3>1. ModeNames[lines[i].words[3]] \in Values
      BY <2>1 DEF SetsMode, ModeNames
    <3>. QED BY <2>1, <3>1 DEF ApplyLine
  <2>2. CASE ~SetsMode(lines[i])
    BY <2>2 DEF ApplyLine
  <2>. QED BY <2>1, <2>2
<1>. HIDE DEF V
<1>3. PICK F \in [(1 .. n) \X V -> V] : \A i \in 1 .. n, v \in V : F[<<i, v>>] = ApplyLine(v, lines[i])
  <2>1. [p \in (1 .. n) \X V |-> ApplyLine(p[2], lines[p[1]])] \in [(1 .. n) \X V -> V]
    BY <1>2
  <2>. QED BY <2>1
<1>4. PICK f : Solution(f, n, V, NoConfig, F)
  BY <1>1, <1>3, RecursionExists
<1>5. ASSUME NEW s \in SUBSET (1 .. n)
      PROVE  f[s] = IF s = {} THEN NoConfig ELSE ApplyLine(f[s \ {Max(s)}], lines[Max(s)])
  <2>1. CASE s = {}
    BY <1>4, <2>1 DEF Solution
  <2>2. CASE s # {}
    <3>1. \A x \in s : x <= n
      OBVIOUS
    <3>2. Max(s) \in 1 .. n /\ s \ {Max(s)} \in SUBSET (1 .. n)
      BY <2>2, <3>1, RestFacts
    <3>3. f[s \ {Max(s)}] \in V
      BY <1>4, <3>2 DEF Solution
    <3>4. F[<<Max(s), f[s \ {Max(s)}]>>] = ApplyLine(f[s \ {Max(s)}], lines[Max(s)])
      BY <1>3, <3>2, <3>3
    <3>. QED BY <1>4, <2>2, <3>4 DEF Solution
  <2>. QED BY <2>1, <2>2
<1>6. f = [s \in SUBSET (1 .. n) |->
             IF s = {} THEN NoConfig ELSE ApplyLine(f[s \ {Max(s)}], lines[Max(s)])]
  BY <1>4, <1>5 DEF Solution
<1>7. PICK g : /\ g = [s \in SUBSET (1 .. n) |->
                         IF s = {} THEN NoConfig ELSE ApplyLine(g[s \ {Max(s)}], lines[Max(s)])]
               /\ FoldLeft(ApplyLine, NoConfig, lines) = g[1 .. n]
  BY <1>6, Zenon DEF FoldLeft, MapThenFoldSet
<1>8. PICK h : h = [k \in 0 .. n |-> g[1 .. k]]
  OBVIOUS
<1>9. h[0] = NoConfig
  <2>1. 1 .. 0 = {} /\ 0 \in 0 .. n
    OBVIOUS
  <2>. QED BY <1>7, <1>8, <2>1
<1>10. ASSUME NEW k \in 1 .. n
       PROVE  h[k] = ApplyLine(h[k - 1], lines[k])
  <2>1. h[k] = g[1 .. k] /\ h[k - 1] = g[1 .. (k - 1)]
    BY <1>8
  <2>2. Max(1 .. k) = k /\ (1 .. k) \ {k} = 1 .. (k - 1) /\ 1 .. k \in SUBSET (1 .. n) /\ 1 .. k # {}
    BY IntervalFacts
  <2>3. g[1 .. k] = ApplyLine(g[1 .. (k - 1)], lines[k])
    BY <1>7, <2>2
  <2>. QED BY <2>1, <2>3
<1>11. h[n] = g[1 .. n]
  BY <1>8
<1>12. FoldLeft(ApplyLine, NoConfig, lines) = h[n]
  BY <1>7, <1>11, Zenon
<1>. QED BY <1>9, <1>10, <1>12, Zenon

(* After k lines the configuration is what the last of them that set it    *)
(* says.                                                                   *)
Reads(v, lines, k) ==
  \E m, p \in 0 .. k :
    /\ m = 0 \/ SetsMode(lines[m])
    /\ p = 0 \/ SetsPath(lines[p])
    /\ \A i \in 1 .. k : SetsMode(lines[i]) => i <= m
    /\ \A i \in 1 .. k : SetsPath(lines[i]) => i <= p
    /\ v = [mode |-> IF m = 0 THEN "TLSHUB" ELSE ModeNames[lines[m].words[3]],
            path |-> IF p = 0 THEN DefaultPath ELSE lines[p].words[3]]

LEMMA LineRead ==
  ASSUME NEW k \in Nat \ {0}, NEW lines, NEW v, Reads(v, lines, k - 1)
  PROVE  Reads(ApplyLine(v, lines[k]), lines, k)
<1>1. PICK m \in 0 .. k - 1, p \in 0 .. k - 1 :
        /\ m = 0 \/ SetsMode(lines[m])
        /\ p = 0 \/ SetsPath(lines[p])
        /\ \A i \in 1 .. k - 1 : SetsMode(lines[i]) => i <= m
        /\ \A i \in 1 .. k - 1 : SetsPath(lines[i]) => i <= p
        /\ v = [mode |-> IF m = 0 THEN "TLSHUB" ELSE ModeNames[lines[m].words[3]],
                path |-> IF p = 0 THEN DefaultPath ELSE lines[p].words[3]]
  BY DEF Reads
<1>2. \A i \in 1 .. k : i \in 1 .. k - 1 \/ i = k
  OBVIOUS
<1>3. m \in 0 .. k /\ p \in 0 .. k /\ k \in 0 .. k /\ m <= k /\ p <= k
  OBVIOUS
<1>4. ~(SetsMode(lines[k]) /\ SetsPath(lines[k]))
  BY DEF SetsMode, SetsPath
<1>5. CASE SetsMode(lines[k])
  <2>1. ApplyLine(v, lines[k]) = [mode |-> ModeNames[lines[k].words[3]],
                                 path |-> IF p = 0 THEN DefaultPath ELSE lines[p].words[3]]
    BY <1>1, <1>5 DEF ApplyLine
  <2>2. \A i \in 1 .. k : SetsPath(lines[i]) => i <= p
    BY <1>1, <1>2, <1>4, <1>5
  <2>3. \A i \in 1 .. k : i <= k
    OBVIOUS
  <2>4. k # 0
    OBVIOUS
  <2>. QED BY <1>1, <1>3, <1>5, <2>1, <2>2, <2>3, <2>4 DEF Reads
<1>6. CASE SetsPath(lines[k])
  <2>1. ApplyLine(v, lines[k]) = [mode |-> IF m = 0 THEN "TLSHUB" ELSE ModeNames[lines[m].words[3]],
                                 path |-> lines[k].words[3]]
    BY <1>1, <1>4, <1>6 DEF ApplyLine
  <2>2. \A i \in 1 .. k : SetsMode(lines[i]) => i <= m
    BY <1>1, <1>2, <1>4, <1>6
  <2>3. \A i \in 1 .. k : i <= k
    OBVIOUS
  <2>4. k # 0
    OBVIOUS
  <2>. QED BY <1>1, <1>3, <1>6, <2>1, <2>2, <2>3, <2>4 DEF Reads
<1>7. CASE ~SetsMode(lines[k]) /\ ~SetsPath(lines[k])
  <2>1. ApplyLine(v, lines[k]) = v
    BY <1>7 DEF ApplyLine
  <2>2. /\ \A i \in 1 .. k : SetsMode(lines[i]) => i <= m
        /\ \A i \in 1 .. k : SetsPath(lines[i]) => i <= p
    BY <1>1, <1>2, <1>7
  <2>. QED BY <1>1, <1>3, <2>1, <2>2 DEF Reads
<1>. QED BY <1>5, <1>6, <1>7

(* A property of 0 that goes from k - 1 to k holds up to n.                *)
LEMMA UpwardInduction ==
  ASSUME NEW n \in Nat, NEW Good \in SUBSET Nat, 0 \in Good,
         \A k \in 1 .. n : k - 1 \in Good => k \in Good
  PROVE  n \in Good
<1>. SUFFICES ASSUME n \notin Good PROVE FALSE
  OBVIOUS
<1>1. PICK b \in (0 .. n) \ Good : \A m \in (0 .. n) \ Good : b <= m
  <2>1. (0 .. n) \ Good \in SUBSET Nat /\ (0 .. n) \ Good # {}
    OBVIOUS
  <2>. QED BY <2>1, Least
<1>2. b # 0 /\ b \in 1 .. n /\ b - 1 \in 0 .. n
  BY <1>1
<1>3. b - 1 \in Good
  BY <1>1, <1>2
<1>. QED BY <1>1, <1>2, <1>3

LEMMA ConfigRead ==
  ASSUME NEW file, file # NoFile => \E n \in Nat : DOMAIN file = 1 .. n
  PROVE  ConfigSays(file, load_config(file)) /\ load_config(file).mode \in {"TLSHUB", "OPENSSL", "BORINGSSL"}
<1>1. PICK lines : lines = IF file = NoFile THEN <<>> ELSE file
  OBVIOUS
<1>2. PICK n \in Nat : DOMAIN lines = 1 .. n
  <2>1. DOMAIN <<>> = 1 .. 0 /\ 0 \in Nat
    OBVIOUS
  <2>. QED BY <1>1, <2>1
<1>3. PICK h : /\ h[0] = NoConfig
               /\ \A k \in 1 .. n : h[k] = ApplyLine(h[k - 1], lines[k])
               /\ FoldLeft(ApplyLine, NoConfig, lines) = h[n]
  BY <1>2, ConfigFold
<1>. DEFINE Good == {k \in 0 .. n : Reads(h[k], lines, k)}
<1>4. 0 \in Good
  <2>1. Reads(h[0], lines, 0)
    BY <1>3 DEF Reads, NoConfig
  <2>. QED BY <2>1
<1>5. ASSUME NEW k \in 1 .. n, k - 1 \in Good
      PROVE  k \in Good
  <2>1. k \in Nat \ {0} /\ Reads(h[k - 1], lines, k - 1)
    BY <1>5
  <2>2. Reads(h[k], lines, k)
    BY <1>3, <2>1, LineRead
  <2>. QED BY <2>2
<1>6. Reads(h[n], lines, n)
  <2>1. Good \in SUBSET Nat
    OBVIOUS
  <2>2. n \in Good
    <3>. HIDE DEF Good
    <3>. QED BY <1>4, <1>5, <2>1, UpwardInduction
  <2>. QED BY <2>2
<1>7. load_config(file) = h[n]
  BY <1>1, <1>3, Zenon DEF load_config, NoConfig
<1>8. PICK m \in 0 .. n, p \in 0 .. n :
        /\ m = 0 \/ SetsMode(lines[m])
        /\ p = 0 \/ SetsPath(lines[p])
        /\ \A i \in 1 .. n : SetsMode(lines[i]) => i <= m
        /\ \A i \in 1 .. n : SetsPath(lines[i]) => i <= p
        /\ load_config(file) = [mode |-> IF m = 0 THEN "TLSHUB" ELSE ModeNames[lines[m].words[3]],
                                path |-> IF p = 0 THEN DefaultPath ELSE lines[p].words[3]]
  BY <1>6, <1>7 DEF Reads
<1>9. LastLine(lines, SetsMode) = m
  <2>1. PICK N : N = {0} \cup {i \in DOMAIN lines : SetsMode(lines[i])}
    OBVIOUS
  <2>2. N \in SUBSET (0 .. n) /\ N # {} /\ m \in N /\ \A i \in N : i <= m
    BY <1>2, <1>8, <2>1
  <2>3. Max(N) = m
    <3>1. PICK x : x = Max(N) /\ x \in N /\ \A i \in N : i <= x
      BY <2>2, MaxFacts
    <3>. QED BY <2>2, <3>1
  <2>. QED BY <2>1, <2>3, Zenon DEF LastLine
<1>10. LastLine(lines, SetsPath) = p
  <2>1. PICK N : N = {0} \cup {i \in DOMAIN lines : SetsPath(lines[i])}
    OBVIOUS
  <2>2. N \in SUBSET (0 .. n) /\ N # {} /\ p \in N /\ \A i \in N : i <= p
    BY <1>2, <1>8, <2>1
  <2>3. Max(N) = p
    <3>1. PICK x : x = Max(N) /\ x \in N /\ \A i \in N : i <= x
      BY <2>2, MaxFacts
    <3>. QED BY <2>2, <3>1
  <2>. QED BY <2>1, <2>3, Zenon DEF LastLine
<1>11. /\ load_config(file).mode = (IF m = 0 THEN "TLSHUB" ELSE ModeNames[lines[m].words[3]])
       /\ load_config(file).path = (IF p = 0 THEN DefaultPath ELSE lines[p].words[3])
  BY <1>8
<1>12. load_config(file).mode \in {"TLSHUB", "OPENSSL", "BORINGSSL"}
  BY <1>8, <1>11 DEF SetsMode, ModeNames
<1>13. ConfigSays(file, load_config(file))
  BY <1>1, <1>9, <1>10, <1>11, Zenon DEF ConfigSays
<1>. QED BY <1>12, <1>13

(* init_pod_node_mapping, a line at a time.                                *)
Entry(line) == [pod_name |-> line.words[1], node_name |-> line.words[2]]

LEMMA MappingFold ==
  ASSUME NEW n \in Nat, NEW lines, DOMAIN lines = 1 .. n
  PROVE  \E h : /\ h[0] = <<>>
                /\ \A k \in 1 .. n : h[k] = AddMapping(h[k - 1], lines[k])
                /\ FoldLeft(AddMapping, <<>>, lines) = h[n]
<1>. DEFINE E == {Entry(lines[i]) : i \in 1 .. n}
            V == Seq(E)
<1>1. <<>> \in V
  OBVIOUS
<1>2. ASSUME NEW i \in 1 .. n, NEW v \in V
      PROVE  AddMapping(v, lines[i]) \in V
  <2>1. Entry(lines[i]) \in E
    OBVIOUS
  <2>. HIDE DEF E
  <2>2. Append(v, Entry(lines[i])) \in V
    BY <2>1
  <2>. QED BY <2>2 DEF AddMapping, Entry
<1>. HIDE DEF V
<1>3. PICK F \in [(1 .. n) \X V -> V] : \A i \in 1 .. n, v \in V : F[<<i, v>>] = AddMapping(v, lines[i])
  <2>1. [p \in (1 .. n) \X V |-> AddMapping(p[2], lines[p[1]])] \in [(1 .. n) \X V -> V]
    BY <1>2
  <2>. QED BY <2>1
<1>4. PICK f : Solution(f, n, V, <<>>, F)
  BY <1>1, <1>3, RecursionExists
<1>5. ASSUME NEW s \in SUBSET (1 .. n)
      PROVE  f[s] = IF s = {} THEN <<>> ELSE AddMapping(f[s \ {Max(s)}], lines[Max(s)])
  <2>1. CASE s = {}
    BY <1>4, <2>1 DEF Solution
  <2>2. CASE s # {}
    <3>1. \A x \in s : x <= n
      OBVIOUS
    <3>2. Max(s) \in 1 .. n /\ s \ {Max(s)} \in SUBSET (1 .. n)
      BY <2>2, <3>1, RestFacts
    <3>3. f[s \ {Max(s)}] \in V
      BY <1>4, <3>2 DEF Solution
    <3>4. F[<<Max(s), f[s \ {Max(s)}]>>] = AddMapping(f[s \ {Max(s)}], lines[Max(s)])
      BY <1>3, <3>2, <3>3
    <3>. QED BY <1>4, <2>2, <3>4 DEF Solution
  <2>. QED BY <2>1, <2>2
<1>6. f = [s \in SUBSET (1 .. n) |->
             IF s = {} THEN <<>> ELSE AddMapping(f[s \ {Max(s)}], lines[Max(s)])]
  BY <1>4, <1>5 DEF Solution
<1>7. PICK g : /\ g = [s \in SUBSET (1 .. n) |->
                         IF s = {} THEN <<>> ELSE AddMapping(g[s \ {Max(s)}], lines[Max(s)])]
               /\ FoldLeft(AddMapping, <<>>, lines) = g[1 .. n]
  BY <1>6, Zenon DEF FoldLeft, MapThenFoldSet
<1>8. PICK h : h = [k \in 0 .. n |-> g[1 .. k]]
  OBVIOUS
<1>9. h[0] = <<>>
  <2>1. 1 .. 0 = {} /\ 0 \in 0 .. n
    OBVIOUS
  <2>. QED BY <1>7, <1>8, <2>1
<1>10. ASSUME NEW k \in 1 .. n
       PROVE  h[k] = AddMapping(h[k - 1], lines[k])
  <2>1. h[k] = g[1 .. k] /\ h[k - 1] = g[1 .. (k - 1)]
    BY <1>8
  <2>2. Max(1 .. k) = k /\ (1 .. k) \ {k} = 1 .. (k - 1) /\ 1 .. k \in SUBSET (1 .. n) /\ 1 .. k # {}
    BY IntervalFacts
  <2>3. g[1 .. k] = AddMapping(g[1 .. (k - 1)], lines[k])
    BY <1>7, <2>2
  <2>. QED BY <2>1, <2>3
<1>11. h[n] = g[1 .. n]
  BY <1>8
<1>12. FoldLeft(AddMapping, <<>>, lines) = h[n]
  BY <1>7, <1>11, Zenon
<1>. QED BY <1>9, <1>10, <1>12, Zenon

(* The mappings among the first k lines.                                   *)
Mappings(lines, k) == {i \in 1 .. k : IsMapping(lines[i])}
Rank(lines, i) == Cardinality(Mappings(lines, i - 1))

LEMMA MappingsFacts ==
  ASSUME NEW lines, NEW k \in Nat
  PROVE  /\ IsFiniteSet(Mappings(lines, k)) /\ Cardinality(Mappings(lines, k)) \in Nat
         /\ Mappings(lines, 0) = {} /\ Cardinality(Mappings(lines, 0)) = 0
         /\ Cardinality(Mappings(lines, k + 1)) =
               Cardinality(Mappings(lines, k)) + IF IsMapping(lines[k + 1]) THEN 1 ELSE 0
<1>1. IsFiniteSet(1 .. k) /\ Mappings(lines, k) \in SUBSET (1 .. k)
  BY FS_Interval DEF Mappings
<1>2. IsFiniteSet(Mappings(lines, k)) /\ Cardinality(Mappings(lines, k)) \in Nat
  BY <1>1, FS_Subset, FS_CardinalityType
<1>3. Mappings(lines, 0) = {} /\ Cardinality(Mappings(lines, 0)) = 0
  BY FS_EmptySet DEF Mappings
<1>4. CASE IsMapping(lines[k + 1])
  <2>1. Mappings(lines, k + 1) = Mappings(lines, k) \cup {k + 1} /\ k + 1 \notin Mappings(lines, k)
    BY <1>4 DEF Mappings
  <2>. QED BY <1>2, <1>3, <1>4, <2>1, FS_AddElement
<1>5. CASE ~IsMapping(lines[k + 1])
  <2>1. Mappings(lines, k + 1) = Mappings(lines, k)
    BY <1>5 DEF Mappings
  <2>. QED BY <1>2, <1>3, <1>5, <2>1
<1>. QED BY <1>4, <1>5

LEMMA RankFacts ==
  ASSUME NEW lines, NEW i \in Nat \ {0}, NEW j \in Nat, i < j, IsMapping(lines[i])
  PROVE  Rank(lines, i) \in Nat /\ Rank(lines, j) \in Nat /\ Rank(lines, i) < Rank(lines, j)
<1>1. i - 1 \in Nat /\ j - 1 \in Nat /\ (i - 1) + 1 = i
  OBVIOUS
<1>2. Cardinality(Mappings(lines, i)) = Cardinality(Mappings(lines, i - 1)) + 1
  BY <1>1, MappingsFacts
<1>3. Mappings(lines, i) \subseteq Mappings(lines, j - 1)
  BY DEF Mappings
<1>4. /\ Cardinality(Mappings(lines, i)) <= Cardinality(Mappings(lines, j - 1))
      /\ Cardinality(Mappings(lines, i - 1)) \in Nat /\ Cardinality(Mappings(lines, j - 1)) \in Nat
  BY <1>1, <1>3, MappingsFacts, FS_Subset
<1>. QED BY <1>2, <1>4 DEF Rank

(* After k lines the table has the first MaxMappings mappings among them.  *)
Holds(table, lines, k) ==
  /\ \E E : table \in Seq(E)
  /\ Len(table) = (IF Cardinality(Mappings(lines, k)) <= MaxMappings THEN Cardinality(Mappings(lines, k))
                                                                  ELSE MaxMappings)
  /\ \A i \in Mappings(lines, k) : Rank(lines, i) < MaxMappings =>
       Rank(lines, i) + 1 <= Len(table) /\ table[Rank(lines, i) + 1] = Entry(lines[i])
  /\ \A q \in 1 .. Len(table) : \E i \in Mappings(lines, k) : Rank(lines, i) = q - 1

LEMMA MappingLine ==
  ASSUME NEW k \in Nat \ {0}, NEW lines, NEW table, Holds(table, lines, k - 1)
  PROVE  Holds(AddMapping(table, lines[k]), lines, k)
<1>. DEFINE old == Mappings(lines, k - 1)
            new == Mappings(lines, k)
<1>1. PICK C \in Nat : C = Cardinality(old) /\ C = Rank(lines, k)
  <2>1. k - 1 \in Nat
    OBVIOUS
  <2>. QED BY <2>1, MappingsFacts DEF Rank
<1>2. Cardinality(new) = C + IF IsMapping(lines[k]) THEN 1 ELSE 0
  <2>1. k - 1 \in Nat /\ (k - 1) + 1 = k
    OBVIOUS
  <2>2. Cardinality(Mappings(lines, (k - 1) + 1)) =
          Cardinality(Mappings(lines, k - 1)) + IF IsMapping(lines[(k - 1) + 1]) THEN 1 ELSE 0
    BY <2>1, MappingsFacts
  <2>. QED BY <1>1, <2>1, <2>2
<1>3. MaxMappings \in Nat
  BY MappingsAssumption
<1>4. PICK E : table \in Seq(E)
  BY DEF Holds
<1>5. PICK L \in Nat : L = Len(table) /\ L = IF C <= MaxMappings THEN C ELSE MaxMappings
  BY <1>1, <1>4 DEF Holds
<1>6. /\ \A i \in old : Rank(lines, i) < MaxMappings =>
           Rank(lines, i) + 1 <= L /\ table[Rank(lines, i) + 1] = Entry(lines[i])
      /\ \A q \in 1 .. L : \E i \in old : Rank(lines, i) = q - 1
  BY <1>5 DEF Holds
<1>7. \A i \in old : i \in Nat /\ Rank(lines, i) \in Nat
  <2>. SUFFICES ASSUME NEW i \in old PROVE i \in Nat /\ Rank(lines, i) \in Nat
    OBVIOUS
  <2>1. i \in 1 .. k - 1
    BY DEF Mappings
  <2>2. i - 1 \in Nat /\ i \in Nat
    BY <2>1
  <2>. QED BY <2>2, MappingsFacts DEF Rank
<1>8. CASE ~IsMapping(lines[k])
  <2>1. new = old
    BY <1>8 DEF Mappings
  <2>2. AddMapping(table, lines[k]) = table
    BY <1>8 DEF AddMapping
  <2>. QED BY <2>1, <2>2 DEF Holds
<1>9. CASE IsMapping(lines[k]) /\ L < MaxMappings
  <2>1. PICK t : t = AddMapping(table, lines[k])
    OBVIOUS
  <2>2. t = Append(table, Entry(lines[k]))
    BY <1>5, <1>9, <2>1 DEF AddMapping, Entry
  <2>3. new = old \cup {k}
    BY <1>9 DEF Mappings
  <2>4. L = C /\ C + 1 <= MaxMappings /\ Cardinality(new) = C + 1
    BY <1>2, <1>3, <1>5, <1>9
  <2>5. PICK e : e = Entry(lines[k])
    OBVIOUS
  <2>6. t \in Seq(E \cup {e}) /\ Len(t) = L + 1 /\ t[L + 1] = e /\ \A q \in 1 .. L : t[q] = table[q]
    <3>1. table \in Seq(E \cup {e})
      BY <1>4
    <3>2. /\ Append(table, e) \in Seq(E \cup {e}) /\ Len(Append(table, e)) = Len(table) + 1
          /\ Append(table, e)[Len(table) + 1] = e
          /\ \A q \in 1 .. Len(table) : Append(table, e)[q] = table[q]
      <4>1. PICK S : S = E \cup {e} /\ e \in S
        OBVIOUS
      <4>2. table \in Seq(S)
        BY <3>1, <4>1
      <4>3. Append(table, e) \in Seq(S)
        BY <4>1, <4>2
      <4>4. /\ Len(Append(table, e)) = Len(table) + 1
            /\ Append(table, e)[Len(table) + 1] = e
            /\ \A q \in 1 .. Len(table) : Append(table, e)[q] = table[q]
        BY <4>1, <4>2
      <4>. QED BY <4>1, <4>3, <4>4
    <3>3. t = Append(table, e)
      BY <2>2, <2>5
    <3>. QED BY <1>5, <3>2, <3>3
  <2>7. ASSUME NEW i \in new, Rank(lines, i) < MaxMappings
        PROVE  Rank(lines, i) + 1 <= L + 1 /\ t[Rank(lines, i) + 1] = Entry(lines[i])
    <3>1. CASE i = k
      BY <1>1, <2>4, <2>5, <2>6, <3>1
    <3>2. CASE i \in old
      <4>1. PICK r \in Nat : r = Rank(lines, i) /\ r + 1 <= L /\ table[r + 1] = Entry(lines[i])
        BY <1>6, <1>7, <2>7, <3>2
      <4>2. r + 1 \in 1 .. L
        BY <4>1
      <4>. QED BY <2>6, <4>1, <4>2
    <3>. QED BY <2>3, <3>1, <3>2
  <2>8. ASSUME NEW q \in 1 .. L + 1
        PROVE  \E i \in new : Rank(lines, i) = q - 1
    <3>1. CASE q = L + 1
      <4>1. Rank(lines, k) = q - 1 /\ k \in new
        BY <1>1, <2>3, <2>4, <3>1
      <4>. QED BY <4>1
    <3>2. CASE q # L + 1
      <4>1. q \in 1 .. L
        BY <3>2
      <4>. QED BY <1>6, <2>3, <4>1
    <3>. QED BY <3>1, <3>2
  <2>9. Len(t) = IF Cardinality(new) <= MaxMappings THEN Cardinality(new) ELSE MaxMappings
    BY <2>4, <2>6
  <2>. HIDE DEF new
  <2>10. \E S : t \in Seq(S)
    BY <2>6
  <2>. QED BY <2>1, <2>6, <2>7, <2>8, <2>9, <2>10 DEF Holds, new
<1>10. CASE IsMapping(lines[k]) /\ ~(L < MaxMappings)
  <2>1. AddMapping(table, lines[k]) = table
    BY <1>5, <1>10 DEF AddMapping
  <2>2. new = old \cup {k}
    BY <1>10 DEF Mappings
  <2>3. L = MaxMappings /\ ~(C < MaxMappings) /\ Cardinality(new) = C + 1
    BY <1>2, <1>3, <1>5, <1>10
  <2>4. L = IF Cardinality(new) <= MaxMappings THEN Cardinality(new) ELSE MaxMappings
    BY <1>3, <2>3
  <2>5. \A i \in new : Rank(lines, i) < MaxMappings =>
          Rank(lines, i) + 1 <= L /\ table[Rank(lines, i) + 1] = Entry(lines[i])
    BY <1>1, <1>6, <2>2, <2>3
  <2>6. \A q \in 1 .. L : \E i \in new : Rank(lines, i) = q - 1
    BY <1>6, <2>2
  <2>. QED BY <1>4, <1>5, <2>1, <2>4, <2>5, <2>6 DEF Holds
<1>. QED BY <1>8, <1>9, <1>10

LEMMA ElementType ==
  ASSUME NEW S, NEW q \in Seq(S), NEW i \in DOMAIN q
  PROVE  q[i] \in S
OBVIOUS

(* get_node_by_pod on the table that init_pod_node_mapping makes of a file. *)
LEMMA MappingRead ==
  ASSUME NEW file \in Seq([mark : STRING, words : Seq(STRING)]), file # NoFile, NEW pod
  PROVE  MappingSays(file, pod, get_node_by_pod(init_pod_node_mapping(file), pod))
<1>0. PICK n \in Nat : DOMAIN file = 1 .. n
  OBVIOUS
<1>1. PICK h : /\ h[0] = <<>>
               /\ \A k \in 1 .. n : h[k] = AddMapping(h[k - 1], file[k])
               /\ FoldLeft(AddMapping, <<>>, file) = h[n]
  BY <1>0, MappingFold
<1>. DEFINE Good == {k \in 0 .. n : Holds(h[k], file, k)}
<1>2. 0 \in Good
  <2>1. h[0] \in Seq({}) /\ Len(h[0]) = 0
    BY <1>1
  <2>2. Mappings(file, 0) = {} /\ Cardinality(Mappings(file, 0)) = 0
    BY MappingsFacts
  <2>3. Holds(h[0], file, 0)
    BY <2>1, <2>2, MappingsAssumption DEF Holds
  <2>. QED BY <2>3
<1>3. ASSUME NEW k \in 1 .. n, k - 1 \in Good
      PROVE  k \in Good
  <2>1. k \in Nat \ {0} /\ Holds(h[k - 1], file, k - 1)
    BY <1>3
  <2>2. Holds(h[k], file, k)
    BY <1>1, <2>1, MappingLine
  <2>. QED BY <2>2
<1>4. Holds(h[n], file, n)
  <2>1. Good \in SUBSET Nat
    OBVIOUS
  <2>2. n \in Good
    <3>. HIDE DEF Good
    <3>. QED BY <1>2, <1>3, <2>1, UpwardInduction
  <2>. QED BY <2>2
<1>5. PICK table : table = init_pod_node_mapping(file) /\ table = h[n]
  BY <1>1, Zenon DEF init_pod_node_mapping
<1>6. PICK E : table \in Seq(E)
  BY <1>4, <1>5 DEF Holds
<1>7. PICK L \in Nat : L = Len(table) /\ DOMAIN table = 1 .. L
  BY <1>6
<1>8. PICK entries : entries = {i \in DOMAIN file : IsMapping(file[i])}
  OBVIOUS
<1>9. entries = Mappings(file, n) /\ entries \subseteq 1 .. n
  BY <1>0, <1>8 DEF Mappings
<1>10. ASSUME NEW i \in entries
       PROVE  Cardinality({j \in entries : j < i}) = Rank(file, i) /\ Rank(file, i) \in Nat
  <2>1. {j \in entries : j < i} = Mappings(file, i - 1)
    BY <1>8, <1>9 DEF Mappings
  <2>2. i - 1 \in Nat
    BY <1>9
  <2>. QED BY <2>1, <2>2, MappingsFacts DEF Rank
<1>11. PICK kept : kept = {i \in entries : Cardinality({j \in entries : j < i}) < MaxMappings}
  OBVIOUS
<1>12. kept \subseteq entries /\ \A i \in entries : i \in kept <=> Rank(file, i) < MaxMappings
  BY <1>10, <1>11
<1>13. PICK naming : naming = {i \in kept : file[i].words[1] = pod}
  OBVIOUS
<1>14. ASSUME NEW i \in kept
       PROVE  /\ Rank(file, i) + 1 \in 1 .. L
              /\ table[Rank(file, i) + 1] = Entry(file[i])
  <2>1. i \in entries /\ i \in Mappings(file, n) /\ Rank(file, i) < MaxMappings
    BY <1>9, <1>12
  <2>2. Rank(file, i) + 1 <= Len(table) /\ table[Rank(file, i) + 1] = Entry(file[i])
    BY <1>4, <1>5, <2>1 DEF Holds
  <2>3. Rank(file, i) \in Nat
    BY <1>10, <2>1
  <2>. QED BY <1>7, <2>2, <2>3
<1>15. ASSUME NEW q \in 1 .. L
       PROVE  \E i \in kept : Rank(file, i) = q - 1
  <2>1. PICK i \in entries : Rank(file, i) = q - 1
    BY <1>4, <1>5, <1>7, <1>9 DEF Holds
  <2>2. L <= MaxMappings
    <3>1. Cardinality(Mappings(file, n)) \in Nat /\ MaxMappings \in Nat
      BY MappingsFacts, MappingsAssumption
    <3>. QED BY <1>4, <1>5, <1>7, <3>1 DEF Holds
  <2>3. Rank(file, i) < MaxMappings
    BY <2>1, <2>2, MappingsAssumption
  <2>. QED BY <1>12, <2>1, <2>3
<1>16. PICK found : found = {q \in DOMAIN table : table[q].pod_name = pod}
  OBVIOUS
<1>17. get_node_by_pod(table, pod) = IF found = {} THEN NoNode ELSE table[Min(found)].node_name
  <2>. DEFINE T == [pod_name : STRING, node_name : STRING]
  <2>1. ASSUME NEW q \in 1 .. L
        PROVE  table[q] \in T
    <3>1. PICK i \in kept : Rank(file, i) = q - 1
      BY <1>15
    <3>2. q = Rank(file, i) + 1
      BY <3>1
    <3>3. table[q] = Entry(file[i])
      BY <1>14, <3>2
    <3>4. i \in 1 .. n /\ IsMapping(file[i])
      BY <1>8, <1>9, <1>12
    <3>5. PICK w \in Seq(STRING) : w = file[i].words /\ Len(w) >= 2
      <4>1. PICK l \in [mark : STRING, words : Seq(STRING)] : l = file[i]
        <5>1. i \in DOMAIN file
          BY <1>0, <3>4
        <5>2. file[i] \in [mark : STRING, words : Seq(STRING)]
          BY <5>1, ElementType
        <5>. QED BY <5>2
      <4>2. l.words \in Seq(STRING) /\ Len(l.words) >= 2
        BY <3>4, <4>1 DEF IsMapping
      <4>. QED BY <4>1, <4>2
    <3>6. w[1] \in STRING /\ w[2] \in STRING
      BY <3>5
    <3>. QED BY <3>3, <3>5, <3>6 DEF Entry
  <2>. HIDE DEF T
  <2>2. table \in Seq(T)
    BY <1>6, <1>7, <2>1
  <2>3. table # NoTable
    BY <2>2, TableAssumption DEF T
  <2>. QED BY <1>16, <2>3, Zenon DEF get_node_by_pod
<1>18. CASE naming = {}
  <2>1. found = {}
    <3>. SUFFICES ASSUME NEW q \in found PROVE FALSE
      OBVIOUS
    <3>1. q \in 1 .. L /\ table[q].pod_name = pod
      BY <1>7, <1>16
    <3>2. PICK i \in kept : Rank(file, i) = q - 1
      BY <1>15, <3>1
    <3>3. q = Rank(file, i) + 1
      BY <3>1, <3>2
    <3>4. table[q] = Entry(file[i])
      BY <1>14, <3>2, <3>3
    <3>5. file[i].words[1] = pod
      BY <3>1, <3>4 DEF Entry
    <3>. QED BY <1>13, <1>18, <3>5
  <2>. QED BY <1>5, <1>8, <1>11, <1>13, <1>17, <1>18, <2>1, Zenon DEF MappingSays
<1>19. CASE naming # {}
  <2>1. found # {} /\ found \in SUBSET Nat
    <3>1. PICK i \in kept : file[i].words[1] = pod
      BY <1>13, <1>19
    <3>2. PICK r : r = Rank(file, i) + 1 /\ r \in 1 .. L /\ table[r] = Entry(file[i])
      BY <1>14
    <3>3. table[r].pod_name = pod
      BY <3>1, <3>2 DEF Entry
    <3>4. r \in found
      BY <1>7, <1>16, <3>2, <3>3
    <3>. QED BY <1>7, <1>16, <3>4
  <2>2. PICK q \in found : \A m \in found : q <= m
    BY <2>1, Least
  <2>3. Min(found) = q
    <3>1. \A m \in found : q <= m
      BY <2>2
    <3>2. PICK x : x = Min(found) /\ x \in found /\ \A m \in found : x <= m
      BY <2>2 DEF Min
    <3>. QED BY <2>1, <2>2, <3>2
  <2>4. q \in 1 .. L /\ table[q].pod_name = pod
    BY <1>7, <1>16, <2>2
  <2>5. PICK i \in kept : Rank(file, i) = q - 1
    BY <1>15, <2>4
  <2>6. q = Rank(file, i) + 1
    BY <2>4, <2>5
  <2>7. table[q] = Entry(file[i])
    BY <1>14, <2>6
  <2>8. i \in naming /\ file[i].words[2] = table[Min(found)].node_name
    BY <1>13, <2>3, <2>4, <2>7 DEF Entry
  <2>9. ASSUME NEW j \in naming
        PROVE  i <= j
    <3>1. j \in kept /\ file[j].words[1] = pod
      BY <1>13
    <3>2. i \in 1 .. n /\ j \in 1 .. n /\ IsMapping(file[j])
      BY <1>8, <1>9, <1>12, <3>1
    <3>3. Rank(file, j) + 1 \in found
      <4>1. PICK r : r = Rank(file, j) + 1 /\ r \in 1 .. L /\ table[r] = Entry(file[j])
        BY <1>14, <3>1
      <4>2. table[r].pod_name = pod
        BY <3>1, <4>1 DEF Entry
      <4>. QED BY <1>7, <1>16, <4>1, <4>2
    <3>4. q <= Rank(file, j) + 1 /\ Rank(file, i) \in Nat /\ Rank(file, j) \in Nat
      BY <1>10, <1>12, <2>2, <3>1, <3>3
    <3>5. CASE j < i
      <4>1. Rank(file, j) < Rank(file, i)
        BY <3>2, <3>5, RankFacts
      <4>. QED BY <2>6, <3>4, <4>1
    <3>. QED BY <3>2, <3>5
  <2>10. \E i_1 \in naming : /\ file[i_1].words[2] = get_node_by_pod(table, pod)
                             /\ \A j \in naming : i_1 <= j
    BY <1>17, <2>1, <2>8, <2>9
  <2>. QED BY <1>5, <1>8, <1>11, <1>13, <1>19, <2>10, Zenon DEF MappingSays
<1>. QED BY <1>18, <1>19
----------------------------------------------------------------------------
(* Starting up.                                                            *)
FilesInv ==
  /\ main \in {"config", "loaded"} => files.config \in ConfigSet /\ files.mapping \in MappingSet
  /\ main = "loaded" =>
       /\ config = load_config(files.config)
       /\ pod_node_table = init_pod_node_mapping(FileAt(config.path))

LEMMA FilesSteps ==
  ASSUME FilesInv, [SystemNext]_systemVars
  PROVE  FilesInv'
<1>1. CASE LoadFiles
  <2>1. /\ main = "config" /\ main' = "loaded" /\ files' = files
        /\ config' = load_config(files.config)
        /\ pod_node_table' = init_pod_node_mapping(FileAt(config'.path))
    BY <1>1 DEF LoadFiles, Goto
  <2>2. FileAt(config.path)' = FileAt(config'.path)
    BY <2>1 DEF FileAt
  <2>3. pod_node_table' = init_pod_node_mapping(FileAt(config.path)')
    BY <2>1, <2>2
  <2>. QED BY <2>1, <2>3 DEF FilesInv
<1>2. CASE main' \notin {"config", "loaded"}
  BY <1>2 DEF FilesInv
<1>3. CASE UNCHANGED <<main, fileVars>>
  <2>1. FileAt(config.path)' = FileAt(config.path)
    BY <1>3 DEF FileAt
  <2>. QED BY <1>3, <2>1 DEF FilesInv
<1>4. LoadFiles \/ main' \notin {"config", "loaded"} \/ UNCHANGED <<main, fileVars>>
  <2>1. MainStep => LoadFiles \/ main' \notin {"config", "loaded"} \/ UNCHANGED <<main, fileVars>>
    BY DEF MainStep, StartProvider, Attach, LeaveLoop, Cleanup, PollEvents, ReadRing,
           handle_tcp_event, EventHandled, EventReturns, RingRead, PollReturns, Goto
  <2>2. sig_handler \/ Machine \/ ProviderSteps \/ ServiceSteps => UNCHANGED <<main, fileVars>>
    BY DEF sig_handler, Machine, ProviderSteps, ServiceSteps, Inside
  <2>. QED BY <2>1, <2>2 DEF SystemNext
<1>. QED BY <1>1, <1>2, <1>3, <1>4

LEMMA FilesInvariant == SystemSpec => []FilesInv
<1>1. SystemInit => FilesInv
  BY DEF SystemInit, FilesInv
<1>. QED BY <1>1, FilesSteps, PTL DEF SystemSpec

(* Whatever lines the two files have, and in whatever order: load_config   *)
(* yields the mode and the path that the last line about them says, and    *)
(* get_node_by_pod finds the node of the first line about a pod that found *)
(* room in the table.                                                      *)
THEOREM FilesReadCorrect == SystemSpec => []FilesRead
<1>1. FilesInv => FilesRead
  <2>. SUFFICES ASSUME FilesInv, main = "loaded" PROVE FilesRead
    BY DEF FilesRead
  <2>1. /\ files.config \in ConfigSet /\ files.mapping \in MappingSet
        /\ config = load_config(files.config)
        /\ pod_node_table = init_pod_node_mapping(FileAt(config.path))
    BY DEF FilesInv
  <2>2. ConfigSays(files.config, config)
    <3>1. files.config # NoFile => \E n \in Nat : DOMAIN files.config = 1 .. n
      BY <2>1, FileAssumption
    <3>2. ConfigSays(files.config, load_config(files.config))
      BY <3>1, ConfigRead
    <3>. QED BY <2>1, <3>2
  <2>3. PICK file : file = FileAt(config.path)
    OBVIOUS
  <2>4. file = NoFile \/ file \in Seq([mark : STRING, words : Seq(STRING)])
    BY <2>1, <2>3, FileAssumption DEF FileAt
  <2>5. ASSUME NEW p \in Pods
        PROVE  MappingSays(file, p, get_node_by_pod(pod_node_table, p))
    <3>1. CASE file = NoFile
      <4>1. get_node_by_pod(NoTable, p) = NoNode
        BY DEF get_node_by_pod
      <4>2. pod_node_table = NoTable
        BY <2>1, <2>3, <3>1 DEF init_pod_node_mapping
      <4>. QED BY <3>1, <4>1, <4>2 DEF MappingSays
    <3>2. CASE file # NoFile
      BY <2>1, <2>3, <2>4, <3>2, MappingRead
    <3>. QED BY <3>1, <3>2
  <2>. QED BY <2>2, <2>3, <2>5 DEF FilesRead
<1>. QED BY <1>1, FilesInvariant, PTL
----------------------------------------------------------------------------
(* The events in the rings.                                                *)

(* Queued, for any rings r of which the first p events of c are handled.   *)
Unhandled(r, c, p, n) ==
  {e \in CPUs \X (1 .. RingSize) :
     e[2] <= Len(r[e[1]]) /\ r[e[1]][e[2]] = n /\ ~(e[1] = c /\ e[2] <= p)}

Rings == {r \in [CPUs -> Seq(Probes!Conns)] : \A c \in CPUs : Len(r[c]) <= RingSize}

(* A probe that runs is on a socket that the kernel keeps, so the          *)
(* connection it outputs is one.                                           *)
ProbeInv ==
  /\ sk \in [Socks -> [kind : Probes!Kinds, conn : 0 .. MaxConns, inet : BOOLEAN]]
  /\ nconns \in 0 .. MaxConns
  /\ \A s \in Socks : sk[s].kind # "free" => sk[s].conn \in Probes!Conns
  /\ pc \in [CPUs -> {"idle", "new", "output"}]
  /\ ptr \in [CPUs -> Socks \cup {NoSock}]
  /\ \A c \in CPUs : pc[c] # "idle" => ptr[c] \in Socks /\ sk[ptr[c]].kind # "free"
  /\ ring \in Rings
  /\ events \in [Probes!Conns -> Nat]

(* The loop stands within the events it found in the ring it reads, and a  *)
(* call for a key is made for the event it stands at.                      *)
LoopInv ==
  /\ cpu \in CPUs /\ ready \subseteq CPUs
  /\ batch \in Nat /\ pos \in Nat /\ asked \in BOOLEAN
  /\ pos <= batch /\ batch <= Len(ring[cpu])
  /\ main # "handler" => batch = 0 /\ pos = 0 /\ ~asked
  /\ asked => pos < batch
  /\ call \in InGetKey => asked /\ req = FlowOf[Handled]
  /\ answered \in [Probes!Conns -> Nat]

Accounted == \A n \in Probes!Conns : events[n] = answered[n] + Cardinality(Queued(n))

Negotiated ==
  \A t \in Tuples : gen[t] > 0 => \E n \in Probes!Conns : FlowOf[n] = t /\ events[n] > 0

SystemInv == FilesInv /\ FinalInv /\ ProbeInv /\ LoopInv /\ Accounted /\ Negotiated

LEMMA PairFacts ==
  ASSUME NEW S, NEW T
  PROVE  /\ \A x, y : <<x, y>> \in S \X T <=> x \in S /\ y \in T
         /\ \A x, y : <<x, y>>[1] = x /\ <<x, y>>[2] = y
         /\ \A e \in S \X T : e = <<e[1], e[2]>> /\ e[1] \in S /\ e[2] \in T
OBVIOUS

LEMMA UnhandledPairs ==
  ASSUME NEW r, NEW c, NEW p, NEW n
  PROVE  \A e : e \in Unhandled(r, c, p, n) <=>
                  /\ e \in CPUs \X (1 .. RingSize)
                  /\ e[2] <= Len(r[e[1]]) /\ r[e[1]][e[2]] = n /\ ~(e[1] = c /\ e[2] <= p)
BY Zenon DEF Unhandled

LEMMA UnhandledFacts ==
  ASSUME NEW r, NEW c, NEW p, NEW n
  PROVE  /\ \A d, i : <<d, i>> \in Unhandled(r, c, p, n) <=>
                      /\ d \in CPUs /\ i \in 1 .. RingSize /\ i <= Len(r[d]) /\ r[d][i] = n
                      /\ ~(d = c /\ i <= p)
         /\ \A e \in Unhandled(r, c, p, n) :
              e = <<e[1], e[2]>> /\ e[1] \in CPUs /\ e[2] \in 1 .. RingSize
<1>1. ASSUME NEW d, NEW i
      PROVE  <<d, i>> \in Unhandled(r, c, p, n) <=>
               /\ d \in CPUs /\ i \in 1 .. RingSize /\ i <= Len(r[d]) /\ r[d][i] = n
               /\ ~(d = c /\ i <= p)
  <2>1. PICK e : e = <<d, i>>
    OBVIOUS
  <2>2. e[1] = d /\ e[2] = i
    BY <2>1
  <2>3. e \in CPUs \X (1 .. RingSize) <=> d \in CPUs /\ i \in 1 .. RingSize
    BY <2>1, PairFacts
  <2>4. e \in Unhandled(r, c, p, n) <=>
          /\ e \in CPUs \X (1 .. RingSize)
          /\ e[2] <= Len(r[e[1]]) /\ r[e[1]][e[2]] = n /\ ~(e[1] = c /\ e[2] <= p)
    BY UnhandledPairs
  <2>. QED BY <2>1, <2>2, <2>3, <2>4
<1>2. ASSUME NEW e \in Unhandled(r, c, p, n)
      PROVE  e = <<e[1], e[2]>> /\ e[1] \in CPUs /\ e[2] \in 1 .. RingSize
  <2>1. e \in CPUs \X (1 .. RingSize)
    BY UnhandledPairs, Zenon
  <2>. QED BY <2>1, PairFacts
<1>. QED BY <1>1, <1>2

(* Sets of pairs are compared pair by pair.                                *)
IsUnhandled(T, r, c, p, n) ==
  /\ \A e \in T : e = <<e[1], e[2]>> /\ e[1] \in CPUs /\ e[2] \in 1 .. RingSize
  /\ \A d \in CPUs, i \in 1 .. RingSize :
       <<d, i>> \in T <=> i <= Len(r[d]) /\ r[d][i] = n /\ ~(d = c /\ i <= p)

LEMMA SamePairs ==
  ASSUME NEW r, NEW c, NEW p, NEW n, NEW T, IsUnhandled(T, r, c, p, n)
  PROVE  Unhandled(r, c, p, n) = T
<1>1. ASSUME NEW e \in T PROVE e \in Unhandled(r, c, p, n)
  <2>1. PICK d, i : d = e[1] /\ i = e[2] /\ e = <<d, i>> /\ d \in CPUs /\ i \in 1 .. RingSize
    BY DEF IsUnhandled
  <2>. QED BY <2>1, UnhandledFacts DEF IsUnhandled
<1>2. ASSUME NEW e \in Unhandled(r, c, p, n) PROVE e \in T
  <2>1. PICK d, i : d = e[1] /\ i = e[2] /\ e = <<d, i>>
    BY UnhandledFacts
  <2>2. <<d, i>> \in Unhandled(r, c, p, n)
    BY <2>1
  <2>3. /\ d \in CPUs /\ i \in 1 .. RingSize /\ i <= Len(r[d]) /\ r[d][i] = n
        /\ ~(d = c /\ i <= p)
    BY <2>2, UnhandledFacts
  <2>. QED BY <2>1, <2>3 DEF IsUnhandled
<1>. QED BY <1>1, <1>2

LEMMA UnhandledFinite ==
  ASSUME NEW r, NEW c, NEW p, NEW n
  PROVE  IsFiniteSet(Unhandled(r, c, p, n)) /\ Cardinality(Unhandled(r, c, p, n)) \in Nat
<1>1. IsFiniteSet(1 .. RingSize)
  BY MachineAssumption, FS_Interval
<1>2. IsFiniteSet(CPUs \X (1 .. RingSize))
  BY <1>1, MachineAssumption, FS_Product
<1>3. Unhandled(r, c, p, n) \subseteq CPUs \X (1 .. RingSize)
  BY UnhandledPairs, Zenon
<1>. QED BY <1>2, <1>3, FS_Subset, FS_CardinalityType

(* Before the first event of a batch it does not matter which ring is read. *)
LEMMA NothingHandled ==
  ASSUME NEW r \in Rings, NEW c, NEW d, NEW n
  PROVE  Unhandled(r, c, 0, n) = Unhandled(r, d, 0, n)
<1>1. \A e \in Unhandled(r, d, 0, n) : e = <<e[1], e[2]>> /\ e[1] \in CPUs /\ e[2] \in 1 .. RingSize
  BY UnhandledFacts
<1>2. ASSUME NEW x \in CPUs, NEW i \in 1 .. RingSize
      PROVE  <<x, i>> \in Unhandled(r, d, 0, n) <=> i <= Len(r[x]) /\ r[x][i] = n /\ ~(x = c /\ i <= 0)
  <2>1. ~(i <= 0)
    OBVIOUS
  <2>. QED BY <2>1, UnhandledFacts
<1>3. IsUnhandled(Unhandled(r, d, 0, n), r, c, 0, n)
  BY <1>1, <1>2 DEF IsUnhandled
<1>. QED BY <1>3, SamePairs

(* perf_event_output adds one event.                                       *)
Appended(r, d, m, s) == Len(r[d]) < RingSize /\ s = [r EXCEPT ![d] = Append(@, m)]

LEMMA AppendedFacts ==
  ASSUME NEW r \in Rings, NEW d \in CPUs, NEW m \in Probes!Conns, NEW s, Appended(r, d, m, s)
  PROVE  /\ s = [e \in CPUs |-> s[e]] /\ \A e \in CPUs : e # d => s[e] = r[e]
         /\ Len(s[d]) = Len(r[d]) + 1 /\ s[d] \in Seq(Probes!Conns)
         /\ s[d][Len(r[d]) + 1] = m /\ \A i \in 1 .. Len(r[d]) : s[d][i] = r[d][i]
<1>1. r \in [CPUs -> Seq(Probes!Conns)] /\ s = [r EXCEPT ![d] = Append(@, m)]
  BY DEF Rings, Appended
<1>2. s = [e \in CPUs |-> s[e]] /\ \A e \in CPUs : e # d => s[e] = r[e]
  BY <1>1
<1>3. PICK q \in Seq(Probes!Conns) : q = r[d]
  BY <1>1
<1>4. s[d] = Append(q, m)
  BY <1>1, <1>3
<1>5. Append(q, m) \in Seq(Probes!Conns)
  BY QueueTypes
<1>. QED BY <1>2, <1>3, <1>4, <1>5, AppendFacts

LEMMA RingAppended ==
  ASSUME NEW r \in Rings, NEW d \in CPUs, NEW m \in Probes!Conns, NEW s, Appended(r, d, m, s)
  PROVE  /\ s \in Rings
         /\ \A e \in CPUs : \A i \in 1 .. Len(r[e]) :
              i \in 1 .. Len(s[e]) /\ s[e][i] = r[e][i]
<1>0. RingSize \in Nat /\ Len(r[d]) < RingSize
  BY MachineAssumption DEF Appended
<1>1. \A e \in CPUs : e # d => s[e] = r[e]
  BY AppendedFacts
<1>2. \A e \in CPUs : Len(r[e]) \in Nat /\ r[e] \in Seq(Probes!Conns)
  BY DEF Rings
<1>3. /\ Len(s[d]) = Len(r[d]) + 1 /\ s[d] \in Seq(Probes!Conns)
      /\ s[d][Len(r[d]) + 1] = m /\ \A i \in 1 .. Len(r[d]) : s[d][i] = r[d][i]
  BY AppendedFacts
<1>4. s \in Rings
  <2>1. ASSUME NEW e \in CPUs PROVE s[e] \in Seq(Probes!Conns) /\ Len(s[e]) <= RingSize
    <3>1. CASE e = d
      <4>1. Len(r[d]) + 1 <= RingSize
        BY <1>0, <1>2
      <4>. QED BY <1>3, <3>1, <4>1
    <3>2. CASE e # d
      <4>1. Len(r[e]) <= RingSize
        BY DEF Rings
      <4>. QED BY <1>1, <1>2, <3>2, <4>1
    <3>. QED BY <3>1, <3>2
  <2>2. s = [e \in CPUs |-> s[e]]
    BY AppendedFacts
  <2>3. s \in [CPUs -> Seq(Probes!Conns)]
    BY <2>1, <2>2
  <2>. QED BY <2>1, <2>3 DEF Rings
<1>5. \A e \in CPUs : \A i \in 1 .. Len(r[e]) : i \in 1 .. Len(s[e]) /\ s[e][i] = r[e][i]
  <2>. SUFFICES ASSUME NEW e \in CPUs, NEW i \in 1 .. Len(r[e])
                PROVE  i \in 1 .. Len(s[e]) /\ s[e][i] = r[e][i]
    OBVIOUS
  <2>1. CASE e = d
    BY <1>2, <1>3, <2>1
  <2>2. CASE e # d
    BY <1>1, <2>2
  <2>. QED BY <2>1, <2>2
<1>. QED BY <1>4, <1>5

Added(r, m, s, c, p, n) ==
  /\ n = m => Cardinality(Unhandled(s, c, p, n)) = Cardinality(Unhandled(r, c, p, n)) + 1
  /\ n # m => Cardinality(Unhandled(s, c, p, n)) = Cardinality(Unhandled(r, c, p, n))

LEMMA EventAdded ==
  ASSUME NEW r \in Rings, NEW c, NEW p \in Nat, p <= Len(r[c]), NEW n,
         NEW d \in CPUs, NEW m \in Probes!Conns, NEW s, Appended(r, d, m, s)
  PROVE  Added(r, m, s, c, p, n)
<1>. DEFINE new == <<d, Len(r[d]) + 1>>
<1>0. RingSize \in Nat /\ Len(r[d]) < RingSize
  BY MachineAssumption DEF Appended
<1>1. \A e \in CPUs : e # d => s[e] = r[e]
  BY AppendedFacts
<1>2. \A e \in CPUs : Len(r[e]) \in Nat /\ r[e] \in Seq(Probes!Conns)
  BY DEF Rings
<1>3. /\ Len(s[d]) = Len(r[d]) + 1 /\ s[d] \in Seq(Probes!Conns)
      /\ s[d][Len(r[d]) + 1] = m /\ \A i \in 1 .. Len(r[d]) : s[d][i] = r[d][i]
  BY AppendedFacts
<1>4. new \notin Unhandled(r, c, p, n)
  <2>1. ~(Len(r[d]) + 1 <= Len(r[d]))
    BY <1>2
  <2>. QED BY <2>1, UnhandledFacts
<1>5. ASSUME n = m
      PROVE  Cardinality(Unhandled(s, c, p, n)) = Cardinality(Unhandled(r, c, p, n)) + 1
  <2>1. Unhandled(s, c, p, n) = Unhandled(r, c, p, n) \cup {new}
    <3>. DEFINE T == Unhandled(r, c, p, n) \cup {new}
    <3>1. new = <<new[1], new[2]>> /\ new[1] = d /\ new[2] = Len(r[d]) + 1
      OBVIOUS
    <3>2. Len(r[d]) + 1 \in 1 .. RingSize
      BY <1>0, <1>2
    <3>3. \A e \in T : e = <<e[1], e[2]>> /\ e[1] \in CPUs /\ e[2] \in 1 .. RingSize
      BY <3>1, <3>2, UnhandledFacts
    <3>4. ASSUME NEW x \in CPUs, NEW i \in 1 .. RingSize
          PROVE  <<x, i>> \in T <=> i <= Len(s[x]) /\ s[x][i] = n /\ ~(x = c /\ i <= p)
      <4>1. <<x, i>> \in T <=>
              (i <= Len(r[x]) /\ r[x][i] = n /\ ~(x = c /\ i <= p)) \/ <<x, i>> = new
        BY UnhandledFacts
      <4>2. <<x, i>> = new <=> x = d /\ i = Len(r[d]) + 1
        OBVIOUS
      <4>3. CASE x # d
        BY <1>1, <4>1, <4>2, <4>3
      <4>4. CASE x = d
        <5>1. i <= Len(s[d]) <=> i <= Len(r[d]) \/ i = Len(r[d]) + 1
          BY <1>2, <1>3
        <5>2. i <= Len(r[d]) => s[d][i] = r[d][i] /\ i # Len(r[d]) + 1
          BY <1>2, <1>3
        <5>3. i = Len(r[d]) + 1 => s[d][i] = n /\ ~(d = c /\ i <= p)
          BY <1>2, <1>3, <1>5
        <5>. QED BY <4>1, <4>2, <4>4, <5>1, <5>2, <5>3
      <4>. QED BY <4>3, <4>4
    <3>5. IsUnhandled(T, s, c, p, n)
      BY <3>3, <3>4 DEF IsUnhandled
    <3>. QED BY <3>5, SamePairs
  <2>. HIDE DEF new
  <2>. QED BY <1>4, <2>1, UnhandledFinite, FS_AddElement
<1>6. ASSUME n # m
      PROVE  Cardinality(Unhandled(s, c, p, n)) = Cardinality(Unhandled(r, c, p, n))
  <2>. DEFINE T == Unhandled(r, c, p, n)
  <2>1. \A e \in T : e = <<e[1], e[2]>> /\ e[1] \in CPUs /\ e[2] \in 1 .. RingSize
    BY UnhandledFacts
  <2>2. ASSUME NEW x \in CPUs, NEW i \in 1 .. RingSize
        PROVE  <<x, i>> \in T <=> i <= Len(s[x]) /\ s[x][i] = n /\ ~(x = c /\ i <= p)
    <3>1. <<x, i>> \in T <=> (i <= Len(r[x]) /\ r[x][i] = n /\ ~(x = c /\ i <= p))
      BY UnhandledFacts
    <3>2. CASE x # d
      BY <1>1, <3>1, <3>2
    <3>3. CASE x = d
      <4>1. i <= Len(s[d]) <=> i <= Len(r[d]) \/ i = Len(r[d]) + 1
        BY <1>2, <1>3
      <4>2. i <= Len(r[d]) => s[d][i] = r[d][i] /\ i # Len(r[d]) + 1
        BY <1>2, <1>3
      <4>3. i = Len(r[d]) + 1 => s[d][i] # n
        BY <1>3, <1>6
      <4>. QED BY <3>1, <3>3, <4>1, <4>2, <4>3
    <3>. QED BY <3>2, <3>3
  <2>3. Unhandled(s, c, p, n) = T
    <3>1. IsUnhandled(T, s, c, p, n)
      BY <2>1, <2>2 DEF IsUnhandled
    <3>. QED BY <3>1, SamePairs
  <2>. QED BY <2>3
<1>. QED BY <1>5, <1>6 DEF Added

(* The handler returns: the event it was called with is handled.           *)
Taken(r, c, p, n) ==
  /\ <<c, p + 1>> \in Unhandled(r, c, p, n) <=> n = r[c][p + 1]
  /\ n = r[c][p + 1] =>
       Cardinality(Unhandled(r, c, p, n)) = Cardinality(Unhandled(r, c, p + 1, n)) + 1
  /\ n # r[c][p + 1] =>
       Cardinality(Unhandled(r, c, p, n)) = Cardinality(Unhandled(r, c, p + 1, n))

LEMMA EventTaken ==
  ASSUME NEW r \in Rings, NEW c \in CPUs, NEW p \in Nat, p < Len(r[c]), NEW n
  PROVE  Taken(r, c, p, n)
<1>0. Len(r[c]) \in Nat /\ Len(r[c]) <= RingSize /\ RingSize \in Nat
  BY MachineAssumption DEF Rings
<1>1. p + 1 \in 1 .. RingSize /\ p + 1 <= Len(r[c]) /\ ~(p + 1 <= p)
  BY <1>0
<1>2. <<c, p + 1>> \in Unhandled(r, c, p, n) <=> n = r[c][p + 1]
  BY <1>1, UnhandledFacts
<1>. DEFINE T == Unhandled(r, c, p, n) \ {<<c, p + 1>>}
<1>3. \A e \in T : e = <<e[1], e[2]>> /\ e[1] \in CPUs /\ e[2] \in 1 .. RingSize
  BY UnhandledFacts
<1>4. ASSUME NEW x \in CPUs, NEW i \in 1 .. RingSize
      PROVE  <<x, i>> \in T <=> i <= Len(r[x]) /\ r[x][i] = n /\ ~(x = c /\ i <= p + 1)
  <2>1. <<x, i>> \in T <=>
          i <= Len(r[x]) /\ r[x][i] = n /\ ~(x = c /\ i <= p) /\ <<x, i>> # <<c, p + 1>>
    BY UnhandledFacts
  <2>2. <<x, i>> = <<c, p + 1>> <=> x = c /\ i = p + 1
    OBVIOUS
  <2>3. i <= p + 1 <=> i <= p \/ i = p + 1
    OBVIOUS
  <2>. QED BY <2>1, <2>2, <2>3
<1>5. Unhandled(r, c, p + 1, n) = T
  <2>1. IsUnhandled(T, r, c, p + 1, n)
    BY <1>3, <1>4 DEF IsUnhandled
  <2>. QED BY <2>1, SamePairs
<1>6. PICK x : x = <<c, p + 1>>
  OBVIOUS
<1>7. Cardinality(Unhandled(r, c, p, n) \ {x}) =
        IF x \in Unhandled(r, c, p, n) THEN Cardinality(Unhandled(r, c, p, n)) - 1
        ELSE Cardinality(Unhandled(r, c, p, n))
  BY UnhandledFinite, FS_RemoveElement
<1>8. PICK k, l : k = Cardinality(Unhandled(r, c, p, n)) /\ l = Cardinality(T)
  OBVIOUS
<1>9. k \in Nat /\ l = IF n = r[c][p + 1] THEN k - 1 ELSE k
  BY <1>2, <1>6, <1>7, <1>8, UnhandledFinite
<1>10. (n = r[c][p + 1] => k = l + 1) /\ (n # r[c][p + 1] => k = l)
  BY <1>9
<1>. HIDE DEF T
<1>. QED BY <1>2, <1>5, <1>8, <1>10 DEF Taken

LEMMA SuffixFacts ==
  ASSUME NEW S, NEW q \in Seq(S), NEW b \in Nat, b <= Len(q)
  PROVE  LET u == SubSeq(q, b + 1, Len(q)) IN
         /\ u \in Seq(S) /\ Len(u) = Len(q) - b
         /\ \A i \in 1 .. Len(q) - b : u[i] = q[i + b]
OBVIOUS

(* perf_buffer__poll frees the events it has handed over: the others move  *)
(* to the front of the ring.                                               *)
LEMMA RingFreed ==
  ASSUME NEW r \in Rings, NEW c \in CPUs, NEW b \in Nat, b <= Len(r[c]), NEW n
  PROVE  LET s == [r EXCEPT ![c] = SubSeq(@, b + 1, Len(@))] IN
         /\ s \in Rings
         /\ Cardinality(Unhandled(s, c, 0, n)) = Cardinality(Unhandled(r, c, b, n))
<1>. DEFINE s == [r EXCEPT ![c] = SubSeq(@, b + 1, Len(@))]
            A == Unhandled(r, c, b, n)
            B == Unhandled(s, c, 0, n)
<1>0. r \in [CPUs -> Seq(Probes!Conns)] /\ RingSize \in Nat
  BY MachineAssumption DEF Rings
<1>1. /\ DOMAIN s = CPUs
      /\ \A e \in CPUs : s[e] = IF e = c THEN SubSeq(r[c], b + 1, Len(r[c])) ELSE r[e]
  BY <1>0
<1>2. \A e \in CPUs : Len(r[e]) \in Nat /\ r[e] \in Seq(Probes!Conns) /\ Len(r[e]) <= RingSize
  BY <1>0 DEF Rings
<1>3. /\ s[c] \in Seq(Probes!Conns) /\ Len(s[c]) = Len(r[c]) - b
      /\ \A i \in 1 .. Len(r[c]) - b : s[c][i] = r[c][i + b]
  BY <1>1, <1>2, SuffixFacts
<1>4. s = [e \in CPUs |-> s[e]]
  BY <1>0
<1>. HIDE DEF s
<1>5. s \in Rings
  <2>1. ASSUME NEW e \in CPUs PROVE s[e] \in Seq(Probes!Conns) /\ Len(s[e]) <= RingSize
    <3>1. CASE e = c
      <4>1. Len(r[c]) - b <= RingSize
        BY <1>0, <1>2
      <4>. QED BY <1>3, <3>1, <4>1
    <3>2. CASE e # c
      BY <1>1, <1>2, <3>2
    <3>. QED BY <3>1, <3>2
  <2>2. s \in [CPUs -> Seq(Probes!Conns)]
    BY <1>4, <2>1
  <2>. QED BY <2>1, <2>2 DEF Rings
<1>6. \A x \in CPUs, i \in 1 .. RingSize : x # c => (<<x, i>> \in B <=> <<x, i>> \in A)
  BY <1>1, UnhandledFacts
<1>7. \A i \in 1 .. RingSize :
        <<c, i>> \in A <=> b < i /\ i <= Len(r[c]) /\ r[c][i] = n
  BY UnhandledFacts
<1>8. \A i \in 1 .. RingSize :
        <<c, i>> \in B <=> i <= Len(r[c]) - b /\ r[c][i + b] = n
  <2>. SUFFICES ASSUME NEW i \in 1 .. RingSize
                PROVE  <<c, i>> \in B <=> i <= Len(r[c]) - b /\ r[c][i + b] = n
    OBVIOUS
  <2>1. <<c, i>> \in B <=> i <= Len(s[c]) /\ s[c][i] = n
    <3>1. ~(i <= 0)
      OBVIOUS
    <3>. QED BY <3>1, UnhandledFacts
  <2>2. i <= Len(r[c]) - b => s[c][i] = r[c][i + b]
    BY <1>2, <1>3
  <2>. QED BY <1>3, <2>1, <2>2
<1>9. /\ \A e \in A : e = <<e[1], e[2]>> /\ e[1] \in CPUs /\ e[2] \in 1 .. RingSize
      /\ \A e \in B : e = <<e[1], e[2]>> /\ e[1] \in CPUs /\ e[2] \in 1 .. RingSize
  BY UnhandledFacts
<1>10. IsFiniteSet(A)
  BY UnhandledFinite
<1>. HIDE DEF A, B
<1>. DEFINE f == [e \in A |-> IF e[1] = c THEN <<c, e[2] - b>> ELSE e]
<1>11. ASSUME NEW e \in A
       PROVE  /\ f[e] \in B
              /\ f[e][1] = e[1]
              /\ f[e][2] = IF e[1] = c THEN e[2] - b ELSE e[2]
  <2>1. PICK d, i : e = <<d, i>> /\ e[1] = d /\ e[2] = i /\ d \in CPUs /\ i \in 1 .. RingSize
    BY <1>9
  <2>2. CASE d = c
    <3>1. b < i /\ i <= Len(r[c]) /\ r[c][i] = n
      BY <1>7, <2>1, <2>2
    <3>2. i - b \in 1 .. RingSize /\ i - b <= Len(r[c]) - b /\ (i - b) + b = i
      BY <1>0, <1>2, <2>1, <3>1
    <3>3. <<c, i - b>> \in B
      BY <1>8, <3>1, <3>2
    <3>. QED BY <2>1, <2>2, <3>3
  <2>3. CASE d # c
    <3>1. <<d, i>> \in B
      BY <1>6, <2>1, <2>3
    <3>. QED BY <2>1, <2>3, <3>1
  <2>. QED BY <2>2, <2>3
<1>12. f \in [A -> B]
  BY <1>11
<1>13. ASSUME NEW e \in A, NEW g \in A, f[e] = f[g]
       PROVE  e = g
  <2>1. e[1] = g[1] /\ e[2] \in Int /\ g[2] \in Int
    BY <1>9, <1>11, <1>13
  <2>2. f[e][2] = f[g][2]
    BY <1>13
  <2>. HIDE DEF f
  <2>3. e[2] = g[2]
    BY <1>11, <2>1, <2>2
  <2>. QED BY <1>9, <2>1, <2>3
<1>14. ASSUME NEW g \in B
       PROVE  \E e \in A : f[e] = g
  <2>1. PICK d, i : g = <<d, i>> /\ d \in CPUs /\ i \in 1 .. RingSize
    BY <1>9
  <2>2. CASE d = c
    <3>1. i <= Len(r[c]) - b /\ r[c][i + b] = n
      BY <1>8, <2>1, <2>2
    <3>2. i + b \in 1 .. RingSize /\ b < i + b /\ i + b <= Len(r[c]) /\ (i + b) - b = i
      BY <1>0, <1>2, <2>1, <3>1
    <3>3. <<c, i + b>> \in A
      BY <1>7, <3>1, <3>2
    <3>4. f[<<c, i + b>>] = <<c, (i + b) - b>>
      BY <3>3
    <3>. QED BY <2>1, <2>2, <3>2, <3>3, <3>4
  <2>3. CASE d # c
    <3>1. <<d, i>> \in A
      BY <1>6, <2>1, <2>3
    <3>2. f[<<d, i>>] = <<d, i>>
      BY <2>3, <3>1
    <3>. QED BY <2>1, <3>1, <3>2
  <2>. QED BY <2>2, <2>3
<1>. HIDE DEF f
<1>15. f \in Bijection(A, B)
  <2>1. DOMAIN f = A
    BY <1>12
  <2>2. f \in Injection(A, B)
    BY <1>12, <1>13, <2>1 DEF Injection, IsInjective
  <2>3. f \in Surjection(A, B)
    BY <1>12, <1>14 DEF Surjection
  <2>. QED BY <2>2, <2>3 DEF Bijection
<1>16. Cardinality(B) = Cardinality(A)
  BY <1>10, <1>15, FS_Bijection DEF ExistsBijection
<1>. QED BY <1>5, <1>16, Zenon DEF s, A, B
----------------------------------------------------------------------------
(* What the machine does to the rings.                                     *)

(* The probes add at most one event, of a connection that exists, to a     *)
(* ring that has room.                                                     *)
Output(c, n) ==
  /\ Appended(ring, c, n, ring')
  /\ events' = [events EXCEPT ![n] = @ + 1]

SockTypes == [kind : Probes!Kinds, conn : 0 .. MaxConns, inet : BOOLEAN]

(* A step that changes one socket and no probe.                            *)
LEMMA SocketStep ==
  ASSUME ProbeInv, NEW s \in Socks, NEW v \in SockTypes,
         sk' = [sk EXCEPT ![s] = v], nconns' \in 0 .. MaxConns,
         v.kind # "free" => v.conn \in Probes!Conns,
         v.kind = "free" => \A c \in CPUs : ptr[c] # s,
         UNCHANGED <<pc, ptr, ring, events>>
  PROVE  ProbeInv'
<1>0. sk \in [Socks -> SockTypes]
  BY DEF ProbeInv, SockTypes
<1>1. sk' \in [Socks -> SockTypes] /\ \A x \in Socks : sk'[x] = IF x = s THEN v ELSE sk[x]
  BY <1>0
<1>2. \A x \in Socks : sk'[x].kind # "free" => sk'[x].conn \in Probes!Conns
  BY <1>1 DEF ProbeInv
<1>3. \A c \in CPUs : pc[c] # "idle" => ptr[c] \in Socks /\ sk'[ptr[c]].kind # "free"
  BY <1>1 DEF ProbeInv
<1>4. /\ pc \in [CPUs -> {"idle", "new", "output"}] /\ ptr \in [CPUs -> Socks \cup {NoSock}]
      /\ ring \in Rings /\ events \in [Probes!Conns -> Nat]
  BY DEF ProbeInv
<1>. QED BY <1>1, <1>2, <1>3, <1>4, Zenon DEF ProbeInv, SockTypes

LEMMA NetworkStep ==
  ASSUME ProbeInv, NEW s \in Socks, Network(s)
  PROVE  ProbeInv' /\ UNCHANGED <<ring, events>>
<1>0. /\ sk[s] \in SockTypes /\ nconns \in 0 .. MaxConns /\ MaxConns \in Nat
      /\ (sk[s].kind # "free" => sk[s].conn \in Probes!Conns)
  BY MachineAssumption DEF ProbeInv, SockTypes
<1>1. CASE Probes!Connect(s) /\ UNCHANGED <<pc, ptr, ring, events>>
  <2>1. PICK inet \in BOOLEAN : sk' = [sk EXCEPT ![s] = Probes!Sock("connecting", nconns + 1, inet)]
    BY <1>1 DEF Probes!Connect
  <2>2. nconns < MaxConns /\ nconns' = nconns + 1
    BY <1>1 DEF Probes!Connect
  <2>3. PICK v : v = Probes!Sock("connecting", nconns + 1, inet)
    OBVIOUS
  <2>4. nconns + 1 \in 0 .. MaxConns /\ nconns + 1 \in Probes!Conns
    BY <1>0, <2>2 DEF Probes!Conns
  <2>5. v \in SockTypes /\ v.kind = "connecting" /\ v.conn = nconns + 1
    BY <2>3, <2>4 DEF SockTypes, Probes!Sock, Probes!Kinds
  <2>. QED BY <1>1, <2>1, <2>2, <2>3, <2>4, <2>5, SocketStep
<1>2. CASE Probes!Accept(s)
  <2>1. PICK inet \in BOOLEAN : sk' = [sk EXCEPT ![s] = Probes!Sock("accepted", nconns + 1, inet)]
    BY <1>2 DEF Probes!Accept
  <2>2. nconns < MaxConns /\ nconns' = nconns + 1 /\ UNCHANGED <<pc, ptr, ring, events>>
    BY <1>2 DEF Probes!Accept
  <2>3. PICK v : v = Probes!Sock("accepted", nconns + 1, inet)
    OBVIOUS
  <2>4. nconns + 1 \in 0 .. MaxConns /\ nconns + 1 \in Probes!Conns
    BY <1>0, <2>2 DEF Probes!Conns
  <2>5. v \in SockTypes /\ v.kind = "accepted" /\ v.conn = nconns + 1
    BY <2>3, <2>4 DEF SockTypes, Probes!Sock, Probes!Kinds
  <2>. QED BY <2>1, <2>2, <2>3, <2>4, <2>5, SocketStep
<1>3. CASE Probes!kretprobe_tcp_v4_connect(s)
  <2>1. PICK kind \in {"open", "unconnected"} : sk' = [sk EXCEPT ![s].kind = kind]
    BY <1>3 DEF Probes!kretprobe_tcp_v4_connect
  <2>2. sk[s].kind = "connecting" /\ UNCHANGED <<nconns, pc, ptr, ring, events>>
    BY <1>3 DEF Probes!kretprobe_tcp_v4_connect
  <2>3. PICK v : v = [sk[s] EXCEPT !.kind = kind]
    OBVIOUS
  <2>4. v \in SockTypes /\ v.kind = kind /\ v.conn = sk[s].conn
    BY <1>0, <2>1, <2>3 DEF SockTypes, Probes!Kinds
  <2>5. sk' = [sk EXCEPT ![s] = v]
    BY <2>1, <2>3
  <2>. QED BY <1>0, <2>2, <2>1, <2>4, <2>5, SocketStep
<1>4. CASE Probes!Close(s)
  <2>1. sk' = [sk EXCEPT ![s] = Probes!Free] /\ UNCHANGED <<nconns, pc, ptr, ring, events>>
    BY <1>4 DEF Probes!Close
  <2>2. \A c \in CPUs : ptr[c] # s
    BY <1>4 DEF Probes!Close, Probes!Sending
  <2>3. PICK v : v = Probes!Free
    OBVIOUS
  <2>4. v \in SockTypes /\ v.kind = "free"
    BY <1>0, <2>3 DEF SockTypes, Probes!Free, Probes!Sock, Probes!Kinds
  <2>. QED BY <1>0, <2>1, <2>2, <2>3, <2>4, SocketStep
<1>5. Probes!kprobe_tcp_v4_connect(s) => Probes!Connect(s) /\ UNCHANGED <<pc, ptr, ring, events>>
  BY DEF Probes!kprobe_tcp_v4_connect
<1>. QED BY <1>1, <1>2, <1>3, <1>4, <1>5 DEF Network

LEMMA SendStep ==
  ASSUME ProbeInv, NEW c \in CPUs, Send(c)
  PROVE  /\ ProbeInv'
         /\ UNCHANGED <<ring, events>> \/ \E n \in Probes!Conns : Output(c, n)
<1>0. /\ sk \in [Socks -> SockTypes] /\ nconns \in 0 .. MaxConns
      /\ \A s \in Socks : sk[s].kind # "free" => sk[s].conn \in Probes!Conns
  BY DEF ProbeInv, SockTypes
<1>1. /\ pc \in [CPUs -> {"idle", "new", "output"}] /\ ptr \in [CPUs -> Socks \cup {NoSock}]
      /\ \A d \in CPUs : pc[d] # "idle" => ptr[d] \in Socks /\ sk[ptr[d]].kind # "free"
  BY DEF ProbeInv
<1>2. ring \in Rings /\ events \in [Probes!Conns -> Nat]
  BY DEF ProbeInv
<1>3. CASE \E s \in Socks : Probes!LookupElem(c, s)
  <2>1. PICK s \in Socks : Probes!LookupElem(c, s)
    BY <1>3
  <2>2. /\ sk[s].kind # "free" /\ pc' = [pc EXCEPT ![c] = "new"] /\ ptr' = [ptr EXCEPT ![c] = s]
        /\ UNCHANGED <<sk, nconns, ring, events>>
    BY <2>1 DEF Probes!LookupElem
  <2>3. /\ pc' \in [CPUs -> {"idle", "new", "output"}] /\ ptr' \in [CPUs -> Socks \cup {NoSock}]
        /\ \A d \in CPUs : pc'[d] # "idle" => ptr'[d] \in Socks /\ sk[ptr'[d]].kind # "free"
    BY <1>1, <2>2
  <2>4. ProbeInv'
    BY <1>0, <1>2, <2>2, <2>3 DEF ProbeInv, SockTypes
  <2>. QED BY <2>2, <2>4
<1>4. CASE Probes!NotInet(c) \/ Probes!MarkProcessed(c)
  <2>1. /\ pc' = [pc EXCEPT ![c] = "idle"] /\ ptr' = [ptr EXCEPT ![c] = NoSock]
        /\ UNCHANGED <<sk, nconns, ring, events>>
    BY <1>4 DEF Probes!NotInet, Probes!MarkProcessed
  <2>2. /\ pc' \in [CPUs -> {"idle", "new", "output"}] /\ ptr' \in [CPUs -> Socks \cup {NoSock}]
        /\ \A d \in CPUs : pc'[d] # "idle" => ptr'[d] \in Socks /\ sk[ptr'[d]].kind # "free"
    BY <1>1, <2>1
  <2>3. ProbeInv'
    BY <1>0, <1>2, <2>1, <2>2 DEF ProbeInv, SockTypes
  <2>. QED BY <2>1, <2>3
<1>5. CASE Probes!PerfEventOutput(c)
  <2>1. PICK n : n = sk[ptr[c]].conn
    OBVIOUS
  <2>2. pc[c] = "new" /\ pc' = [pc EXCEPT ![c] = "output"] /\ UNCHANGED <<sk, nconns, ptr>>
    BY <1>5 DEF Probes!PerfEventOutput
  <2>3. n \in Probes!Conns
    BY <1>0, <1>1, <2>1, <2>2
  <2>4. UNCHANGED <<ring, events>> \/ Output(c, n)
    BY <1>5, <2>1 DEF Probes!PerfEventOutput, Output, Appended
  <2>5. /\ pc' \in [CPUs -> {"idle", "new", "output"}] /\ ptr' \in [CPUs -> Socks \cup {NoSock}]
        /\ \A d \in CPUs : pc'[d] # "idle" => ptr'[d] \in Socks /\ sk[ptr'[d]].kind # "free"
    BY <1>1, <2>2
  <2>6. ring' \in Rings /\ events' \in [Probes!Conns -> Nat]
    <3>1. CASE UNCHANGED <<ring, events>>
      BY <1>2, <3>1
    <3>2. CASE Output(c, n)
      <4>1. Appended(ring, c, n, ring')
        BY <3>2 DEF Output
      <4>2. ring' \in Rings
        BY <1>2, <2>3, <4>1, RingAppended
      <4>3. [events EXCEPT ![n] = @ + 1] \in [Probes!Conns -> Nat]
        BY <1>2, <2>3
      <4>. QED BY <3>2, <4>2, <4>3 DEF Output
    <3>. QED BY <2>4, <3>1, <3>2
  <2>7. ProbeInv'
    BY <1>0, <2>2, <2>5, <2>6 DEF ProbeInv, SockTypes
  <2>. QED BY <2>3, <2>4, <2>7
<1>. QED BY <1>3, <1>4, <1>5 DEF Send
----------------------------------------------------------------------------
(* What main and the handler do.                                           *)

LEMMA QueuedAre ==
  ASSUME NEW n
  PROVE  Queued(n) = Unhandled(ring, cpu, pos, n) /\ Queued(n)' = Unhandled(ring', cpu', pos', n)
BY Zenon DEF Queued, Unhandled

(* The event the handler is called with is one that waits.                 *)
LEMMA HandledFacts ==
  ASSUME ProbeInv, LoopInv, pos < batch
  PROVE  /\ Handled \in Probes!Conns /\ FlowOf[Handled] \in Tuples
         /\ pos + 1 \in 1 .. Len(ring[cpu])
         /\ Accounted => events[Handled] > 0
<1>1. /\ cpu \in CPUs /\ pos \in Nat /\ batch \in Nat /\ batch <= Len(ring[cpu])
      /\ ring \in Rings /\ ring[cpu] \in Seq(Probes!Conns)
  BY DEF LoopInv, ProbeInv, Rings
<1>2. pos + 1 \in 1 .. Len(ring[cpu]) /\ pos < Len(ring[cpu])
  BY <1>1
<1>3. Handled \in Probes!Conns
  BY <1>1, <1>2 DEF Handled
<1>4. FlowOf[Handled] \in Tuples
  BY <1>3, MachineAssumption DEF Probes!Conns
<1>5. ASSUME Accounted PROVE events[Handled] > 0
  <2>1. PICK n \in Probes!Conns : n = Handled
    BY <1>3
  <2>2. <<cpu, pos + 1>> \in Unhandled(ring, cpu, pos, n)
    <3>1. Taken(ring, cpu, pos, n)
      BY <1>1, <1>2, EventTaken
    <3>. QED BY <2>1, <3>1 DEF Taken, Handled
  <2>3. Queued(n) # {} /\ IsFiniteSet(Queued(n)) /\ Cardinality(Queued(n)) \in Nat
    BY <2>2, QueuedAre, UnhandledFinite
  <2>4. Cardinality(Queued(n)) # 0
    BY <2>3, FS_EmptySet
  <2>5. events[n] = answered[n] + Cardinality(Queued(n)) /\ answered[n] \in Nat
    BY <1>5 DEF Accounted, LoopInv
  <2>. QED BY <2>1, <2>3, <2>4, <2>5
<1>. QED BY <1>2, <1>3, <1>4, <1>5

(* Only handle_tcp_event begins a call for a key.                          *)
LEMMA CallSteps ==
  ASSUME [SystemNext]_systemVars, ~handle_tcp_event, call' \in InGetKey
  PROVE  call \in InGetKey /\ req' = req
<1>. USE DEF InGetKey
<1>1. CASE StartProvider
  BY <1>1 DEF StartProvider, key_provider_init
<1>2. CASE Cleanup
  BY <1>2 DEF Cleanup, key_provider_cleanup
<1>3. CASE UNCHANGED <<call, req>>
  BY <1>3
<1>4. CASE ProviderStep
  BY <1>4 DEF ProviderStep, InitReturns, StartHandshake, FetchAgain, GetKeyReturns
<1>5. \/ StartProvider \/ Cleanup \/ ProviderStep \/ UNCHANGED <<call, req>>
  <2>1. MainStep => StartProvider \/ Cleanup \/ UNCHANGED <<call, req>>
    BY DEF MainStep, LoadFiles, Attach, LeaveLoop, PollEvents, ReadRing, EventHandled,
           EventReturns, RingRead, PollReturns
  <2>2. sig_handler \/ Machine \/ ServiceSteps => UNCHANGED <<call, req>>
    BY DEF sig_handler, Machine, ServiceSteps, Inside
  <2>3. ProviderSteps => ProviderStep \/ UNCHANGED <<call, req>>
    BY DEF ProviderSteps, Inside
  <2>. QED BY <2>1, <2>2, <2>3 DEF SystemNext
<1>. QED BY <1>1, <1>2, <1>3, <1>4, <1>5

(* Every step of the program is one of the provider, or leaves it alone.   *)
LEMMA ProviderProjection ==
  ASSUME FilesInv, ProbeInv, LoopInv, [SystemNext]_systemVars
  PROVE  [Next]_vars
<1>1. CASE StartProvider
  <2>1. files.config # NoFile => \E n \in Nat : DOMAIN files.config = 1 .. n
    BY <1>1, FileAssumption DEF StartProvider, FilesInv
  <2>2. load_config(files.config).mode \in {"TLSHUB", "OPENSSL", "BORINGSSL"}
    BY <2>1, ConfigRead
  <2>3. config.mode \in Modes
    BY <1>1, <2>2, FileAssumption DEF StartProvider, FilesInv
  <2>4. key_provider_init(config.mode)
    BY <1>1 DEF StartProvider
  <2>. QED BY <2>3, <2>4 DEF Next, CallerStep
<1>2. CASE Cleanup
  BY <1>2 DEF Cleanup, Next, CallerStep
<1>3. CASE handle_tcp_event
  <2>1. FlowOf[Handled] \in Tuples
    BY <1>3, HandledFacts DEF handle_tcp_event
  <2>2. key_provider_get_key(FlowOf[Handled]) \/ openssl_get_key
    BY <1>3 DEF handle_tcp_event
  <2>. QED BY <2>1, <2>2 DEF Next, CallerStep
<1>4. CASE ProviderSteps \/ ServiceSteps
  BY <1>4 DEF ProviderSteps, ServiceSteps, Inside, Next
<1>5. CASE UNCHANGED keyVars
  BY <1>5
<1>6. \/ StartProvider \/ Cleanup \/ handle_tcp_event
      \/ ProviderSteps \/ ServiceSteps \/ UNCHANGED keyVars
  BY DEF SystemNext, MainStep, LoadFiles, Attach, LeaveLoop, PollEvents, ReadRing,
         EventHandled, EventReturns, RingRead, PollReturns, sig_handler, Machine
<1>. QED BY <1>1, <1>2, <1>3, <1>4, <1>5, <1>6

(* An output lets every event stay where it is.                            *)
LEMMA OutputStep ==
  ASSUME SystemInv, NEW c \in CPUs, NEW m \in Probes!Conns, Output(c, m),
         UNCHANGED <<cpu, pos, answered>>
  PROVE  /\ Accounted'
         /\ \A i \in 1 .. Len(ring[cpu]) : i \in 1 .. Len(ring'[cpu]) /\ ring'[cpu][i] = ring[cpu][i]
         /\ \A n \in Probes!Conns : events'[n] >= events[n]
<1>1. /\ ring \in Rings /\ pos \in Nat /\ pos <= Len(ring[cpu]) /\ cpu \in CPUs
      /\ events \in [Probes!Conns -> Nat] /\ answered \in [Probes!Conns -> Nat]
  <2>1. /\ ring \in Rings /\ pos \in Nat /\ batch \in Nat /\ pos <= batch
        /\ batch <= Len(ring[cpu]) /\ cpu \in CPUs
    BY DEF SystemInv, ProbeInv, LoopInv
  <2>2. Len(ring[cpu]) \in Nat
    BY <2>1 DEF Rings
  <2>. QED BY <2>1, <2>2 DEF SystemInv, ProbeInv, LoopInv
<1>2. /\ Appended(ring, c, m, ring')
      /\ events' = [events EXCEPT ![m] = @ + 1]
  BY DEF Output
<1>3. ASSUME NEW n \in Probes!Conns
      PROVE  (events[n] = answered[n] + Cardinality(Queued(n)))'
  <2>1. /\ n = m => Cardinality(Unhandled(ring', cpu, pos, n)) =
                      Cardinality(Unhandled(ring, cpu, pos, n)) + 1
        /\ n # m => Cardinality(Unhandled(ring', cpu, pos, n)) =
                      Cardinality(Unhandled(ring, cpu, pos, n))
    <3>1. Added(ring, m, ring', cpu, pos, n)
      BY <1>1, <1>2, EventAdded
    <3>. QED BY <3>1 DEF Added
  <2>2. events[n] = answered[n] + Cardinality(Unhandled(ring, cpu, pos, n))
    BY QueuedAre DEF SystemInv, Accounted
  <2>3. events'[n] = IF n = m THEN events[n] + 1 ELSE events[n]
    BY <1>1, <1>2
  <2>4. Cardinality(Unhandled(ring, cpu, pos, n)) \in Nat /\ answered[n] \in Nat
    BY <1>1, UnhandledFinite
  <2>5. PICK k, l : /\ k = Cardinality(Unhandled(ring, cpu, pos, n))
                    /\ l = Cardinality(Unhandled(ring', cpu, pos, n))
    OBVIOUS
  <2>6. events'[n] = answered[n] + l
    BY <2>1, <2>2, <2>3, <2>4, <2>5
  <2>. QED BY <2>5, <2>6, QueuedAre
<1>4. \A i \in 1 .. Len(ring[cpu]) : i \in 1 .. Len(ring'[cpu]) /\ ring'[cpu][i] = ring[cpu][i]
  BY <1>1, <1>2, RingAppended
<1>5. \A n \in Probes!Conns : events'[n] >= events[n]
  BY <1>1, <1>2
<1>. QED BY <1>3, <1>4, <1>5 DEF Accounted

(* A step of the machine.                                                  *)
LEMMA MachineStep ==
  ASSUME SystemInv, Machine
  PROVE  ProbeInv' /\ LoopInv' /\ Accounted' /\ \A n \in Probes!Conns : events'[n] >= events[n]
<1>0. UNCHANGED <<keyVars, main, pollVars>>
  BY DEF Machine
<1>1. /\ ProbeInv'
      /\ \/ UNCHANGED <<ring, events>>
         \/ \E c \in CPUs, n \in Probes!Conns : Output(c, n)
  BY NetworkStep, SendStep DEF Machine, SystemInv
<1>2. CASE UNCHANGED <<ring, events>>
  <2>1. LoopInv'
    BY <1>0, <1>2 DEF SystemInv, LoopInv, Handled
  <2>2. Accounted'
    BY <1>0, <1>2 DEF SystemInv, Accounted, Queued
  <2>3. events \in [Probes!Conns -> Nat]
    BY DEF SystemInv, ProbeInv
  <2>. QED BY <1>1, <1>2, <2>1, <2>2, <2>3
<1>3. CASE \E c \in CPUs, n \in Probes!Conns : Output(c, n)
  <2>1. PICK c \in CPUs, m \in Probes!Conns : Output(c, m)
    BY <1>3
  <2>2. /\ Accounted'
        /\ \A i \in 1 .. Len(ring[cpu]) : i \in 1 .. Len(ring'[cpu]) /\ ring'[cpu][i] = ring[cpu][i]
        /\ \A n \in Probes!Conns : events'[n] >= events[n]
    BY <1>0, <2>1, OutputStep
  <2>3. batch \in Nat /\ batch <= Len(ring[cpu]) /\ cpu \in CPUs /\ ring \in Rings /\ ring' \in Rings
    BY <1>1 DEF SystemInv, LoopInv, ProbeInv
  <2>4. Len(ring[cpu]) \in Nat /\ Len(ring'[cpu]) \in Nat
    BY <2>3 DEF Rings
  <2>5. batch <= Len(ring'[cpu])
    <3>1. CASE batch = 0
      BY <2>4, <3>1
    <3>2. CASE batch # 0
      <4>1. batch \in 1 .. Len(ring[cpu])
        BY <2>3, <2>4, <3>2
      <4>. QED BY <2>2, <2>3, <2>4, <4>1
    <3>. QED BY <3>1, <3>2
  <2>6. pos < batch => Handled' = Handled
    <3>1. pos < batch => pos + 1 \in 1 .. Len(ring[cpu])
      BY HandledFacts DEF SystemInv
    <3>. QED BY <1>0, <2>2, <3>1 DEF Handled
  <2>7. call \in InGetKey => asked /\ req = FlowOf[Handled] /\ pos < batch
    BY DEF SystemInv, LoopInv
  <2>8. LoopInv'
    BY <1>0, <2>5, <2>6, <2>7 DEF SystemInv, LoopInv
  <2>. QED BY <1>1, <2>2, <2>8
<1>. QED BY <1>1, <1>2, <1>3

(* The handler returns.                                                    *)
LEMMA EventHandledStep ==
  ASSUME SystemInv, EventHandled
  PROVE  LoopInv' /\ Accounted'
<1>1. /\ main = "handler" /\ asked /\ call = "idle" /\ asked' = FALSE /\ pos' = pos + 1
      /\ answered' = [answered EXCEPT ![Handled] = @ + 1]
      /\ UNCHANGED <<kernelVars, keyVars, main, ready, cpu, batch>>
  BY DEF EventHandled, EventReturns
<1>2. /\ ring \in Rings /\ pos \in Nat /\ pos < batch /\ batch \in Nat /\ cpu \in CPUs
      /\ batch <= Len(ring[cpu]) /\ answered \in [Probes!Conns -> Nat]
  BY <1>1 DEF SystemInv, ProbeInv, LoopInv
<1>3. Len(ring[cpu]) \in Nat
  BY <1>2 DEF Rings
<1>4. pos < Len(ring[cpu]) /\ pos + 1 \in Nat /\ pos + 1 <= batch
  BY <1>2, <1>3
<1>5. Handled \in Probes!Conns
  BY <1>2, HandledFacts DEF SystemInv
<1>6. LoopInv'
  <2>1. answered' \in [Probes!Conns -> Nat]
    BY <1>1, <1>2, <1>5
  <2>2. call' \notin InGetKey
    BY <1>1 DEF InGetKey
  <2>. QED BY <1>1, <1>2, <1>4, <2>1, <2>2 DEF SystemInv, LoopInv
<1>7. ASSUME NEW n \in Probes!Conns
      PROVE  (events[n] = answered[n] + Cardinality(Queued(n)))'
  <2>1. /\ n = Handled => Cardinality(Unhandled(ring, cpu, pos, n)) =
                            Cardinality(Unhandled(ring, cpu, pos + 1, n)) + 1
        /\ n # Handled => Cardinality(Unhandled(ring, cpu, pos, n)) =
                            Cardinality(Unhandled(ring, cpu, pos + 1, n))
    <3>1. ring \in Rings /\ cpu \in CPUs /\ pos \in Nat /\ pos < Len(ring[cpu])
      BY <1>2, <1>4
    <3>2. Taken(ring, cpu, pos, n)
      BY <3>1, EventTaken
    <3>. QED BY <3>2 DEF Taken, Handled
  <2>2. events[n] = answered[n] + Cardinality(Unhandled(ring, cpu, pos, n))
    BY QueuedAre DEF SystemInv, Accounted
  <2>3. answered'[n] = IF n = Handled THEN answered[n] + 1 ELSE answered[n]
    BY <1>1, <1>2
  <2>4. Cardinality(Unhandled(ring, cpu, pos + 1, n)) \in Nat /\ answered[n] \in Nat
    BY <1>2, UnhandledFinite
  <2>5. PICK k, l : /\ k = Cardinality(Unhandled(ring, cpu, pos, n))
                    /\ l = Cardinality(Unhandled(ring, cpu, pos + 1, n))
    OBVIOUS
  <2>6. events[n] = answered'[n] + l
    BY <2>1, <2>2, <2>3, <2>4, <2>5
  <2>. QED BY <1>1, <2>5, <2>6, QueuedAre
<1>. QED BY <1>6, <1>7 DEF Accounted

(* The ring has been read as far as it was filled.                         *)
LEMMA RingReadStep ==
  ASSUME SystemInv, RingRead
  PROVE  ProbeInv' /\ LoopInv' /\ Accounted'
<1>1. /\ main = "handler" /\ pos = batch /\ batch' = 0 /\ pos' = 0 /\ main' = "poll"
      /\ UNCHANGED <<keyVars, ready, cpu, asked, answered>>
  BY DEF RingRead, Goto
<1>2. /\ ring' = [ring EXCEPT ![cpu] = SubSeq(@, batch + 1, Len(@))]
      /\ UNCHANGED <<sk, nconns, pc, ptr, events>>
  BY DEF RingRead, Probes!Poll
<1>3. /\ ring \in Rings /\ batch \in Nat /\ cpu \in CPUs
      /\ batch <= Len(ring[cpu]) /\ ~asked
  BY <1>1 DEF SystemInv, ProbeInv, LoopInv
<1>4. ring' \in Rings /\ \A n : Cardinality(Unhandled(ring', cpu, 0, n)) =
                                Cardinality(Unhandled(ring, cpu, batch, n))
  BY <1>2, <1>3, RingFreed
<1>5. ProbeInv'
  BY <1>2, <1>4 DEF SystemInv, ProbeInv
<1>6. LoopInv'
  <2>1. 0 <= Len(ring'[cpu])
    BY <1>3, <1>4 DEF Rings
  <2>2. call' \notin InGetKey
    BY <1>1, <1>3 DEF SystemInv, LoopInv
  <2>. QED BY <1>1, <1>3, <2>1, <2>2 DEF SystemInv, LoopInv
<1>7. Accounted'
  <2>1. ASSUME NEW n \in Probes!Conns
        PROVE  (events[n] = answered[n] + Cardinality(Queued(n)))'
    <3>1. events[n] = answered[n] + Cardinality(Unhandled(ring, cpu, pos, n))
      BY QueuedAre DEF SystemInv, Accounted
    <3>2. Cardinality(Queued(n)') = Cardinality(Unhandled(ring, cpu, batch, n))
      BY <1>1, <1>4, QueuedAre
    <3>. QED BY <1>1, <1>2, <3>1, <3>2
  <2>. QED BY <2>1 DEF Accounted
<1>. QED BY <1>5, <1>6, <1>7

(* All other steps leave the rings and what is handled of them alone.      *)
LEMMA OtherStep ==
  ASSUME SystemInv, [SystemNext]_systemVars, ~Machine, ~EventHandled, ~RingRead
  PROVE  ProbeInv' /\ LoopInv' /\ Accounted' /\ events' = events
<1>1. UNCHANGED <<kernelVars, answered>>
  <2>1. MainStep => UNCHANGED <<kernelVars, answered>>
    BY DEF MainStep, LoadFiles, StartProvider, Attach, LeaveLoop, Cleanup, PollEvents,
           ReadRing, handle_tcp_event, PollReturns
  <2>2. sig_handler \/ ProviderSteps \/ ServiceSteps => UNCHANGED <<kernelVars, answered>>
    BY DEF sig_handler, ProviderSteps, ServiceSteps, Inside
  <2>. QED BY <2>1, <2>2 DEF SystemNext
<1>2. ProbeInv'
  BY <1>1 DEF SystemInv, ProbeInv
<1>. DEFINE Idles == /\ UNCHANGED <<cpu, pos, batch, asked>>
                     /\ ready' \subseteq CPUs
                     /\ main = "handler" => main' = "handler"
<1>3. \/ \E c \in CPUs : ReadRing(c)
      \/ handle_tcp_event /\ UNCHANGED <<cpu, pos, batch>>
      \/ Idles
  <2>0. ready \subseteq CPUs
    BY DEF SystemInv, LoopInv
  <2>1. LoadFiles \/ StartProvider \/ Attach \/ LeaveLoop \/ Cleanup => Idles
    BY <2>0 DEF LoadFiles, StartProvider, Attach, LeaveLoop, Cleanup, Goto
  <2>2. PollEvents \/ PollReturns => Idles
    BY <2>0 DEF PollEvents, PollReturns, Goto
  <2>3. sig_handler \/ ProviderSteps \/ ServiceSteps \/ UNCHANGED systemVars => Idles
    BY <2>0 DEF sig_handler, ProviderSteps, ServiceSteps, Inside
  <2>4. handle_tcp_event => UNCHANGED <<cpu, pos, batch>>
    BY DEF handle_tcp_event
  <2>. HIDE DEF Idles
  <2>. QED BY <2>1, <2>2, <2>3, <2>4 DEF SystemNext, MainStep
<1>4. CASE \E c \in CPUs : ReadRing(c)
  <2>1. PICK c \in CPUs : ReadRing(c)
    BY <1>4
  <2>2. /\ main = "poll" /\ main' = "handler" /\ ready' \subseteq ready /\ cpu' = c
        /\ batch' = Len(ring[c]) /\ UNCHANGED <<keyVars, pos, asked>>
    BY <2>1 DEF ReadRing, Goto
  <2>3. pos = 0 /\ ~asked /\ ready \subseteq CPUs /\ asked \in BOOLEAN /\ call \notin InGetKey
        /\ answered \in [Probes!Conns -> Nat]
    BY <2>2 DEF SystemInv, LoopInv
  <2>4. Len(ring[c]) \in Nat /\ ring \in Rings
    BY DEF SystemInv, ProbeInv, Rings
  <2>5. LoopInv'
    BY <1>1, <2>2, <2>3, <2>4 DEF LoopInv
  <2>6. Accounted'
    <3>1. ASSUME NEW n \in Probes!Conns
          PROVE  (events[n] = answered[n] + Cardinality(Queued(n)))'
      <4>1. events[n] = answered[n] + Cardinality(Unhandled(ring, cpu, 0, n))
        BY <2>3, QueuedAre DEF SystemInv, Accounted
      <4>2. Unhandled(ring, cpu, 0, n) = Unhandled(ring, c, 0, n)
        BY <2>4, NothingHandled
      <4>3. Queued(n)' = Unhandled(ring, c, 0, n)
        BY <1>1, <2>2, <2>3, QueuedAre
      <4>. QED BY <1>1, <4>1, <4>2, <4>3
    <3>. QED BY <3>1 DEF Accounted
  <2>. QED BY <1>1, <1>2, <2>5, <2>6
<1>5. CASE UNCHANGED <<cpu, pos, batch>> /\ (handle_tcp_event \/ Idles)
  <2>1. Accounted'
    BY <1>1, <1>5 DEF SystemInv, Accounted, Queued
  <2>2. Handled' = Handled
    BY <1>1, <1>5 DEF Handled
  <2>3. CASE handle_tcp_event
    <3>1. /\ main = "handler" /\ pos < batch /\ asked' = TRUE /\ UNCHANGED <<main, ready>>
          /\ key_provider_get_key(FlowOf[Handled]) \/ openssl_get_key
      BY <2>3 DEF handle_tcp_event
    <3>2. call' \in InGetKey => req' = FlowOf[Handled]
      BY <3>1 DEF key_provider_get_key, openssl_get_key, InGetKey
    <3>3. LoopInv'
      BY <1>1, <1>5, <2>2, <3>1, <3>2 DEF SystemInv, LoopInv
    <3>. QED BY <1>1, <1>2, <2>1, <3>3
  <2>4. CASE Idles /\ ~handle_tcp_event
    <3>1. call' \in InGetKey => call \in InGetKey /\ req' = req
      BY <2>4, CallSteps
    <3>2. LoopInv'
      BY <1>1, <1>5, <2>2, <2>4, <3>1 DEF SystemInv, LoopInv, Idles
    <3>. QED BY <1>1, <1>2, <2>1, <3>2
  <2>. QED BY <1>5, <2>3, <2>4
<1>. QED BY <1>3, <1>4, <1>5

LEMMA SystemInitially == SystemInit => SystemInv
<1>. SUFFICES ASSUME SystemInit PROVE SystemInv
  OBVIOUS
<1>1. FilesInv /\ FinalInv
  BY FinalsInitially DEF SystemInit, FilesInv
<1>2. /\ \A n \in Probes!Conns : events[n] = 0 /\ answered[n] = 0
      /\ ring = [c \in CPUs |-> <<>>] /\ cpu \in CPUs
  BY MachineAssumption DEF SystemInit, Probes!Init
<1>3. ProbeInv
  <2>1. Probes!Free \in SockTypes /\ Probes!Free.kind = "free"
    BY MachineAssumption DEF SockTypes, Probes!Free, Probes!Sock, Probes!Kinds
  <2>2. ring \in Rings
    BY <1>2, MachineAssumption DEF Rings
  <2>. QED BY <2>1, <2>2, MachineAssumption DEF SystemInit, Probes!Init, ProbeInv, SockTypes
<1>4. LoopInv
  <2>1. Len(ring[cpu]) = 0
    BY <1>2
  <2>2. call \notin InGetKey
    BY DEF SystemInit, Init, InGetKey
  <2>3. answered \in [Probes!Conns -> Nat]
    BY DEF SystemInit
  <2>4. /\ ready \subseteq CPUs /\ batch = 0 /\ pos = 0 /\ asked \in BOOLEAN /\ ~asked
    BY DEF SystemInit
  <2>5. batch \in Nat /\ pos \in Nat /\ pos <= batch /\ batch <= Len(ring[cpu])
    BY <2>1, <2>4
  <2>. QED BY <1>2, <2>2, <2>3, <2>4, <2>5, Zenon DEF LoopInv
<1>5. Accounted
  <2>1. ASSUME NEW n \in Probes!Conns PROVE events[n] = answered[n] + Cardinality(Queued(n))
    <3>1. \A e \in Unhandled(ring, cpu, pos, n) : FALSE
      <4>. SUFFICES ASSUME NEW e \in Unhandled(ring, cpu, pos, n) PROVE FALSE
        OBVIOUS
      <4>1. PICK d \in CPUs, i \in 1 .. RingSize : e = <<d, i>>
        BY UnhandledFacts
      <4>2. i <= Len(ring[d])
        BY <4>1, UnhandledFacts
      <4>. QED BY <1>2, <4>1, <4>2
    <3>2. Queued(n) = {}
      BY <3>1, QueuedAre
    <3>. QED BY <1>2, <3>2, FS_EmptySet
  <2>. QED BY <2>1 DEF Accounted
<1>6. Negotiated
  BY DEF SystemInit, Init, ServiceInit, Negotiated
<1>. QED BY <1>1, <1>3, <1>4, <1>5, <1>6 DEF SystemInv

LEMMA SystemSteps ==
  ASSUME SystemInv, [SystemNext]_systemVars
  PROVE  SystemInv'
<1>1. FilesInv'
  BY FilesSteps DEF SystemInv
<1>2. [Next]_vars
  BY ProviderProjection DEF SystemInv
<1>3. FinalInv'
  BY <1>2, FinalSteps DEF SystemInv
<1>4. /\ ProbeInv' /\ LoopInv' /\ Accounted'
      /\ \A n \in Probes!Conns : events'[n] >= events[n]
  <2>0. \A n \in Probes!Conns : events[n] \in Nat
    BY DEF SystemInv, ProbeInv
  <2>1. CASE Machine
    BY <2>1, MachineStep
  <2>2. CASE EventHandled
    <3>1. UNCHANGED kernelVars
      BY <2>2 DEF EventHandled, EventReturns
    <3>2. ProbeInv'
      BY <3>1 DEF SystemInv, ProbeInv
    <3>. QED BY <2>0, <2>2, <3>1, <3>2, EventHandledStep
  <2>3. CASE RingRead
    <3>1. events' = events
      BY <2>3 DEF RingRead, Probes!Poll
    <3>. QED BY <2>0, <2>3, <3>1, RingReadStep
  <2>4. CASE ~Machine /\ ~EventHandled /\ ~RingRead
    BY <2>0, <2>4, OtherStep
  <2>. QED BY <2>1, <2>2, <2>3, <2>4
<1>5. Negotiated'
  <2>1. \/ UNCHANGED gen
        \/ gen' = [gen EXCEPT ![req] = @ + 1] /\ call = "handshake"
    BY <1>2, GenSteps DEF SystemInv
  <2>2. gen \in [Tuples -> 0 .. MaxGen] /\ \A n \in Probes!Conns : events[n] \in Nat /\ events'[n] \in Nat
    BY <1>4 DEF SystemInv, ProbeInv, FinalInv, TypeInv, TypeOK
  <2>3. call = "handshake" => \E n \in Probes!Conns : FlowOf[n] = req /\ events[n] > 0
    <3>1. call = "handshake" => req = FlowOf[Handled] /\ pos < batch
      BY DEF SystemInv, LoopInv, InGetKey
    <3>2. pos < batch => Handled \in Probes!Conns /\ events[Handled] > 0
      BY HandledFacts DEF SystemInv
    <3>. QED BY <3>1, <3>2
  <2>4. ASSUME NEW t \in Tuples, gen'[t] > 0
        PROVE  \E n \in Probes!Conns : FlowOf[n] = t /\ events'[n] > 0
    <3>1. \E n \in Probes!Conns : FlowOf[n] = t /\ events[n] > 0
      <4>1. CASE gen'[t] = gen[t]
        BY <2>4, <4>1 DEF SystemInv, Negotiated
      <4>2. CASE gen'[t] # gen[t]
        <5>1. t = req /\ call = "handshake"
          BY <2>1, <2>2, <4>2
        <5>. QED BY <2>3, <5>1
      <4>. QED BY <4>1, <4>2
    <3>2. PICK n \in Probes!Conns : FlowOf[n] = t /\ events[n] > 0
      BY <3>1
    <3>3. events'[n] > 0
      BY <1>4, <2>2, <3>2
    <3>. QED BY <3>2, <3>3
  <2>. QED BY <2>4 DEF Negotiated
<1>. QED BY <1>1, <1>3, <1>4, <1>5 DEF SystemInv

LEMMA SystemInvariant == SystemSpec => []SystemInv
BY SystemInitially, SystemSteps, PTL DEF SystemSpec

(* For any number of CPUs, sockets and connections, and whatever TLSHub    *)
(* loses, delays or refuses: every event the probes output is in a ring or *)
(* has been handled once, also while the rings grow under the loop that    *)
(* reads them; the handler asks for the key of the connection it handles;  *)
(* and TLSHub negotiates keys for captured connections only.               *)
THEOREM EventsCorrect == SystemSpec => []EventsAccounted
<1>1. SystemInv => EventsAccounted
  BY DEF SystemInv, LoopInv, Accounted, Negotiated, EventsAccounted
<1>. QED BY <1>1, SystemInvariant, PTL

(* The capture program uses the provider as KeyProvider's caller may: it   *)
(* initialises it in a mode that a configuration file can name, asks for   *)
(* keys of 4-tuples one at a time and cleans up once.  So everything that  *)
(* holds of KeyProvider holds of the provider in the program.              *)
THEOREM ProviderImplemented == SystemSpec => Spec
<1>1. SystemInit => Init
  BY DEF SystemInit
<1>2. SystemInv /\ [SystemNext]_systemVars => [Next]_vars
  BY ProviderProjection DEF SystemInv
<1>. QED BY <1>1, <1>2, SystemInvariant, PTL DEF SystemSpec, Spec

(* In the capture program too, a key that key_provider_get_key returns to  *)
(* handle_tcp_event in TLSHub mode is one of the 4-tuple asked for and not *)
(* older than the call, if TLSHub logs only before its final messages and  *)
(* the receive queue can hold the logs and one answer.                     *)
THEOREM SystemOwnKey ==
  ASSUME ~LateLogs, MaxLogs < RcvBuf
  PROVE  SystemSpec => []OwnKey
BY ProviderImplemented, OwnKeyCorrect, PTL

(* When main has run key_provider_cleanup, whatever failed before it, the  *)
(* netlink socket and the SSL context are released; main never switches    *)
(* the mode.                                                               *)
THEOREM SystemShutdown ==
  ASSUME ~SwitchModes
  PROVE  SystemSpec => [](main = "exited" => ~bound /\ ~netlink_sock /\ ~ssl_ctx)
<1>1. SystemInit => (main = "exited" => phase = "closed" /\ call = "idle")
  BY DEF SystemInit
<1>2. (main = "exited" => phase = "closed" /\ call = "idle") /\ [SystemNext]_systemVars
        => (main = "exited" => phase = "closed" /\ call = "idle")'
  <2>. SUFFICES ASSUME main = "exited" => phase = "closed" /\ call = "idle",
                       [SystemNext]_systemVars, main' = "exited"
                PROVE  phase' = "closed" /\ call' = "idle"
    OBVIOUS
  <2>1. CASE Cleanup
    BY <2>1 DEF Cleanup, key_provider_cleanup
  <2>2. CASE ProviderSteps
    <3>1. phase = "closed" /\ call = "idle"
      BY <2>2 DEF ProviderSteps, Inside
    <3>2. ~ProviderStep
      BY <3>1 DEF ProviderStep, InitReturns, StartHandshake, FetchAgain, GetKeyReturns
    <3>. QED BY <2>2, <3>1, <3>2 DEF ProviderSteps, Inside
  <2>3. CASE sig_handler \/ Machine \/ ServiceSteps \/ UNCHANGED systemVars
    BY <2>3 DEF sig_handler, Machine, ServiceSteps, Inside
  <2>4. MainStep => Cleanup
    BY DEF MainStep, LoadFiles, StartProvider, Attach, LeaveLoop, PollEvents, ReadRing,
           handle_tcp_event, EventHandled, EventReturns, RingRead, PollReturns, Goto
  <2>. QED BY <2>1, <2>2, <2>3, <2>4 DEF SystemNext
<1>3. (main = "exited" => phase = "closed" /\ call = "idle") /\ CleanShutdown
        => (main = "exited" => ~bound /\ ~netlink_sock /\ ~ssl_ctx)
  BY DEF CleanShutdown
<1>. QED BY <1>1, <1>2, <1>3, ProviderImplemented, ShutdownCorrect, PTL DEF SystemSpec
============================================================================
