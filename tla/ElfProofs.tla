----------------------------- MODULE ElfProofs -----------------------------
(***************************************************************************)
(* The safety properties of Elf, for every word size and every set of files*)
(* whose tables are where the loader looks.                                *)
(***************************************************************************)
EXTENDS Elf, WellFoundedInduction, TLAPS

---------------------------------------------------------------------------
(* Arithmetic of addresses.                                                *)

(* Quotient and remainder.                                                 *)
LEMMA Division ==
  ASSUME NEW W \in Nat \ {0}, NEW v \in Int
  PROVE  v = W * (v \div W) + (v % W) /\ v \div W \in Int /\ v % W \in 0 .. W - 1
OBVIOUS

(* The remainder is the one below the divisor.                             *)
LEMMA Remainder ==
  ASSUME NEW W \in Nat \ {0}, NEW q \in Int, NEW r \in 0 .. W - 1, NEW x \in Int,
         x = W * q + r
  PROVE  x % W = r
OBVIOUS

(* Multiples of the divisor do not change it.                              *)
LEMMA Wraps ==
  ASSUME NEW W \in Nat \ {0}, NEW x \in Int, NEW k \in Int
  PROVE  (x + (W * k)) % W = x % W
<1> DEFINE q == x \div W
           r == x % W
<1>1. x = W * q + r /\ q \in Int /\ r \in 0 .. W - 1
  BY Division
<1>2. x % W = r
  OBVIOUS
<1> HIDE DEF q, r
<1>3. x + (W * k) = W * (q + k) + r /\ q + k \in Int /\ x + (W * k) \in Int
  BY <1>1
<1>4. (x + (W * k)) % W = r
  BY <1>1, <1>3, Remainder
<1> QED
  BY <1>2, <1>4

(* Wrapping before an addition makes no difference after it.               *)
LEMMA WrapsOnce ==
  ASSUME NEW W \in Nat \ {0}, NEW a \in Int, NEW b \in Int
  PROVE  ((a % W) + b) % W = (a + b) % W
<1> DEFINE q == a \div W
           r == a % W
<1>1. a = W * q + r /\ q \in Int /\ r \in 0 .. W - 1
  BY Division
<1>2. a % W = r
  OBVIOUS
<1> HIDE DEF q, r
<1>3. a + b = (r + b) + (W * q) /\ r + b \in Int
  BY <1>1
<1>4. ((r + b) + (W * q)) % W = (r + b) % W
  BY <1>1, <1>3, Wraps
<1> QED
  BY <1>2, <1>3, <1>4

(* A word is two halves.                                                   *)
LEMMA WordFacts == Half \in Nat \ {0, 1} /\ Word \in Nat \ {0} /\ Addresses = 0 .. Word - 1
BY ElfAssumption DEF Word, Addresses

(* A sum of addresses is an address.                                       *)
LEMMA AddType ==
  ASSUME NEW m \in Int, NEW n \in Int
  PROVE  Add(m, n) \in Addresses
<1>1. m + n \in Int
  OBVIOUS
<1> QED
  BY <1>1, WordFacts, Division DEF Add

(* Offsets add up.                                                         *)
LEMMA AddAdd ==
  ASSUME NEW m \in Int, NEW n \in Int, NEW k \in Int
  PROVE  Add(Add(m, n), k) = Add(m, n + k)
<1>1. (((m + n) % Word) + k) % Word = ((m + n) + k) % Word
  <2> DEFINE s == m + n
  <2>1. s \in Int
    OBVIOUS
  <2> HIDE DEF s
  <2>2. ((s % Word) + k) % Word = (s + k) % Word
    BY <2>1, WordFacts, WrapsOnce
  <2> QED
    BY <2>2 DEF s
<1>2. (m + n) + k = m + (n + k)
  OBVIOUS
<1> QED
  BY <1>1, <1>2, Zenon DEF Add

---------------------------------------------------------------------------
(* Relocations.                                                            *)
Memory == [Addresses -> 0 .. Half - 1]

(* The words of a value.                                                   *)
LEMMA Halves ==
  ASSUME NEW v \in Addresses
  PROVE  v % Half \in 0 .. Half - 1 /\ v \div Half \in 0 .. Half - 1
<1>1. v \in 0 .. Half * Half - 1
  BY DEF Addresses, Word
<1> QED
  BY <1>1, WordFacts

(* A store keeps words words, and changes two of them at most.             *)
LEMMA StoreFacts ==
  ASSUME NEW words \in Memory, NEW a \in Addresses, NEW v \in Addresses
  PROVE  /\ Store(words, a, v) \in Memory
         /\ \A b \in Addresses : b # a /\ b # Add(a, 1) => Store(words, a, v)[b] = words[b]
<1> DEFINE low == v % Half
           high == v \div Half
           c == Add(a, 1)
<1>1. low \in 0 .. Half - 1 /\ high \in 0 .. Half - 1
  BY Halves
<1>2. Store(words, a, v) = [words EXCEPT ![a] = low, ![c] = high]
  BY DEF Store
<1> HIDE DEF low, high, c
<1>3. [words EXCEPT ![a] = low, ![c] = high] \in Memory
  BY <1>1 DEF Memory
<1>4. \A b \in Addresses : b # a /\ b # c => [words EXCEPT ![a] = low, ![c] = high][b] = words[b]
  BY DEF Memory
<1> QED
  BY <1>2, <1>3, <1>4 DEF c

(* So does a relocation, which may also leave them all alone.              *)
LEMMA RelocFacts ==
  ASSUME NEW words \in Memory, NEW a \in Addresses, NEW v \in Addresses, NEW type
  PROVE  /\ Reloc(words, type, a, v) \in Memory
         /\ \A b \in Addresses : b # a /\ b # Add(a, 1) => Reloc(words, type, a, v)[b] = words[b]
<1>0. a \in Int /\ v \in Int
  BY WordFacts
<1>1. Add(a, 1) \in Addresses /\ a \in Int /\ v \in Int
  BY <1>0, AddType
<1>2. words[a] \in Int /\ words[Add(a, 1)] \in Int
  BY <1>1, WordFacts DEF Memory
<1> DEFINE old == Load(words, a)
<1>3. old \in Int
  <2> DEFINE low == words[a]
             high == words[Add(a, 1)]
  <2>1. old = low + Half * high
    BY DEF Load
  <2>2. low \in Int /\ high \in Int /\ Half \in Int
    BY <1>2, WordFacts
  <2> HIDE DEF old, low, high
  <2> QED
    BY <2>1, <2>2
<1>4. Load(words, a) = old
  OBVIOUS
<1> HIDE DEF old
<1>5. Add(v, old) \in Addresses
  BY <1>1, <1>3, AddType
<1>6. (v + old - a) % Word \in Addresses
  <2>1. v + old - a \in Int
    BY <1>1, <1>3
  <2> QED
    BY <2>1, WordFacts, Division
<1>7. CASE type = "R_X86_64_NONE"
  BY <1>7 DEF Reloc
<1>8. CASE type = "R_X86_64_32"
  <2> DEFINE w == Add(v, old)
  <2>1. Reloc(words, type, a, v) = Store(words, a, w)
    BY <1>4, <1>8 DEF Reloc
  <2>2. w \in Addresses
    BY <1>5
  <2> HIDE DEF w
  <2>3. /\ Store(words, a, w) \in Memory
        /\ \A b \in Addresses : b # a /\ b # Add(a, 1) => Store(words, a, w)[b] = words[b]
    BY <2>2, StoreFacts
  <2> QED
    BY <2>1, <2>3, Zenon
<1>9. CASE type # "R_X86_64_NONE" /\ type # "R_X86_64_32"
  <2> DEFINE w == (v + old - a) % Word
  <2>1. Reloc(words, type, a, v) = Store(words, a, w)
    BY <1>4, <1>9 DEF Reloc
  <2>2. w \in Addresses
    BY <1>6
  <2> HIDE DEF w
  <2>3. /\ Store(words, a, w) \in Memory
        /\ \A b \in Addresses : b # a /\ b # Add(a, 1) => Store(words, a, w)[b] = words[b]
    BY <2>2, StoreFacts
  <2> QED
    BY <2>1, <2>3, Zenon
<1> QED
  BY <1>7, <1>8, <1>9

LoadState == [words : Memory, result : {"ok", "error"}]
JobRecord == [type : STRING, place : Addresses, found : BOOLEAN, value : Addresses]

(* The switch of elf_do_reloc computes what the types ask for.             *)
LEMMA PatchedIsReloc ==
  ASSUME NEW words \in Memory, NEW job \in JobRecord
  PROVE  Patched(words, job) = Reloc(words, job.type, job.place, job.value)
<1> DEFINE a == job.place
           v == job.value
           old == words[a] + Half * words[Add(a, 1)]
<1>1. a \in Addresses /\ v \in Addresses
  BY DEF JobRecord
<1>2. a \in Int /\ v \in Int /\ Half \in Int
  BY <1>1, WordFacts
<1>3. old \in Int
  <2> DEFINE low == words[a]
             high == words[Add(a, 1)]
  <2>1. Add(a, 1) \in Addresses
    BY <1>2, AddType
  <2>2. low \in Int /\ high \in Int
    BY <1>1, <2>1, WordFacts DEF Memory
  <2>3. old = low + Half * high
    OBVIOUS
  <2> HIDE DEF old, low, high
  <2> QED
    BY <1>2, <2>2, <2>3
<1>4. Load(words, a) = old
  BY DEF Load
<1>5. CASE job.type = "R_X86_64_NONE"
  BY <1>5 DEF Patched, Reloc
<1>6. CASE job.type = "R_X86_64_32"
  <2> DEFINE w == (v + old - 0) % Word
             u == Add(v, old)
  <2>1. Patched(words, job) = Store(words, a, w)
    BY <1>6 DEF Patched, Store
  <2>2. Reloc(words, job.type, a, v) = Store(words, a, u)
    BY <1>4, <1>6 DEF Reloc
  <2>3. w = u
    <3>1. v + old - 0 = v + old
      <4> HIDE DEF v, old
      <4> QED
        BY <1>2, <1>3
    <3> QED
      BY <3>1, Zenon DEF Add
  <2> HIDE DEF w, u
  <2> QED
    BY <2>1, <2>2, <2>3, Zenon
<1>7. CASE job.type # "R_X86_64_NONE" /\ job.type # "R_X86_64_32"
  <2> DEFINE w == (v + old - a) % Word
  <2>1. Patched(words, job) = Store(words, a, w)
    BY <1>7 DEF Patched, Store
  <2>2. Reloc(words, job.type, a, v) = Store(words, a, w)
    BY <1>4, <1>7 DEF Reloc
  <2> QED
    BY <2>1, <2>2, Zenon
<1> QED
  BY <1>5, <1>6, <1>7

(* One relocation of a list leads from a state to a state.                 *)
LEMMA ApplyType ==
  ASSUME NEW done \in LoadState, NEW job \in JobRecord
  PROVE  Apply(done, job) \in LoadState
<1>1. done.words \in Memory /\ job.place \in Addresses /\ job.value \in Addresses
  BY DEF LoadState, JobRecord
<1>2. Reloc(done.words, job.type, job.place, job.value) \in Memory
  BY <1>1, RelocFacts
<1>3. Patched(done.words, job) \in Memory
  BY <1>1, <1>2, PatchedIsReloc
<1> QED
  BY <1>1, <1>3 DEF Apply, LoadState

---------------------------------------------------------------------------
(* Lists of relocations, by induction on their length.                     *)

(* A set of numbers with 0 and the successor of each is all of them: its   *)
(* complement would have a least element.                                  *)
LEMMA Induction ==
  ASSUME NEW T, 0 \in T, \A n \in Nat : n \in T => n + 1 \in T
  PROVE  Nat \subseteq T
<1> DEFINE R == OpToRel(<, Nat)
           U == Nat \ T
<1> SUFFICES ASSUME U # {} PROVE FALSE
  OBVIOUS
<1>1. \A x, y \in Nat : y < x => <<y, x>> \in R
  BY DEF OpToRel
<1>2. IsWellFoundedOn(R, Nat)
  BY NatLessThanWellFounded
<1>3. U \subseteq Nat
  OBVIOUS
<1> HIDE DEF R, U
<1>4. PICK x \in U : \A y \in U : ~ (<<y, x>> \in R)
  BY <1>2, <1>3, WFMin
<1>5. x \in Nat /\ x # 0 /\ x - 1 \in Nat /\ x - 1 < x
  BY <1>3, <1>4 DEF U
<1>6. x - 1 \in T
  BY <1>1, <1>4, <1>5 DEF U
<1> QED
  BY <1>4, <1>5, <1>6 DEF U

(* A function may be defined from 0 upwards.                               *)
Iterates(f, S, a, G) ==
  f \in [Nat -> S] /\ f[0] = a /\ \A n \in Nat : f[n + 1] = G[<<n, f[n]>>]

(* Such a function exists: the finite ones agree where they are defined.   *)
LEMMA Recursion ==
  ASSUME NEW S, NEW a \in S, NEW G \in [Nat \X S -> S]
  PROVE  \E f : Iterates(f, S, a, G)
<1> DEFINE Upto(f, n) == f[0] = a /\ \A k \in 0 .. n - 1 : f[k + 1] = G[<<k, f[k]>>]
           T == {n \in Nat : \E f \in [0 .. n -> S] : Upto(f, n)}
<1>1. 0 \in T
  <2> DEFINE f == [k \in 0 .. 0 |-> a]
  <2>1. f \in [0 .. 0 -> S] /\ Upto(f, 0)
    OBVIOUS
  <2> QED
    BY <2>1
<1>2. ASSUME NEW n \in Nat, n \in T PROVE n + 1 \in T
  <2>1. PICK f \in [0 .. n -> S] : Upto(f, n)
    BY <1>2
  <2> DEFINE g == [k \in 0 .. n + 1 |-> IF k = n + 1 THEN G[<<n, f[n]>>] ELSE f[k]]
  <2>2. f[n] \in S /\ G[<<n, f[n]>>] \in S
    BY <2>1
  <2>3. g \in [0 .. n + 1 -> S]
    BY <2>1, <2>2
  <2>4. g[0] = a
    BY <2>1
  <2>5. ASSUME NEW k \in 0 .. (n + 1) - 1 PROVE g[k + 1] = G[<<k, g[k]>>]
    <3>1. k \in 0 .. n /\ k + 1 \in 0 .. n + 1 /\ k \in 0 .. n + 1 /\ k # n + 1
      OBVIOUS
    <3>2. g[k] = f[k]
      BY <3>1
    <3>3. CASE k = n
      BY <3>1, <3>2, <3>3
    <3>4. CASE k # n
      <4>1. k \in 0 .. n - 1 /\ k + 1 # n + 1
        BY <3>4
      <4>2. g[k + 1] = f[k + 1]
        BY <3>1, <4>1
      <4> QED
        BY <4>1, <4>2, <3>2, <2>1
    <3> QED
      BY <3>3, <3>4
  <2>6. Upto(g, n + 1)
    BY <2>4, <2>5
  <2> HIDE DEF g
  <2> QED
    BY <2>3, <2>6
<1>3. \A n \in Nat : n \in T
  <2> HIDE DEF T
  <2> QED
    BY <1>1, <1>2, Induction
<1> DEFINE F == [n \in Nat |-> CHOOSE f \in [0 .. n -> S] : Upto(f, n)]
           h == [n \in Nat |-> F[n][n]]
<1>4. ASSUME NEW n \in Nat PROVE F[n] \in [0 .. n -> S] /\ Upto(F[n], n)
  BY <1>3
<1> HIDE DEF F
<1>5. ASSUME NEW n \in Nat PROVE \A k \in Nat : k <= n => F[n][k] = F[n + 1][k]
  <2>1. n + 1 \in Nat
    OBVIOUS
  <2>2. Upto(F[n], n) /\ Upto(F[n + 1], n + 1)
    BY <1>4, <2>1
  <2> DEFINE V == {k \in Nat : k <= n => F[n][k] = F[n + 1][k]}
  <2>3. 0 \in V
    BY <2>2
  <2>4. ASSUME NEW k \in Nat, k \in V PROVE k + 1 \in V
    <3> SUFFICES ASSUME k + 1 <= n PROVE F[n][k + 1] = F[n + 1][k + 1]
      OBVIOUS
    <3>1. F[n][k] = F[n + 1][k]
      BY <2>4
    <3>2. k \in 0 .. n - 1 /\ k \in 0 .. (n + 1) - 1
      OBVIOUS
    <3>3. F[n][k + 1] = G[<<k, F[n][k]>>]
      BY <2>2, <3>2
    <3>4. F[n + 1][k + 1] = G[<<k, F[n + 1][k]>>]
      BY <2>2, <3>2
    <3> QED
      BY <3>1, <3>3, <3>4
  <2>5. Nat \subseteq V
    <3> HIDE DEF V
    <3> QED
      BY <2>3, <2>4, Induction
  <2> QED
    BY <2>5
<1>6. h \in [Nat -> S]
  <2>1. ASSUME NEW n \in Nat PROVE F[n][n] \in S
    <3>1. F[n] \in [0 .. n -> S] /\ n \in 0 .. n
      BY <1>4
    <3> QED
      BY <3>1
  <2> QED
    BY <2>1
<1>7. h[0] = a
  <2>1. Upto(F[0], 0)
    BY <1>4
  <2> QED
    BY <2>1
<1>8. ASSUME NEW n \in Nat PROVE h[n + 1] = G[<<n, h[n]>>]
  <2>1. n + 1 \in Nat /\ n \in 0 .. (n + 1) - 1
    OBVIOUS
  <2>2. Upto(F[n + 1], n + 1)
    BY <1>4, <2>1
  <2>3. F[n + 1][n + 1] = G[<<n, F[n + 1][n]>>]
    BY <2>1, <2>2
  <2>4. F[n + 1][n] = F[n][n]
    BY <1>5
  <2> QED
    BY <2>1, <2>3, <2>4
<1> HIDE DEF h
<1> QED
  BY <1>6, <1>7, <1>8 DEF Iterates

(* ... and so along a list.                                                *)
Folds(f, S, a, N, G) ==
  f \in [0 .. N -> S] /\ f = [k \in 0 .. N |-> IF k = 0 THEN a ELSE G[k][f[k - 1]]]

(* It exists too: beyond the end of the list it may stay as it is.         *)
LEMMA Fold ==
  ASSUME NEW S, NEW a \in S, NEW N \in Nat, NEW G \in [1 .. N -> [S -> S]]
  PROVE  \E f : Folds(f, S, a, N, G)
<1> DEFINE H == [p \in Nat \X S |-> IF p[1] + 1 \in 1 .. N THEN G[p[1] + 1][p[2]] ELSE p[2]]
<1>1. H \in [Nat \X S -> S]
  OBVIOUS
<1>2. \A k \in Nat, v \in S : k + 1 \in 1 .. N => H[<<k, v>>] = G[k + 1][v]
  OBVIOUS
<1> HIDE DEF H
<1>0. PICK h : Iterates(h, S, a, H)
  BY <1>1, Recursion
<1>3. h \in [Nat -> S] /\ h[0] = a /\ \A n \in Nat : h[n + 1] = H[<<n, h[n]>>]
  BY <1>0 DEF Iterates
<1> DEFINE f == [k \in 0 .. N |-> h[k]]
<1>4. f \in [0 .. N -> S]
  BY <1>3
<1>5. ASSUME NEW k \in 0 .. N
      PROVE  f[k] = IF k = 0 THEN a ELSE G[k][f[k - 1]]
  <2>1. CASE k = 0
    BY <1>3, <2>1
  <2>2. CASE k # 0
    <3>1. k - 1 \in Nat /\ k - 1 \in 0 .. N /\ (k - 1) + 1 = k /\ k \in 1 .. N
      BY <2>2
    <3>2. f[k] = h[k] /\ f[k - 1] = h[k - 1] /\ h[k - 1] \in S
      BY <3>1, <1>3
    <3>3. h[k] = H[<<k - 1, h[k - 1]>>]
      BY <3>1, <1>3
    <3>4. H[<<k - 1, h[k - 1]>>] = G[k][h[k - 1]]
      BY <3>1, <3>2, <1>2
    <3> QED
      BY <2>2, <3>2, <3>3, <3>4
  <2> QED
    BY <2>1, <2>2
<1> HIDE DEF f
<1>6. f = [k \in 0 .. N |-> f[k]]
  BY <1>4
<1>7. f = [k \in 0 .. N |-> IF k = 0 THEN a ELSE G[k][f[k - 1]]]
  BY <1>5, <1>6
<1> QED
  BY <1>4, <1>7 DEF Folds

(* A value that every step keeps is kept to the end.                       *)
LEMMA Sticks ==
  ASSUME NEW f, NEW N \in Nat, NEW k \in 0 .. N,
         \A m \in k + 1 .. N : f[m - 1] = f[k] => f[m] = f[k]
  PROVE  f[N] = f[k]
<1> DEFINE T == {n \in Nat : k + n <= N => f[k + n] = f[k]}
<1>1. 0 \in T
  OBVIOUS
<1>2. ASSUME NEW n \in Nat, n \in T PROVE n + 1 \in T
  <2> SUFFICES ASSUME k + (n + 1) <= N PROVE f[k + (n + 1)] = f[k]
    OBVIOUS
  <2>1. f[k + n] = f[k]
    BY <1>2
  <2>2. k + (n + 1) \in k + 1 .. N /\ (k + (n + 1)) - 1 = k + n
    OBVIOUS
  <2> QED
    BY <2>1, <2>2
<1>3. Nat \subseteq T
  <2> HIDE DEF T
  <2> QED
    BY <1>1, <1>2, Induction
<1>4. N - k \in T /\ k + (N - k) = N
  BY <1>3
<1> QED
  BY <1>4

(* What the first value is and every step keeps, every value is.           *)
LEMMA Keeps ==
  ASSUME NEW S, NEW N \in Nat, NEW f, f[0] \in S,
         \A k \in 1 .. N : f[k - 1] \in S => f[k] \in S
  PROVE  \A k \in 0 .. N : f[k] \in S
<1> DEFINE T == {m \in Nat : m <= N => f[m] \in S}
<1>1. 0 \in T
  OBVIOUS
<1>2. ASSUME NEW m \in Nat, m \in T PROVE m + 1 \in T
  <2> SUFFICES ASSUME m + 1 <= N PROVE f[m + 1] \in S
    OBVIOUS
  <2>1. m + 1 \in 1 .. N /\ (m + 1) - 1 = m /\ f[m] \in S
    BY <1>2
  <2> QED
    BY <2>1
<1>3. Nat \subseteq T
  <2> HIDE DEF T
  <2> QED
    BY <1>1, <1>2, Induction
<1> QED
  BY <1>3

(* The states a list leads through, each from the one before it.           *)
LEMMA RowFacts ==
  ASSUME NEW jobs \in Seq(JobRecord), NEW start \in LoadState
  PROVE  /\ Row(jobs, start) \in [0 .. Len(jobs) -> LoadState]
         /\ Row(jobs, start)[0] = start
         /\ \A k \in 1 .. Len(jobs) : Row(jobs, start)[k] = Apply(Row(jobs, start)[k - 1], jobs[k])
<1> DEFINE N == Len(jobs)
           G == [k \in 1 .. N |-> [v \in LoadState |-> Apply(v, jobs[k])]]
           Is(f) == f = [k \in 0 .. N |-> IF k = 0 THEN start ELSE Apply(f[k - 1], jobs[k])]
           row == Row(jobs, start)
<1>1. N \in Nat /\ \A k \in 1 .. N : jobs[k] \in JobRecord
  OBVIOUS
<1>2. G \in [1 .. N -> [LoadState -> LoadState]]
  BY <1>1, ApplyType
<1>3. PICK f : Folds(f, LoadState, start, N, G)
  <2> HIDE DEF G, N
  <2> QED
    BY <1>1, <1>2, Fold
<1>4. f \in [0 .. N -> LoadState] /\ f = [k \in 0 .. N |-> IF k = 0 THEN start ELSE G[k][f[k - 1]]]
  <2> HIDE DEF G, N
  <2> QED
    BY <1>3 DEF Folds
<1>5. Is(f)
  <2>1. ASSUME NEW k \in 0 .. N
        PROVE  f[k] = IF k = 0 THEN start ELSE Apply(f[k - 1], jobs[k])
    <3>1. f[k] = IF k = 0 THEN start ELSE G[k][f[k - 1]]
      BY <1>4
    <3>2. CASE k = 0
      BY <3>1, <3>2
    <3>3. CASE k # 0
      <4>1. k \in 1 .. N /\ k - 1 \in 0 .. N
        BY <1>1, <3>3
      <4>2. f[k - 1] \in LoadState
        BY <1>4, <4>1
      <4>3. G[k][f[k - 1]] = Apply(f[k - 1], jobs[k])
        BY <4>1, <4>2
      <4> QED
        BY <3>1, <3>3, <4>3
    <3> QED
      BY <3>2, <3>3
  <2>2. f = [k \in 0 .. N |-> f[k]]
    BY <1>4
  <2> HIDE DEF N, G
  <2> QED
    BY <2>1, <2>2
<1>6. row = CHOOSE g : Is(g)
  BY Zenon DEF Row
<1>7. Is(row)
  <2> HIDE DEF row, Is
  <2> QED
    BY <1>5, <1>6
<1>8. row[0] = start /\ \A k \in 1 .. N : row[k] = Apply(row[k - 1], jobs[k])
  <2> HIDE DEF row
  <2> QED
    BY <1>1, <1>7
<1>9. \A k \in 0 .. N : row[k] \in LoadState
  <2>1. \A k \in 1 .. N : row[k - 1] \in LoadState => row[k] \in LoadState
    BY <1>1, <1>8, ApplyType
  <2> HIDE DEF row, N
  <2> QED
    BY <1>1, <1>8, <2>1, Keeps
<1>10. row \in [0 .. N -> LoadState]
  <2>1. row = [k \in 0 .. N |-> row[k]]
    <3> HIDE DEF row
    <3> QED
      BY <1>7
  <2> HIDE DEF row, N
  <2> QED
    BY <1>9, <2>1
<1> QED
  BY <1>8, <1>10

(* Once a relocation has failed the others do nothing.                     *)
LEMMA RowSticks ==
  ASSUME NEW jobs \in Seq(JobRecord), NEW start \in LoadState, NEW k \in 0 .. Len(jobs),
         Row(jobs, start)[k].result = "error"
  PROVE  Row(jobs, start)[Len(jobs)] = Row(jobs, start)[k]
<1> DEFINE N == Len(jobs)
           row == Row(jobs, start)
<1>1. \A m \in 1 .. N : row[m] = Apply(row[m - 1], jobs[m])
  BY RowFacts
<1>2. N \in Nat /\ k \in 0 .. N /\ row[k].result = "error"
  OBVIOUS
<1> HIDE DEF row, N
<1>3. ASSUME NEW m \in k + 1 .. N, row[m - 1] = row[k] PROVE row[m] = row[k]
  <2>1. row[m] = Apply(row[m - 1], jobs[m])
    BY <1>1, <1>2
  <2> QED
    BY <1>2, <1>3, <2>1 DEF Apply
<1>4. row[N] = row[k]
  BY <1>2, <1>3, Sticks
<1> QED
  BY <1>4 DEF row, N

(* The states at the ends of the lists.                                    *)
LEMMA ThroughFacts ==
  ASSUME NEW lists \in Seq(Seq(JobRecord)), NEW start \in LoadState
  PROVE  /\ Through(lists, start) \in [0 .. Len(lists) -> LoadState]
         /\ Through(lists, start)[0] = start
         /\ \A n \in 1 .. Len(lists) :
              Through(lists, start)[n] =
                Row(lists[n], Through(lists, start)[n - 1])[Len(lists[n])]
<1> DEFINE N == Len(lists)
           After(n, v) == Row(lists[n], v)[Len(lists[n])]
           G == [n \in 1 .. N |-> [v \in LoadState |-> After(n, v)]]
           Is(f) == f = [n \in 0 .. N |-> IF n = 0 THEN start ELSE After(n, f[n - 1])]
           through == Through(lists, start)
<1>1. N \in Nat /\ \A n \in 1 .. N : lists[n] \in Seq(JobRecord)
  OBVIOUS
<1>2. ASSUME NEW n \in 1 .. N, NEW v \in LoadState
      PROVE  After(n, v) \in LoadState
  <2>1. Row(lists[n], v) \in [0 .. Len(lists[n]) -> LoadState]
    BY <1>1, RowFacts
  <2>2. Len(lists[n]) \in 0 .. Len(lists[n])
    BY <1>1
  <2> QED
    BY <2>1, <2>2
<1>3. G \in [1 .. N -> [LoadState -> LoadState]]
  <2> HIDE DEF After, N
  <2> QED
    BY <1>2
<1>4. PICK f : Folds(f, LoadState, start, N, G)
  <2> HIDE DEF G, N
  <2> QED
    BY <1>1, <1>3, Fold
<1>5. f \in [0 .. N -> LoadState] /\ f = [n \in 0 .. N |-> IF n = 0 THEN start ELSE G[n][f[n - 1]]]
  <2> HIDE DEF G, N
  <2> QED
    BY <1>4 DEF Folds
<1>6. Is(f)
  <2> HIDE DEF After
  <2>1. ASSUME NEW n \in 0 .. N
        PROVE  f[n] = IF n = 0 THEN start ELSE After(n, f[n - 1])
    <3>1. f[n] = IF n = 0 THEN start ELSE G[n][f[n - 1]]
      BY <1>5
    <3>2. CASE n = 0
      BY <3>1, <3>2
    <3>3. CASE n # 0
      <4>1. n \in 1 .. N /\ n - 1 \in 0 .. N
        BY <1>1, <3>3
      <4>2. f[n - 1] \in LoadState
        BY <1>5, <4>1
      <4>3. G[n][f[n - 1]] = After(n, f[n - 1])
        BY <4>1, <4>2
      <4> QED
        BY <3>1, <3>3, <4>3
    <3> QED
      BY <3>2, <3>3
  <2>2. f = [n \in 0 .. N |-> f[n]]
    BY <1>5
  <2> HIDE DEF N, G
  <2> QED
    BY <2>1, <2>2
<1>7. through = CHOOSE g : Is(g)
  BY Zenon DEF Through
<1>8. Is(through)
  <2> HIDE DEF through, Is
  <2> QED
    BY <1>6, <1>7
<1>9. through[0] = start /\ \A n \in 1 .. N : through[n] = After(n, through[n - 1])
  <2> HIDE DEF through, After, N
  <2>1. \A n \in 0 .. N : through[n] = IF n = 0 THEN start ELSE After(n, through[n - 1])
    BY <1>8
  <2>2. 0 \in 0 .. N /\ \A n \in 1 .. N : n \in 0 .. N /\ n # 0
    BY <1>1
  <2> QED
    BY <2>1, <2>2
<1>10. \A n \in 0 .. N : through[n] \in LoadState
  <2>1. \A n \in 1 .. N : through[n - 1] \in LoadState => through[n] \in LoadState
    <3> HIDE DEF through, After, N
    <3> QED
      BY <1>2, <1>9
  <2> HIDE DEF through, N
  <2> QED
    BY <1>1, <1>9, <2>1, Keeps
<1>11. through \in [0 .. N -> LoadState]
  <2>1. through = [n \in 0 .. N |-> through[n]]
    <3> HIDE DEF through, After
    <3> QED
      BY <1>8
  <2> HIDE DEF through, N
  <2> QED
    BY <1>10, <2>1
<1> QED
  BY <1>9, <1>11

(* ... and neither do those of the lists behind.                           *)
LEMMA ThroughSticks ==
  ASSUME NEW lists \in Seq(Seq(JobRecord)), NEW start \in LoadState, NEW n \in 0 .. Len(lists),
         Through(lists, start)[n].result = "error"
  PROVE  Through(lists, start)[Len(lists)] = Through(lists, start)[n]
<1> DEFINE N == Len(lists)
           through == Through(lists, start)
<1>1. through \in [0 .. N -> LoadState]
  BY ThroughFacts
<1>2. \A m \in 1 .. N : through[m] = Row(lists[m], through[m - 1])[Len(lists[m])]
  BY ThroughFacts
<1>3. N \in Nat /\ n \in 0 .. N /\ through[n].result = "error" /\ \A m \in 1 .. N : lists[m] \in Seq(JobRecord)
  OBVIOUS
<1> HIDE DEF through, N
<1>4. ASSUME NEW m \in n + 1 .. N, through[m - 1] = through[n] PROVE through[m] = through[n]
  <2> DEFINE v == through[n]
             jobs == lists[m]
  <2>1. m \in 1 .. N /\ through[m] = Row(jobs, v)[Len(jobs)]
    BY <1>2, <1>3, <1>4
  <2>2. v \in LoadState /\ v.result = "error" /\ jobs \in Seq(JobRecord)
    BY <1>1, <1>3, <2>1
  <2> HIDE DEF v, jobs
  <2>3. Row(jobs, v)[0] = v /\ 0 \in 0 .. Len(jobs)
    BY <2>2, RowFacts
  <2>4. Row(jobs, v)[Len(jobs)] = v
    BY <2>2, <2>3, RowSticks
  <2> QED
    BY <2>1, <2>4 DEF v
<1>5. through[N] = through[n]
  BY <1>3, <1>4, Sticks
<1> QED
  BY <1>5 DEF through, N

---------------------------------------------------------------------------
(* Where stage 2 stands.                                                   *)

(* The state after the lists before position n and k relocations of its    *)
(* list.                                                                   *)
PositionOf(lists, start, n, k) ==
  IF n < Len(lists) THEN Row(lists[n + 1], Through(lists, start)[n])[k]
  ELSE Through(lists, start)[Len(lists)]

(* It starts at the start.                                                 *)
LEMMA PositionStarts ==
  ASSUME NEW lists \in Seq(Seq(JobRecord)), NEW start \in LoadState
  PROVE  PositionOf(lists, start, 0, 0) = start
<1>1. Through(lists, start)[0] = start
  BY ThroughFacts
<1>2. CASE 0 < Len(lists)
  <2>1. lists[1] \in Seq(JobRecord) /\ 0 + 1 = 1
    BY <1>2
  <2>2. Row(lists[1], start)[0] = start
    BY <2>1, RowFacts
  <2> QED
    BY <1>1, <1>2, <2>1, <2>2 DEF PositionOf
<1>3. CASE ~ (0 < Len(lists))
  <2>1. Len(lists) = 0
    BY <1>3
  <2> QED
    BY <1>1, <1>3, <2>1 DEF PositionOf
<1> QED
  BY <1>2, <1>3

(* The end of a list is the start of the next, or of nothing.              *)
LEMMA PositionTurns ==
  ASSUME NEW lists \in Seq(Seq(JobRecord)), NEW start \in LoadState,
         NEW n \in 0 .. Len(lists) - 1
  PROVE  PositionOf(lists, start, n + 1, 0) = PositionOf(lists, start, n, Len(lists[n + 1]))
<1> DEFINE through == Through(lists, start)
           here == through[n + 1]
<1>1. /\ n + 1 \in 1 .. Len(lists) /\ (n + 1) - 1 = n /\ n < Len(lists)
      /\ n + 1 \in 0 .. Len(lists)
  OBVIOUS
<1>2. here = Row(lists[n + 1], through[n])[Len(lists[n + 1])]
  BY <1>1, ThroughFacts
<1>3. PositionOf(lists, start, n, Len(lists[n + 1])) = here
  BY <1>1, <1>2 DEF PositionOf
<1>4. here \in LoadState
  <2>1. through \in [0 .. Len(lists) -> LoadState]
    BY ThroughFacts
  <2> QED
    BY <1>1, <2>1
<1>5. CASE n + 1 < Len(lists)
  <2>1. lists[(n + 1) + 1] \in Seq(JobRecord)
    BY <1>5
  <2> HIDE DEF here
  <2>2. Row(lists[(n + 1) + 1], here)[0] = here
    BY <1>4, <2>1, RowFacts
  <2> QED
    BY <1>3, <1>5, <2>2 DEF PositionOf, here
<1>6. CASE ~ (n + 1 < Len(lists))
  <2>1. n + 1 = Len(lists)
    BY <1>1, <1>6
  <2> QED
    BY <1>3, <1>6, <2>1 DEF PositionOf
<1> QED
  BY <1>5, <1>6

(* Within a list a position follows from the one before it.                *)
LEMMA PositionSteps ==
  ASSUME NEW lists \in Seq(Seq(JobRecord)), NEW start \in LoadState,
         NEW n \in 0 .. Len(lists) - 1, NEW k \in 0 .. Len(lists[n + 1]) - 1
  PROVE  PositionOf(lists, start, n, k + 1) = Apply(PositionOf(lists, start, n, k), lists[n + 1][k + 1])
<1> DEFINE jobs == lists[n + 1]
           v == Through(lists, start)[n]
<1>1. n < Len(lists) /\ n \in 0 .. Len(lists) /\ jobs \in Seq(JobRecord)
  OBVIOUS
<1>2. v \in LoadState
  <2>1. Through(lists, start) \in [0 .. Len(lists) -> LoadState]
    BY ThroughFacts
  <2> QED
    BY <1>1, <2>1
<1>3. k + 1 \in 1 .. Len(jobs) /\ (k + 1) - 1 = k
  BY <1>1
<1>4. PositionOf(lists, start, n, k) = Row(jobs, v)[k] /\ PositionOf(lists, start, n, k + 1) = Row(jobs, v)[k + 1]
  BY <1>1 DEF PositionOf
<1> HIDE DEF jobs, v
<1>5. Row(jobs, v)[k + 1] = Apply(Row(jobs, v)[k], jobs[k + 1])
  BY <1>1, <1>2, <1>3, RowFacts
<1> QED
  BY <1>4, <1>5 DEF jobs

(* From a position where a relocation has failed nothing changes.          *)
LEMMA PositionSticks ==
  ASSUME NEW lists \in Seq(Seq(JobRecord)), NEW start \in LoadState,
         NEW n \in 0 .. Len(lists) - 1, NEW k \in 0 .. Len(lists[n + 1]),
         PositionOf(lists, start, n, k).result = "error"
  PROVE  Through(lists, start)[Len(lists)] = PositionOf(lists, start, n, k)
<1> DEFINE jobs == lists[n + 1]
           through == Through(lists, start)
           v == through[n]
           end == Row(jobs, v)[k]
<1>1. /\ n < Len(lists) /\ n \in 0 .. Len(lists) /\ jobs \in Seq(JobRecord)
      /\ n + 1 \in 1 .. Len(lists) /\ n + 1 \in 0 .. Len(lists) /\ (n + 1) - 1 = n
  OBVIOUS
<1>2. v \in LoadState
  <2>1. through \in [0 .. Len(lists) -> LoadState]
    BY ThroughFacts
  <2> QED
    BY <1>1, <2>1
<1>3. PositionOf(lists, start, n, k) = end /\ end.result = "error"
  BY <1>1 DEF PositionOf
<1>4. Row(jobs, v)[Len(jobs)] = end
  <2>1. Row(jobs, v)[k].result = "error" /\ k \in 0 .. Len(jobs)
    BY <1>3
  <2> HIDE DEF jobs, v
  <2> QED
    BY <1>1, <1>2, <2>1, RowSticks
<1>5. through[n + 1] = Row(jobs, v)[Len(jobs)]
  <2>1. through[n + 1] = Row(lists[n + 1], through[(n + 1) - 1])[Len(lists[n + 1])]
    BY <1>1, ThroughFacts
  <2> QED
    BY <1>1, <2>1
<1>6. Through(lists, start)[n + 1] = end /\ Through(lists, start)[n + 1].result = "error"
  BY <1>3, <1>4, <1>5
<1>7. Through(lists, start)[Len(lists)] = Through(lists, start)[n + 1]
  <2> HIDE DEF jobs, v, end, through
  <2> QED
    BY <1>1, <1>6, ThroughSticks
<1> QED
  BY <1>3, <1>6, <1>7

---------------------------------------------------------------------------
(* The tables of a file.                                                   *)

(* A section header is one, and its section has an address.                *)
LEMMA SectionFacts ==
  ASSUME file \in Files, NEW n \in 0 .. Len(file.sections) - 1
  PROVE  /\ Section(n) \in SectionHeader
         /\ Section(n).sh_size \in Nat /\ Section(n).sh_entsize \in Nat
         /\ SectionAddress(Section(n)) \in Addresses
<1>1. file.sections \in Seq(SectionHeader) /\ n + 1 \in 1 .. Len(file.sections)
  BY FilesAssumption
<1>2. Section(n) \in SectionHeader
  BY <1>1 DEF Section
<1>3. Section(n).sh_offset \in Int /\ Hdr \in Int
  <2>1. Section(n).sh_offset \in Addresses
    BY <1>2 DEF SectionHeader
  <2> QED
    BY <2>1, WordFacts, ElfAssumption
<1>4. SectionAddress(Section(n)) \in Addresses
  BY <1>3, AddType DEF SectionAddress
<1> QED
  BY <1>2, <1>4 DEF SectionHeader

(* A section holds a number of relocations.                                *)
LEMMA CountFacts ==
  ASSUME file \in Files, NEW n \in 0 .. Len(file.sections) - 1
  PROVE  Count(n) \in Nat
<1>1. Section(n).sh_size \in Nat /\ Section(n).sh_entsize \in Nat
  BY SectionFacts
<1> QED
  BY <1>1 DEF Count, Entries

(* What the file promises of a relocation.                                 *)
LEMMA RelocatableFacts ==
  ASSUME file \in Files, NEW n \in 0 .. Len(file.sections) - 1, NEW k \in 1 .. Count(n)
  PROVE  /\ Section(n).sh_info \in 0 .. Len(file.sections) - 1
         /\ Relocatable(file, Section(n), file.relocs[n][k], Section(Section(n).sh_info))
<1> DEFINE s == Section(n)
<1>1. s.sh_type = "SHT_REL" /\ s.sh_entsize # 0 /\ k \in 1 .. Entries(s)
  BY DEF Count
<1>2. /\ n + 1 \in 1 .. Len(file.sections) /\ (n + 1) - 1 = n
      /\ file.sections[n + 1] = s
  BY FilesAssumption DEF Section
<1>3. \A m \in 1 .. Len(file.sections) :
        LET section == file.sections[m]
        IN  section.sh_type = "SHT_REL" /\ section.sh_entsize # 0 =>
              \A j \in 1 .. Entries(section) :
                /\ section.sh_info \in 0 .. Len(file.sections) - 1
                /\ Relocatable(file, section, file.relocs[m - 1][j],
                               file.sections[section.sh_info + 1])
  BY FilesAssumption, Zenon
<1> HIDE DEF s
<1>4. /\ s.sh_info \in 0 .. Len(file.sections) - 1
      /\ Relocatable(file, s, file.relocs[(n + 1) - 1][k], file.sections[s.sh_info + 1])
  BY <1>1, <1>2, <1>3, Zenon
<1> QED
  BY <1>2, <1>4, Zenon DEF s, Section

(* elf_get_symval gives an error for a symbol that is not found; for one   *)
(* that is, it gives the value it should, if the symbol is an ordinary one.*)
AgreesOn(section, rel) ==
  LET symval == Symval(section.sh_link, rel.symbol)
  IN  IF ~ Names(section, rel) THEN symval = 0
      ELSE IF Listed(rel.symbol)
        THEN file.symbols[rel.symbol].st_shndx # SHN_UNDEF =>
               symval = Value(file.symbols[rel.symbol])
      ELSE symval = ELF_RELOC_ERR

(* elf_get_symval agrees with the value a symbol should have, whenever it  *)
(* does not divide by zero.                                                *)
LEMMA SymvalFacts ==
  ASSUME file \in Files, NEW n \in 0 .. Len(file.sections) - 1, NEW k \in 1 .. Count(n),
         Divides(Section(n).sh_link, file.relocs[n][k].symbol)
  PROVE  AgreesOn(Section(n), file.relocs[n][k])
<1> DEFINE rel == file.relocs[n][k]
           number == rel.symbol
           link == Section(n).sh_link
           symbol == file.symbols[number]
           s == Section(number)
<1>1. number \in 0 .. Len(file.sections) - 1 /\ Len(file.sections) \in Nat
  <2>1. number \in 0 .. Len(file.sections) - 1
    BY RelocatableFacts DEF Relocatable
  <2>2. Len(file.sections) \in Nat
    BY FilesAssumption
  <2> QED
    BY <2>1, <2>2
<1>2. s.sh_size \in Nat /\ s.sh_entsize \in Nat
  BY <1>1, SectionFacts
<1>3. CASE ~ Names(Section(n), rel)
  <2>1. link = SHN_UNDEF \/ number = SHN_UNDEF
    BY <1>3 DEF Names
  <2>2. Symval(link, number) = 0
    BY <2>1, Zenon DEF Symval
  <2> QED
    BY <1>3, <2>2, Zenon DEF AgreesOn
<1>4. CASE Names(Section(n), rel)
  <2>1. link # SHN_UNDEF /\ number # SHN_UNDEF
    BY <1>4 DEF Names
  <2>2. s.sh_entsize # 0
    BY <2>1 DEF Divides
  <2>3. Entries(s) \in Nat /\ number \in Nat
    <3> DEFINE size    == s.sh_size
               entsize == s.sh_entsize
    <3>1. Entries(s) = size \div entsize
      BY DEF Entries
    <3>2. size \in Nat /\ entsize \in Nat \ {0}
      BY <1>2, <2>2
    <3>3. number \in Nat
      BY <1>1
    <3> HIDE DEF number, size, entsize
    <3>4. size \div entsize \in Nat
      BY <3>2
    <3> QED
      BY <3>1, <3>3, <3>4
  <2>4. Listed(number) <=> ~ (number >= Entries(s))
    BY <2>2, <2>3 DEF Listed
  <2>5. CASE ~ Listed(number)
    <3>1. Symval(link, number) = ELF_RELOC_ERR
      BY <2>1, <2>4, <2>5, Zenon DEF Symval
    <3> QED
      BY <1>4, <2>5, <3>1, Zenon DEF AgreesOn
  <2>6. CASE Listed(number)
    <3>1. ASSUME symbol.st_shndx # SHN_UNDEF
          PROVE  Symval(link, number) = Value(symbol)
      <4>1. CASE symbol.st_shndx = SHN_ABS
        BY <2>1, <2>4, <2>6, <3>1, <4>1, Zenon DEF Symval, Value
      <4>2. CASE symbol.st_shndx # SHN_ABS
        BY <2>1, <2>4, <2>6, <3>1, <4>2, Zenon DEF Symval, Value, SectionAddress
      <4> QED
        BY <4>1, <4>2
    <3> QED
      BY <1>4, <2>6, <3>1, Zenon DEF AgreesOn
  <2> QED
    BY <2>5, <2>6
<1> QED
  BY <1>3, <1>4

(* The value of a symbol that is found is an address.                      *)
LEMMA ValueType ==
  ASSUME file \in Files, NEW n \in 0 .. Len(file.sections) - 1, NEW k \in 1 .. Count(n),
         Names(Section(n), file.relocs[n][k]), Listed(file.relocs[n][k].symbol)
  PROVE  /\ Value(file.symbols[file.relocs[n][k].symbol]) \in Addresses
         /\ file.symbols[file.relocs[n][k].symbol].st_value \in Addresses
         /\ file.symbols[file.relocs[n][k].symbol].st_shndx
              \in 0 .. Len(file.sections) - 1 \union {SHN_ABS}
<1> DEFINE rel == file.relocs[n][k]
           symbol == file.symbols[rel.symbol]
<1>1. symbol.st_value \in Addresses /\ symbol.st_shndx \in 0 .. Len(file.sections) - 1 \union {SHN_ABS}
  <2>1. Relocatable(file, Section(n), rel, Section(Section(n).sh_info))
    BY RelocatableFacts
  <2>2. Section(rel.symbol) = file.sections[rel.symbol + 1]
    BY DEF Section
  <2> QED
    BY <2>1, <2>2, Zenon DEF Relocatable, Names, Listed
<1> HIDE DEF symbol
<1>2. ASSUME symbol.st_shndx = SHN_ABS PROVE Value(symbol) \in Addresses
  <2>1. Value(symbol) = symbol.st_value
    BY <1>2, Zenon DEF Value
  <2> QED
    BY <1>1, <2>1, Zenon
<1>3. ASSUME symbol.st_shndx # SHN_ABS PROVE Value(symbol) \in Addresses
  <2> DEFINE a == SectionAddress(Section(symbol.st_shndx))
  <2>1. Value(symbol) = Add(a, symbol.st_value)
    BY <1>3, Zenon DEF Value, SectionAddress
  <2>2. a \in Addresses
    BY <1>1, <1>3, SectionFacts
  <2>3. a \in Int /\ symbol.st_value \in Int
    BY <1>1, <2>2, WordFacts
  <2>4. Add(a, symbol.st_value) \in Addresses
    BY <2>3, AddType
  <2> QED
    BY <2>1, <2>4, Zenon
<1> QED
  BY <1>1, <1>2, <1>3 DEF symbol

(* So is what elf_get_symval gives.                                        *)
LEMMA SymvalType ==
  ASSUME file \in Files, NEW n \in 0 .. Len(file.sections) - 1, NEW k \in 1 .. Count(n),
         Divides(Section(n).sh_link, file.relocs[n][k].symbol)
  PROVE  Symval(Section(n).sh_link, file.relocs[n][k].symbol) \in Addresses
<1> DEFINE rel == file.relocs[n][k]
           symval == Symval(Section(n).sh_link, rel.symbol)
           symbol == file.symbols[rel.symbol]
<1>1. AgreesOn(Section(n), rel)
  BY SymvalFacts
<1>2. 0 \in Addresses /\ ELF_RELOC_ERR \in Addresses
  BY WordFacts DEF ELF_RELOC_ERR
<1>3. CASE ~ Names(Section(n), rel)
  <2>1. symval = 0
    BY <1>1, <1>3, Zenon DEF AgreesOn
  <2> QED
    BY <1>2, <2>1
<1>4. CASE Names(Section(n), rel) /\ ~ Listed(rel.symbol)
  <2>1. symval = ELF_RELOC_ERR
    BY <1>1, <1>4, Zenon DEF AgreesOn
  <2> QED
    BY <1>2, <2>1
<1>5. CASE Names(Section(n), rel) /\ Listed(rel.symbol) /\ symbol.st_shndx # SHN_UNDEF
  <2>1. symval = Value(symbol)
    BY <1>1, <1>5, Zenon DEF AgreesOn
  <2>2. Value(symbol) \in Addresses
    BY <1>5, ValueType
  <2> QED
    BY <2>1, <2>2, Zenon
<1>6. CASE Names(Section(n), rel) /\ Listed(rel.symbol) /\ symbol.st_shndx = SHN_UNDEF
  <2>1. Section(n).sh_link # SHN_UNDEF /\ rel.symbol # SHN_UNDEF
    BY <1>6 DEF Names
  <2>2. symval = ELF_RELOC_ERR \/ symval = External
    BY <1>6, <2>1, Zenon DEF Symval
  <2> QED
    BY <1>2, <2>2 DEF External
<1> QED
  BY <1>3, <1>4, <1>5, <1>6

(* A relocation of the file is one that can be applied.                    *)
LEMMA JobType ==
  ASSUME file \in Files, NEW n \in 0 .. Len(file.sections) - 1, NEW k \in 1 .. Count(n)
  PROVE  /\ Job(n, k) \in JobRecord
         /\ Job(n, k).type = file.relocs[n][k].type
         /\ Job(n, k).place = Add(SectionAddress(Section(Section(n).sh_info)), file.relocs[n][k].r_offset)
<1> DEFINE rel == file.relocs[n][k]
           info == Section(n).sh_info
           place == Add(SectionAddress(Section(info)), rel.r_offset)
           found == Names(Section(n), rel) => Listed(rel.symbol)
           value == IF Names(Section(n), rel) /\ Listed(rel.symbol)
                      THEN Value(file.symbols[rel.symbol]) ELSE 0
<1>1. info \in 0 .. Len(file.sections) - 1 /\ Relocatable(file, Section(n), rel, Section(info))
  BY RelocatableFacts
<1>2. rel.type \in STRING
  BY <1>1, Zenon DEF Relocatable
<1>3. place \in Addresses
  <2>1. SectionAddress(Section(info)) \in Addresses /\ Section(info).sh_size \in Nat
    BY <1>1, SectionFacts
  <2>2. rel.r_offset \in 0 .. Section(info).sh_size - 1
    BY <1>1, Zenon DEF Relocatable
  <2>3. rel.r_offset \in Int /\ SectionAddress(Section(info)) \in Int
    BY <2>1, <2>2, WordFacts
  <2> QED
    BY <2>3, AddType
<1>4. value \in Addresses
  <2>1. CASE Names(Section(n), rel) /\ Listed(rel.symbol)
    BY <2>1, ValueType
  <2>2. CASE ~ (Names(Section(n), rel) /\ Listed(rel.symbol))
    <3>1. value = 0
      BY <2>2, Zenon
    <3> HIDE DEF value
    <3> QED
      BY <3>1, WordFacts
  <2> QED
    BY <2>1, <2>2
<1>5. found \in BOOLEAN
  OBVIOUS
<1>6. Job(n, k) = [type |-> rel.type, place |-> place, found |-> found, value |-> value]
  BY Zenon DEF Job, SectionAddress
<1> HIDE DEF place, found, value
<1>7. Job(n, k) \in JobRecord
  BY <1>2, <1>3, <1>4, <1>5, <1>6 DEF JobRecord
<1>8. Job(n, k).type = rel.type /\ Job(n, k).place = place
  BY <1>6
<1> QED
  BY <1>7, <1>8 DEF place

(* What cutting a value to an int makes of it.                             *)
LEMMA ErrorIsTruncated == Truncated(ELF_RELOC_ERR) /\ ~ Truncated(0)
<1>1. Half \in Nat \ {0, 1}
  BY WordFacts
<1>2. Half * Half - 1 = Half * (Half - 1) + (Half - 1)
  BY <1>1
<1>3. (Half * Half - 1) % Half = Half - 1
  <2> DEFINE q == Half - 1
             x == Half * Half - 1
  <2>1. q \in Int /\ q \in 0 .. Half - 1 /\ x \in Int /\ x = Half * q + q
    BY <1>1, <1>2
  <2> HIDE DEF q, x
  <2>2. x % Half = q
    BY <1>1, <2>1, Remainder
  <2> QED
    BY <2>2 DEF q, x
<1>4. 0 % Half = 0 /\ 0 # Half - 1
  BY <1>1
<1> QED
  BY <1>3, <1>4 DEF Truncated, ELF_RELOC_ERR, Word

(* For a usual symbol elf_get_symval gives its value, which is never taken *)
(* for an error, or an error.                                              *)
LEMMA UsualFacts ==
  ASSUME file \in Files, NEW n \in 0 .. Len(file.sections) - 1, NEW k \in 1 .. Count(n),
         Divides(Section(n).sh_link, file.relocs[n][k].symbol),
         Usual(Section(n), file.relocs[n][k])
  PROVE  LET job    == Job(n, k)
             symval == Symval(Section(n).sh_link, file.relocs[n][k].symbol)
         IN  /\ job.found => symval = job.value /\ symval # ELF_RELOC_ERR /\ ~ Truncated(symval)
             /\ ~ job.found => symval = ELF_RELOC_ERR
<1> DEFINE rel == file.relocs[n][k]
           symbol == file.symbols[rel.symbol]
           job == Job(n, k)
           symval == Symval(Section(n).sh_link, rel.symbol)
<1>1. AgreesOn(Section(n), rel)
  BY SymvalFacts
<1>2. /\ job.found <=> (Names(Section(n), rel) => Listed(rel.symbol))
      /\ job.value = IF Names(Section(n), rel) /\ Listed(rel.symbol) THEN Value(symbol) ELSE 0
  BY DEF Job
<1>3. ASSUME ~ Truncated(symval) PROVE symval # ELF_RELOC_ERR
  BY <1>3, ErrorIsTruncated, Zenon
<1> HIDE DEF job
<1>4. CASE ~ Names(Section(n), rel)
  <2>1. symval = 0 /\ job.found /\ job.value = 0
    BY <1>1, <1>2, <1>4, Zenon DEF AgreesOn
  <2>2. ~ Truncated(symval)
    BY <2>1, ErrorIsTruncated, Zenon
  <2> QED
    BY <1>3, <2>1, <2>2, Zenon DEF job
<1>5. CASE Names(Section(n), rel) /\ ~ Listed(rel.symbol)
  <2>1. symval = ELF_RELOC_ERR /\ ~ job.found
    BY <1>1, <1>2, <1>5, Zenon DEF AgreesOn
  <2> QED
    BY <2>1, Zenon DEF job
<1>6. CASE Names(Section(n), rel) /\ Listed(rel.symbol)
  <2>1. symbol.st_shndx # SHN_UNDEF /\ Value(symbol) % Half # Half - 1
    BY <1>6, Zenon DEF Usual
  <2>2. symval = Value(symbol) /\ job.found /\ job.value = Value(symbol)
    BY <1>1, <1>2, <1>6, <2>1, Zenon DEF AgreesOn
  <2>3. ~ Truncated(symval)
    BY <2>1, <2>2, Zenon DEF Truncated
  <2> QED
    BY <1>3, <2>2, <2>3, Zenon DEF job
<1> QED
  BY <1>4, <1>5, <1>6

(* Then elf_do_reloc does what one relocation should do.                   *)
LEMMA DoesItsJob ==
  ASSUME file \in Files, NEW n \in 0 .. Len(file.sections) - 1, NEW k \in 1 .. Count(n),
         Divides(Section(n).sh_link, file.relocs[n][k].symbol),
         Usual(Section(n), file.relocs[n][k]), NEW words \in Memory
  PROVE  LET rel    == file.relocs[n][k]
             ref    == Add(SectionAddress(Section(Section(n).sh_info)), rel.r_offset)
             symval == Symval(Section(n).sh_link, rel.symbol)
             next   == Apply([words |-> words, result |-> "ok"], Job(n, k))
         IN  /\ Refused(rel, symval) => next = [words |-> words, result |-> "error"]
             /\ ~ Refused(rel, symval) =>
                  /\ ~ Truncated(symval)
                  /\ next = [words |-> Reloc(words, rel.type, ref, symval), result |-> "ok"]
<1> DEFINE rel == file.relocs[n][k]
           ref == Add(SectionAddress(Section(Section(n).sh_info)), rel.r_offset)
           symval == Symval(Section(n).sh_link, rel.symbol)
           job == Job(n, k)
           next == Apply([words |-> words, result |-> "ok"], job)
<1>1. job \in JobRecord /\ job.type = rel.type /\ job.place = ref
  BY JobType
<1>2. /\ job.found => symval = job.value /\ symval # ELF_RELOC_ERR /\ ~ Truncated(symval)
      /\ ~ job.found => symval = ELF_RELOC_ERR
  BY UsualFacts
<1>3. Patched(words, job) = Reloc(words, job.type, job.place, job.value)
  BY <1>1, PatchedIsReloc
<1>4. Refused(rel, symval) <=> ~ (job.found /\ job.type \in Supported)
  BY <1>1, <1>2, Zenon DEF Refused
<1>5. CASE Refused(rel, symval)
  <2>1. next = [words |-> words, result |-> "error"]
    BY <1>4, <1>5 DEF Apply, Supported
  <2> QED
    BY <1>5, <2>1
<1>6. CASE ~ Refused(rel, symval)
  <2>1. next = [words |-> Patched(words, job), result |-> "ok"]
    BY <1>4, <1>6 DEF Apply, Supported
  <2>2. Patched(words, job) = Reloc(words, rel.type, ref, symval) /\ ~ Truncated(symval)
    BY <1>1, <1>2, <1>3, <1>4, <1>6, Zenon
  <2> HIDE DEF next
  <2>3. next = [words |-> Reloc(words, rel.type, ref, symval), result |-> "ok"]
    BY <2>1, <2>2, Zenon
  <2> QED
    BY <1>6, <2>2, <2>3, Zenon DEF next
<1> QED
  BY <1>5, <1>6

(* ... and so is every one of the lists.                                   *)
LEMMA JobsFacts ==
  ASSUME file \in Files
  PROVE  /\ Jobs \in Seq(Seq(JobRecord)) /\ Len(Jobs) = Len(file.sections)
         /\ \A n \in 0 .. Len(file.sections) - 1 :
              /\ Len(Jobs[n + 1]) = Count(n)
              /\ \A k \in 1 .. Count(n) : Jobs[n + 1][k] = Job(n, k)
<1> DEFINE N == Len(file.sections)
           List(n) == [k \in 1 .. Count(n - 1) |-> Job(n - 1, k)]
<1>1. N \in Nat
  BY FilesAssumption
<1>2. Jobs = [n \in 1 .. N |-> List(n)]
  BY DEF Jobs
<1>3. ASSUME NEW n \in 0 .. N - 1
      PROVE  /\ List(n + 1) = [k \in 1 .. Count(n) |-> Job(n, k)]
             /\ List(n + 1) \in Seq(JobRecord)
             /\ Len(List(n + 1)) = Count(n)
  <2>1. (n + 1) - 1 = n
    OBVIOUS
  <2>2. List(n + 1) = [k \in 1 .. Count(n) |-> Job(n, k)]
    BY <2>1
  <2>3. Count(n) \in Nat
    BY CountFacts
  <2>4. \A k \in 1 .. Count(n) : Job(n, k) \in JobRecord
    BY JobType
  <2> DEFINE c == Count(n)
             list == [k \in 1 .. c |-> Job(n, k)]
  <2>5. list \in Seq(JobRecord) /\ Len(list) = c
    <3> HIDE DEF c
    <3> QED
      BY <2>3, <2>4 DEF c
  <2> QED
    BY <2>2, <2>5
<1>4. ASSUME NEW n \in 1 .. N PROVE List(n) \in Seq(JobRecord)
  <2>1. n - 1 \in 0 .. N - 1 /\ (n - 1) + 1 = n
    BY <1>1
  <2> HIDE DEF List
  <2> QED
    BY <1>3, <2>1
<1>5. Jobs \in Seq(Seq(JobRecord)) /\ Len(Jobs) = N
  <2> HIDE DEF List, N
  <2> QED
    BY <1>1, <1>2, <1>4
<1>6. ASSUME NEW n \in 0 .. N - 1
      PROVE  Jobs[n + 1] = List(n + 1)
  <2>1. n + 1 \in 1 .. N
    BY <1>1
  <2> HIDE DEF List
  <2> QED
    BY <1>2, <2>1
<1>7. ASSUME NEW n \in 0 .. N - 1
      PROVE  Len(Jobs[n + 1]) = Count(n) /\ \A k \in 1 .. Count(n) : Jobs[n + 1][k] = Job(n, k)
  <2>1. Jobs[n + 1] = [k \in 1 .. Count(n) |-> Job(n, k)]
    BY <1>3, <1>6
  <2>2. Len(Jobs[n + 1]) = Count(n)
    BY <1>3, <1>6
  <2> QED
    BY <2>1, <2>2
<1> QED
  BY <1>5, <1>7

(* Stage 2 starts from a state of memory.                                  *)
LEMMA BeforeType ==
  ASSUME file \in Files
  PROVE  Before \in LoadState
<1>1. file.memory \in Memory
  BY FilesAssumption DEF Memory
<1> QED
  BY <1>1 DEF Before, LoadState

(* The tables depend on the file alone.                                    *)
LEMMA TablesStay ==
  ASSUME UNCHANGED file
  PROVE  /\ \A n : Section(n)' = Section(n) /\ Count(n)' = Count(n)
         /\ Jobs' = Jobs /\ Before' = Before /\ Ordinary' = Ordinary /\ HasBss' = HasBss
<1>0. file' = file
  OBVIOUS
<1>1. ASSUME NEW n PROVE Section(n)' = Section(n)
  BY <1>0 DEF Section
<1>2. ASSUME NEW n PROVE Count(n)' = Count(n)
  BY <1>1, Zenon DEF Count, Entries
<1>3. ASSUME NEW n PROVE Listed(n)' = Listed(n)
  BY <1>1, Zenon DEF Listed, Entries
<1>4. ASSUME NEW symbol PROVE Value(symbol)' = Value(symbol)
  BY <1>1, Zenon DEF Value, Add
<1>5. ASSUME NEW n, NEW k PROVE Job(n, k)' = Job(n, k)
  BY <1>0, <1>1, <1>3, <1>4, Zenon DEF Job, Names, Add
<1>6. Jobs' = Jobs
  BY <1>0, <1>2, <1>5 DEF Jobs
<1>7. Before' = Before
  BY <1>0 DEF Before
<1>8. ASSUME NEW n, NEW k PROVE Usual(Section(n), file.relocs[n][k])' = Usual(Section(n), file.relocs[n][k])
  BY <1>0, <1>1, <1>3, <1>4, Zenon DEF Usual, Names
<1>9. Ordinary' = Ordinary
  BY <1>0, <1>2, <1>8, Zenon DEF Ordinary
<1>10. HasBss' = HasBss
  BY <1>0, Zenon DEF HasBss
<1> QED
  BY <1>1, <1>2, <1>6, <1>7, <1>9, <1>10

---------------------------------------------------------------------------
(* The inductive invariant.                                                *)

(* The loops start from 0.                                                 *)
CountersInv ==
  /\ pc = "check" => i = 0
  /\ pc \in {"check", "stage1"} => idx = 0

(* Stage 1 passes sections that need no memory, and is passed when none    *)
(* does.                                                                   *)
BssInv ==
  /\ pc = "stage1" => \A n \in 1 .. i : ~ Zeroed(file.sections[n])
  /\ Stages /\ pc \notin {"check", "stage1", "panic"} =>
       \A n \in 1 .. Len(file.sections) : ~ Zeroed(file.sections[n])
  /\ pc # "done" => started = {}
  /\ pc = "panic" => HasBss \/ file.magic # ELFMAG

(* The relocations stage 2 has passed are done.                            *)
Position == PositionOf(Jobs, Before, i, idx)

WordsInv ==
  /\ pc \in {"check", "stage1"} => memory = file.memory
  /\ pc \in {"check", "stage1", "stage2"} => result = "ok"
  /\ pc = "stage2" /\ Ordinary => [words |-> memory, result |-> "ok"] = Position

IInv ==
  /\ TypeOK
  /\ file \in Files
  /\ CountersInv
  /\ BssInv
  /\ WordsInv
  /\ RelocatedInOrder

(* A section that needs memory is .bss.                                    *)
LEMMA ZeroedIsBss ==
  ASSUME file \in Files
  PROVE  HasBss <=> \E n \in 1 .. Len(file.sections) : Zeroed(file.sections[n])
<1>1. ASSUME NEW n \in 1 .. Len(file.sections)
      PROVE  file.sections[n].sh_size # 0 <=> file.sections[n].sh_size > 0
  <2>1. file.sections \in Seq(SectionHeader)
    BY FilesAssumption
  <2>2. file.sections[n] \in SectionHeader
    BY <2>1
  <2>3. file.sections[n].sh_size \in Nat
    BY <2>2 DEF SectionHeader
  <2> QED
    BY <2>3
<1> QED
  BY <1>1, Zenon DEF HasBss, Zeroed

---------------------------------------------------------------------------
(* The steps.                                                              *)

(* Before anything has run the memory is the file's.                       *)
LEMMA InitIInv == Init => IInv
<1> SUFFICES ASSUME Init PROVE IInv
  OBVIOUS
<1>1. /\ file \in Files /\ memory = file.memory /\ pc = "check" /\ i = 0 /\ idx = 0
      /\ result = "ok" /\ offset = 0 /\ started = {}
  BY DEF Init
<1>2. file.memory \in [Addresses -> 0 .. Half - 1]
  BY <1>1, FilesAssumption
<1>3. TypeOK
  BY <1>1, <1>2 DEF TypeOK, Stage
<1>4. CountersInv /\ BssInv
  BY <1>1 DEF CountersInv, BssInv
<1>5. WordsInv
  BY <1>1 DEF WordsInv
<1>6. RelocatedInOrder
  BY <1>1 DEF RelocatedInOrder
<1> QED
  BY <1>1, <1>3, <1>4, <1>5, <1>6 DEF IInv

(* elf_check_file touches nothing.                                         *)
LEMMA CheckFilePreserves ==
  ASSUME IInv, CheckFile
  PROVE  IInv'
<1>1. /\ pc = "check" /\ UNCHANGED <<file, memory, i, idx, result, offset, started>>
      /\ pc' \in {"panic", "stage1", "load"} /\ (pc' = "load" => ~ Stages)
      /\ (pc' = "panic" => file.magic # ELFMAG)
  BY ElfAssumption DEF CheckFile, At
<1>2. i = 0 /\ idx = 0
  BY <1>1 DEF IInv, CountersInv
<1>3. file.e_phnum \in Nat /\ Len(file.sections) \in Nat
  BY FilesAssumption DEF IInv
<1>4. TypeOK'
  BY <1>1, <1>2, <1>3 DEF IInv, TypeOK, Stage
<1>5. CountersInv'
  BY <1>1, <1>2 DEF CountersInv
<1>6. BssInv'
  <2>1. started = {}
    BY <1>1 DEF IInv, BssInv
  <2>2. \A n \in 1 .. i' : ~ Zeroed(file.sections[n])'
    BY <1>1, <1>2
  <2> QED
    BY <1>1, <2>1, <2>2 DEF BssInv
<1>7. WordsInv'
  BY <1>1 DEF IInv, WordsInv
<1>8. RelocatedInOrder'
  BY <1>1 DEF RelocatedInOrder
<1> QED
  BY <1>1, <1>4, <1>5, <1>6, <1>7, <1>8 DEF IInv

(* elf_load_rel changes no word, and neither does _kernel_start.           *)
LEMMA EndPreserves ==
  ASSUME IInv, pc \in {"load", "start"}, pc' \in {"load", "start", "done"},
         UNCHANGED <<file, memory, idx, result>>, pc' # "done" => started' = started,
         offset' \in Nat, pc' = "load" => i' \in 0 .. file.e_phnum
  PROVE  IInv'
<1>1. TypeOK'
  BY DEF IInv, TypeOK, Stage
<1>2. CountersInv' /\ WordsInv'
  BY DEF CountersInv, WordsInv
<1>3. Jobs' = Jobs /\ Before' = Before /\ Ordinary' = Ordinary
  BY TablesStay
<1>4. BssInv'
  <2>1. file' = file
    OBVIOUS
  <2>2. started = {} /\ (Stages => \A n \in 1 .. Len(file.sections) : ~ Zeroed(file.sections[n]))
    BY DEF IInv, BssInv
  <2>3. \A n : Zeroed(file.sections[n])' <=> Zeroed(file.sections[n])
    BY <2>1 DEF Zeroed
  <2> QED
    BY <2>1, <2>2, <2>3 DEF BssInv
<1>5. RelocatedInOrder'
  BY <1>3 DEF IInv, RelocatedInOrder
<1> QED
  BY <1>1, <1>2, <1>4, <1>5 DEF IInv

(* The loop over the program headers.                                      *)
LEMMA LoadRelPreserves ==
  ASSUME IInv, LoadRel
  PROVE  IInv'
<1>1. file.e_phnum \in Nat /\ file.e_entry \in Nat /\ offset \in Nat
  BY FilesAssumption DEF IInv, TypeOK
<1>2. pc = "load" /\ i \in 0 .. file.e_phnum
  BY DEF LoadRel, At, IInv, TypeOK
<1>3. /\ UNCHANGED <<file, memory, idx, result, started>>
      /\ offset' \in Nat /\ pc' \in {"load", "start"}
      /\ pc' = "load" => i' = i + 1 /\ i # file.e_phnum
  BY <1>1, <1>2 DEF LoadRel
<1>4. pc' = "load" => i' \in 0 .. file.e_phnum
  BY <1>1, <1>2, <1>3
<1> QED
  BY <1>2, <1>3, <1>4, EndPreserves

(* The process is created.                                                 *)
LEMMA StartPreserves ==
  ASSUME IInv, Start
  PROVE  IInv'
<1>1. /\ pc = "start" /\ pc' = "done"
      /\ UNCHANGED <<file, memory, i, idx, result, offset>>
  BY DEF Start, At
<1>2. offset' \in Nat
  BY <1>1 DEF IInv, TypeOK
<1> QED
  BY <1>1, <1>2, EndPreserves

(* What stage 2 knows and what it leaves alone.                            *)
LEMMA Stage2Facts ==
  ASSUME IInv, Stage2
  PROVE  /\ pc = "stage2" /\ i \in 0 .. Len(file.sections) /\ Len(file.sections) \in Nat
         /\ file \in Files /\ memory \in Memory
         /\ i < Len(file.sections) =>
              i \in 0 .. Len(file.sections) - 1 /\ idx \in 0 .. Count(i) /\ Count(i) \in Nat
         /\ UNCHANGED <<file, offset, started>>
         /\ (Ordinary => [words |-> memory, result |-> "ok"] = Position) /\ result = "ok"
         /\ Jobs \in Seq(Seq(JobRecord)) /\ Len(Jobs) = Len(file.sections)
         /\ Before \in LoadState /\ Jobs' = Jobs /\ Before' = Before /\ Ordinary' = Ordinary
<1>1. pc = "stage2" /\ UNCHANGED <<file, offset, started>>
  BY DEF Stage2, At
<1>2. file \in Files /\ memory \in Memory
  BY DEF IInv, TypeOK, Memory
<1>3. i \in 0 .. Len(file.sections) /\ Len(file.sections) \in Nat
  BY <1>1, FilesAssumption DEF IInv, TypeOK
<1>4. ASSUME i < Len(file.sections)
      PROVE  i \in 0 .. Len(file.sections) - 1 /\ idx \in 0 .. Count(i) /\ Count(i) \in Nat
  <2>1. i \in 0 .. Len(file.sections) - 1
    BY <1>3, <1>4
  <2>2. idx \in 0 .. Count(i)
    BY <1>1, <1>4 DEF IInv, TypeOK
  <2> QED
    BY <1>2, <2>1, <2>2, CountFacts
<1>5. (Ordinary => [words |-> memory, result |-> "ok"] = Position) /\ result = "ok"
  BY <1>1 DEF IInv, WordsInv
<1>6. Jobs \in Seq(Seq(JobRecord)) /\ Len(Jobs) = Len(file.sections) /\ Before \in LoadState
  BY <1>2, JobsFacts, BeforeType
<1>7. Jobs' = Jobs /\ Before' = Before /\ Ordinary' = Ordinary
  BY <1>1, TablesStay
<1> QED
  BY <1>1, <1>2, <1>3, <1>4, <1>5, <1>6, <1>7

(* Stage 2 starts no process, and no file with .bss reaches it.            *)
LEMMA Stage2Bss ==
  ASSUME IInv, Stage2
  PROVE  BssInv' /\ CountersInv'
<1>1. pc = "stage2" /\ UNCHANGED <<file, started>>
  BY Stage2Facts
<1>2. pc' \in {"stage2", "load", "fault", "start"}
  BY <1>1 DEF Stage2, NextSection, DoReloc, Fail
<1>3. started = {} /\ (Stages => \A n \in 1 .. Len(file.sections) : ~ Zeroed(file.sections[n]))
  BY <1>1 DEF IInv, BssInv
<1>4. file' = file /\ \A n : Zeroed(file.sections[n])' <=> Zeroed(file.sections[n])
  BY <1>1 DEF Zeroed
<1> QED
  BY <1>1, <1>2, <1>3, <1>4 DEF BssInv, CountersInv

(* The end of a section is the start of the next.                          *)
LEMMA NextSectionPreserves ==
  ASSUME IInv, Stage2, i < Len(file.sections), idx = Count(i), NextSection
  PROVE  IInv'
<1>1. /\ pc' = "stage2" /\ i' = i + 1 /\ idx' = 0 /\ memory' = memory /\ result' = result
  BY Stage2Facts DEF NextSection
<1>2. /\ i \in 0 .. Len(file.sections) - 1 /\ Len(file.sections) \in Nat /\ file \in Files
      /\ UNCHANGED <<file, offset>> /\ file' = file
      /\ (Ordinary => [words |-> memory, result |-> "ok"] = Position) /\ result = "ok"
      /\ Jobs \in Seq(Seq(JobRecord)) /\ Len(Jobs) = Len(file.sections) /\ Before \in LoadState
      /\ Jobs' = Jobs /\ Before' = Before /\ Ordinary' = Ordinary
  BY Stage2Facts
<1>4. TypeOK'
  <2>1. i + 1 < Len(file.sections) => Count(i + 1) \in Nat
    BY <1>2, CountFacts
  <2>2. i' \in 0 .. Len(file.sections) /\ idx' \in 0 .. IF i' < Len(file.sections) THEN Count(i') ELSE 0
    BY <1>1, <1>2, <2>1
  <2>3. Count(i)' = Count(i')
    BY <1>2, Zenon DEF Count, Section, Entries
  <2>4. /\ memory' \in [Addresses -> 0 .. Half - 1]
        /\ result' \in {"ok", "error"} /\ offset' \in Nat
    BY <1>1, <1>2 DEF IInv, TypeOK
  <2> QED
    BY <1>1, <1>2, <2>2, <2>3, <2>4 DEF TypeOK, Stage
<1>5. Position' = Position
  <2>1. Len(Jobs[i + 1]) = Count(i)
    BY <1>2, JobsFacts
  <2>2. PositionOf(Jobs, Before, i + 1, 0) = PositionOf(Jobs, Before, i, Len(Jobs[i + 1]))
    BY <1>2, PositionTurns
  <2> QED
    BY <1>1, <1>2, <2>1, <2>2 DEF Position
<1>6. WordsInv'
  BY <1>1, <1>2, <1>5 DEF WordsInv
<1>7. RelocatedInOrder'
  BY <1>1 DEF RelocatedInOrder
<1> QED
  BY <1>1, <1>2, <1>4, <1>6, <1>7, Stage2Bss DEF IInv

(* When the step of stage 2 stops it, what has been done is what should be.*)
LEMMA StopPreserves ==
  ASSUME IInv, Stage2, pc' \in {"load", "fault", "start"}, i' \in 0 .. file.e_phnum \/ pc' # "load",
         memory' \in Memory, result' \in {"ok", "error"},
         pc' # "fault" /\ Ordinary =>
           [words |-> memory', result |-> result'] = Through(Jobs, Before)[Len(Jobs)]
  PROVE  IInv'
<1>1. UNCHANGED <<file, offset>> /\ Jobs' = Jobs /\ Before' = Before /\ Ordinary' = Ordinary
  BY Stage2Facts
<1>2. TypeOK'
  BY <1>1 DEF IInv, TypeOK, Stage, Memory
<1>3. WordsInv'
  BY DEF WordsInv
<1>4. RelocatedInOrder'
  BY <1>1 DEF RelocatedInOrder
<1> QED
  BY <1>1, <1>2, <1>3, <1>4, Stage2Bss DEF IInv

(* The end of the last section is the end.                                 *)
LEMMA LastSectionPreserves ==
  ASSUME IInv, Stage2, i = Len(file.sections)
  PROVE  IInv'
<1>1. pc' = "load" /\ i' = 0 /\ memory' = memory /\ result' = result
  BY DEF Stage2
<1>2. /\ (Ordinary => [words |-> memory, result |-> "ok"] = Position) /\ result = "ok"
      /\ Len(Jobs) = Len(file.sections) /\ Len(file.sections) \in Nat /\ memory \in Memory
  BY Stage2Facts
<1>3. Position = Through(Jobs, Before)[Len(Jobs)]
  <2>1. ~ (i < Len(Jobs))
    BY <1>2
  <2> QED
    BY <2>1 DEF Position, PositionOf
<1>4. 0 \in 0 .. file.e_phnum
  BY FilesAssumption DEF IInv
<1> QED
  BY <1>1, <1>2, <1>3, <1>4, StopPreserves

(* A division by zero stops everything.                                    *)
LEMMA FaultPreserves ==
  ASSUME IInv, Stage2, pc' = "fault", UNCHANGED <<memory, result>>
  PROVE  IInv'
BY StopPreserves DEF IInv, TypeOK, Memory

(* The relocation at the position is the one the file's order says.        *)
LEMMA JobAt ==
  ASSUME IInv, Stage2, i < Len(file.sections), Section(i).sh_type = "SHT_REL",
         Section(i).sh_entsize # 0, idx # Entries(Section(i))
  PROVE  /\ i \in 0 .. Len(Jobs) - 1 /\ idx \in 0 .. Len(Jobs[i + 1]) - 1 /\ idx + 1 \in 1 .. Count(i)
         /\ Ordinary => PositionOf(Jobs, Before, i, idx + 1) =
                          Apply([words |-> memory, result |-> "ok"], Job(i, idx + 1))
<1>1. /\ file \in Files /\ i \in 0 .. Len(file.sections) - 1 /\ idx \in 0 .. Count(i) /\ Count(i) \in Nat
      /\ Jobs \in Seq(Seq(JobRecord)) /\ Len(Jobs) = Len(file.sections) /\ Before \in LoadState
      /\ (Ordinary => [words |-> memory, result |-> "ok"] = PositionOf(Jobs, Before, i, idx))
  BY Stage2Facts DEF Position
<1>2. Count(i) = Entries(Section(i))
  BY DEF Count
<1>3. idx + 1 \in 1 .. Count(i) /\ idx \in 0 .. Count(i) - 1
  BY <1>1, <1>2
<1>4. Len(Jobs[i + 1]) = Count(i) /\ Jobs[i + 1][idx + 1] = Job(i, idx + 1)
  BY <1>1, <1>3, JobsFacts
<1>5. PositionOf(Jobs, Before, i, idx + 1) = Apply(PositionOf(Jobs, Before, i, idx), Jobs[i + 1][idx + 1])
  BY <1>1, <1>3, <1>4, PositionSteps
<1> QED
  BY <1>1, <1>3, <1>4, <1>5

(* elf_do_reloc, and what the loop makes of its result.                    *)
LEMMA DoRelocPreserves ==
  ASSUME IInv, Stage2, i < Len(file.sections), Section(i).sh_type = "SHT_REL",
         Section(i).sh_entsize # 0, idx # Entries(Section(i)), DoReloc
  PROVE  IInv'
<1> DEFINE rel == file.relocs[i][idx + 1]
           ref == Add(SectionAddress(Section(Section(i).sh_info)), rel.r_offset)
           symval == Symval(Section(i).sh_link, rel.symbol)
           job == Job(i, idx + 1)
           next == PositionOf(Jobs, Before, i, idx + 1)
           words == Reloc(memory, rel.type, ref, symval)
<1>1. CASE ~ Divides(Section(i).sh_link, rel.symbol)
  <2>1. pc' = "fault" /\ UNCHANGED <<memory, result>>
    BY <1>1, Zenon DEF DoReloc
  <2> QED
    BY <2>1, FaultPreserves
<1>2. CASE Divides(Section(i).sh_link, rel.symbol)
  <2>1. /\ i \in 0 .. Len(Jobs) - 1 /\ idx \in 0 .. Len(Jobs[i + 1]) - 1 /\ idx + 1 \in 1 .. Count(i)
        /\ Ordinary => next = Apply([words |-> memory, result |-> "ok"], job)
    BY JobAt
  <2>2. /\ pc = "stage2" /\ result = "ok" /\ memory \in Memory /\ Jobs \in Seq(Seq(JobRecord))
        /\ Before \in LoadState /\ Jobs' = Jobs /\ Before' = Before /\ Ordinary' = Ordinary
        /\ UNCHANGED <<file, offset>> /\ file \in Files
        /\ i \in 0 .. Len(file.sections) - 1 /\ Len(Jobs) = Len(file.sections)
    BY Stage2Facts
  <2>3. ref \in Addresses /\ symval \in Addresses
    <3>1. job \in JobRecord /\ job.place = ref
      BY <2>1, <2>2, JobType
    <3>2. symval \in Addresses
      BY <1>2, <2>1, <2>2, SymvalType
    <3> HIDE DEF job, ref, symval
    <3> QED
      BY <3>1, <3>2 DEF JobRecord
  <2>4. words \in Memory
    <3> HIDE DEF ref, symval
    <3> QED
      BY <2>2, <2>3, RelocFacts
  <2>5. idx + 1 \in 0 .. Len(Jobs[i + 1])
    BY <2>1, <2>2
  <2>6. next.result = "error" => Through(Jobs, Before)[Len(Jobs)] = next
    BY <2>1, <2>2, <2>5, PositionSticks
  <2>7. ASSUME Ordinary
        PROVE  /\ Refused(rel, symval) => next = [words |-> memory, result |-> "error"]
               /\ ~ Refused(rel, symval) =>
                    ~ Truncated(symval) /\ next = [words |-> words, result |-> "ok"]
    <3>1. Usual(Section(i), rel)
      BY <2>1, <2>2, <2>7, Zenon DEF Ordinary
    <3>2. next = Apply([words |-> memory, result |-> "ok"], job)
      BY <2>1, <2>7
    <3> HIDE DEF next
    <3> QED
      BY <1>2, <2>1, <2>2, <3>1, <3>2, DoesItsJob
  <2>8. CASE Refused(rel, symval)
    <3>1. Fail /\ memory' = memory
      BY <1>2, <2>8, Zenon DEF DoReloc
    <3>2. pc' = "start" /\ result' = "error"
      BY <3>1 DEF Fail
    <3>3. ASSUME Ordinary
          PROVE  [words |-> memory', result |-> result'] = Through(Jobs, Before)[Len(Jobs)]
      <4>1. next = [words |-> memory, result |-> "error"]
        BY <2>7, <2>8, <3>3
      <4> HIDE DEF next
      <4> QED
        BY <2>6, <3>1, <3>2, <4>1
    <3> QED
      BY <2>2, <3>1, <3>2, <3>3, StopPreserves
  <2>9. CASE ~ Refused(rel, symval) /\ Truncated(symval)
    <3>1. Fail /\ memory' = words
      BY <1>2, <2>9, Zenon DEF DoReloc
    <3>2. pc' = "start" /\ result' = "error"
      BY <3>1 DEF Fail
    <3>3. ~ Ordinary
      BY <2>7, <2>9
    <3> HIDE DEF words
    <3> QED
      BY <2>4, <3>1, <3>2, <3>3, StopPreserves
  <2>10. CASE ~ Refused(rel, symval) /\ ~ Truncated(symval)
    <3>1. memory' = words /\ idx' = idx + 1 /\ UNCHANGED <<result, pc, i>>
      BY <1>2, <2>10, Zenon DEF DoReloc
    <3>2. Ordinary => next = [words |-> words, result |-> "ok"]
      BY <2>7, <2>10
    <3> HIDE DEF words
    <3>3. TypeOK'
      <4>1. Count(i)' = Count(i)
        <5>1. file' = file /\ i' = i
          BY <2>2, <3>1
        <5> QED
          BY <5>1, Zenon DEF Count, Section, Entries
      <4>2. i < Len(file.sections) /\ idx + 1 \in 0 .. Count(i)
        BY <2>1, <2>2
      <4> QED
        BY <2>2, <2>4, <3>1, <4>1, <4>2 DEF IInv, TypeOK, Memory, Stage
    <3>4. WordsInv'
      BY <2>2, <3>1, <3>2 DEF WordsInv, Position
    <3>5. RelocatedInOrder'
      BY <2>2, <3>1 DEF RelocatedInOrder
    <3> QED
      BY <2>2, <3>3, <3>4, <3>5, Stage2Bss DEF IInv
  <2> QED
    BY <2>8, <2>9, <2>10
<1> QED
  BY <1>1, <1>2

(* elf_load_stage2.                                                        *)
LEMMA Stage2Preserves ==
  ASSUME IInv, Stage2
  PROVE  IInv'
<1>1. i \in 0 .. Len(file.sections) /\ Len(file.sections) \in Nat
  BY Stage2Facts
<1>2. CASE i = Len(file.sections)
  BY <1>2, LastSectionPreserves
<1>3. CASE i # Len(file.sections)
  <2>1. i < Len(file.sections) /\ idx \in 0 .. Count(i)
    BY <1>1, <1>3, Stage2Facts
  <2>2. CASE Section(i).sh_type # "SHT_REL"
    <3>1. Count(i) = 0
      BY <2>2 DEF Count
    <3>2. NextSection
      BY <1>3, <2>2 DEF Stage2
    <3> QED
      BY <2>1, <3>1, <3>2, NextSectionPreserves
  <2>3. CASE Section(i).sh_type = "SHT_REL" /\ Section(i).sh_entsize = 0
    <3>1. pc' = "fault" /\ UNCHANGED <<memory, result>>
      BY <1>3, <2>3 DEF Stage2
    <3> QED
      BY <3>1, FaultPreserves
  <2>4. CASE Section(i).sh_type = "SHT_REL" /\ Section(i).sh_entsize # 0 /\ idx = Entries(Section(i))
    <3>1. Count(i) = idx
      BY <2>4 DEF Count
    <3>2. NextSection
      BY <1>3, <2>4 DEF Stage2
    <3> QED
      BY <2>1, <3>1, <3>2, NextSectionPreserves
  <2>5. CASE Section(i).sh_type = "SHT_REL" /\ Section(i).sh_entsize # 0 /\ idx # Entries(Section(i))
    <3>1. DoReloc
      BY <1>3, <2>5 DEF Stage2
    <3> QED
      BY <2>1, <2>5, <3>1, DoRelocPreserves
  <2> QED
    BY <2>2, <2>3, <2>4, <2>5
<1> QED
  BY <1>2, <1>3

(* elf_load_stage1.                                                        *)
LEMMA Stage1Preserves ==
  ASSUME IInv, Stage1
  PROVE  IInv'
<1>1. /\ pc = "stage1" /\ UNCHANGED <<file, memory, idx, result, offset, started>>
      /\ file \in Files /\ file' = file /\ memory = file.memory /\ result = "ok"
      /\ idx = 0 /\ started = {}
  BY DEF Stage1, At, IInv, WordsInv, CountersInv, BssInv
<1>2. i \in 0 .. Len(file.sections) /\ Len(file.sections) \in Nat
  BY <1>1, FilesAssumption DEF IInv, TypeOK
<1>3. \A n \in 1 .. i : ~ Zeroed(file.sections[n])
  BY <1>1 DEF IInv, BssInv
<1>4. \A n : Zeroed(file.sections[n])' <=> Zeroed(file.sections[n])
  BY <1>1 DEF Zeroed
<1>5. /\ Jobs' = Jobs /\ Before' = Before /\ Ordinary' = Ordinary /\ (HasBss' <=> HasBss)
      /\ Jobs \in Seq(Seq(JobRecord)) /\ Before \in LoadState
  BY <1>1, TablesStay, JobsFacts, BeforeType
<1>6. CASE i = Len(file.sections)
  <2>1. pc' = "stage2" /\ i' = 0
    BY <1>2, <1>6 DEF Stage1
  <2>2. TypeOK'
    <3>1. 0 < Len(file.sections) => Count(0) \in Nat
      BY <1>1, <1>2, CountFacts
    <3>2. Count(i)' = Count(0)
      BY <1>1, <2>1, Zenon DEF Count, Section, Entries
    <3>3. 0 \in 0 .. IF 0 < Len(file.sections) THEN Count(0) ELSE 0
      BY <3>1
    <3> QED
      BY <1>1, <1>2, <2>1, <3>2, <3>3 DEF IInv, TypeOK, Stage
  <2>3. CountersInv' /\ BssInv'
    BY <1>1, <1>3, <1>4, <1>6, <2>1 DEF CountersInv, BssInv
  <2>4. WordsInv'
    <3>1. PositionOf(Jobs, Before, 0, 0) = Before
      BY <1>5, PositionStarts
    <3>2. Position' = Before
      BY <1>1, <1>5, <2>1, <3>1 DEF Position
    <3> QED
      BY <1>1, <2>1, <3>2 DEF WordsInv, Before
  <2>5. RelocatedInOrder'
    BY <2>1 DEF RelocatedInOrder
  <2> QED
    BY <1>1, <2>2, <2>3, <2>4, <2>5 DEF IInv
<1>7. CASE i # Len(file.sections) /\ Zeroed(Section(i))
  <2>1. pc' = "panic"
    BY <1>7 DEF Stage1, Malloc
  <2>2. TypeOK'
    BY <1>1, <2>1 DEF IInv, TypeOK, Stage
  <2>3. HasBss
    <3>1. i + 1 \in 1 .. Len(file.sections)
      BY <1>2, <1>7
    <3> QED
      BY <1>1, <1>7, <3>1, ZeroedIsBss DEF Section
  <2>4. CountersInv' /\ BssInv'
    BY <1>1, <1>5, <2>1, <2>3 DEF CountersInv, BssInv
  <2>5. WordsInv' /\ RelocatedInOrder'
    BY <2>1 DEF WordsInv, RelocatedInOrder
  <2> QED
    BY <1>1, <2>2, <2>4, <2>5 DEF IInv
<1>8. CASE i # Len(file.sections) /\ ~ Zeroed(Section(i))
  <2>1. pc' = "stage1" /\ i' = i + 1
    BY <1>1, <1>8 DEF Stage1
  <2>2. TypeOK'
    BY <1>1, <1>2, <1>8, <2>1 DEF IInv, TypeOK, Stage
  <2>3. \A n \in 1 .. i + 1 : ~ Zeroed(file.sections[n])
    <3>1. ~ Zeroed(file.sections[i + 1])
      BY <1>8 DEF Section
    <3>2. \A n \in 1 .. i + 1 : n \in 1 .. i \/ n = i + 1
      BY <1>2
    <3> QED
      BY <1>3, <3>1, <3>2, Zenon
  <2>4. CountersInv' /\ BssInv'
    BY <1>1, <1>4, <2>1, <2>3 DEF CountersInv, BssInv
  <2>5. WordsInv' /\ RelocatedInOrder'
    BY <1>1, <2>1 DEF WordsInv, RelocatedInOrder
  <2> QED
    BY <1>1, <2>2, <2>4, <2>5 DEF IInv
<1> QED
  BY <1>6, <1>7, <1>8

(* A step of others.                                                       *)
LEMMA StutterPreserves ==
  ASSUME IInv, UNCHANGED vars
  PROVE  IInv'
<1>1. /\ file' = file /\ memory' = memory /\ started' = started
      /\ pc' = pc /\ i' = i /\ idx' = idx /\ result' = result /\ offset' = offset
  BY DEF vars
<1>2. Jobs' = Jobs /\ Before' = Before /\ Ordinary' = Ordinary /\ HasBss' = HasBss
  BY <1>1, TablesStay
<1>3. TypeOK'
  <2>1. Count(i)' = Count(i)
    BY <1>1, Zenon DEF Count, Section, Entries
  <2> QED
    BY <1>1, <2>1, Zenon DEF IInv, TypeOK
<1>4. CountersInv'
  BY <1>1 DEF IInv, CountersInv
<1>5. BssInv'
  BY <1>1, <1>2, Zenon DEF IInv, BssInv, Zeroed
<1>6. WordsInv'
  BY <1>1, <1>2, Zenon DEF IInv, WordsInv, Position
<1>7. RelocatedInOrder'
  BY <1>1, <1>2, Zenon DEF IInv, RelocatedInOrder
<1> QED
  BY <1>1, <1>3, <1>4, <1>5, <1>6, <1>7 DEF IInv

---------------------------------------------------------------------------
(* The theorems.                                                           *)

(* Whatever the file, the strengthened invariant holds in every state.     *)
THEOREM Invariance == Spec => []IInv
<1>1. ASSUME IInv, [Next]_vars PROVE IInv'
  BY <1>1, CheckFilePreserves, Stage1Preserves, Stage2Preserves, LoadRelPreserves,
     StartPreserves, StutterPreserves DEF Next
<1> QED
  BY InitIInv, <1>1, PTL DEF Spec

(* The loops of the loader stay within the tables of any file whose indices*)
(* do, and what they write is a word.                                      *)
THEOREM CountersWithinTables == Spec => []TypeOK
<1>1. IInv => TypeOK
  BY DEF IInv
<1> QED
  BY Invariance, <1>1, PTL

(* However many sections there are: when elf_load_stage1 runs, malloc      *)
(* panics for a file with .bss before a relocation or a process, and a file*)
(* without it gets past.                                                   *)
THEOREM NoBssIsLoaded == Spec => []BssPanics
<1>1. ASSUME IInv PROVE BssPanics
  <2>1. HasBss <=> \E n \in 1 .. Len(file.sections) : Zeroed(file.sections[n])
    BY <1>1, ZeroedIsBss DEF IInv
  <2>2. /\ Stages /\ pc \notin {"check", "stage1", "panic"} =>
             \A n \in 1 .. Len(file.sections) : ~ Zeroed(file.sections[n])
        /\ pc # "done" => started = {}
        /\ pc = "panic" => HasBss \/ file.magic # ELFMAG
    BY <1>1 DEF IInv, BssInv
  <2> QED
    BY <2>1, <2>2 DEF BssPanics, At
<1> QED
  BY Invariance, <1>1, PTL

(* For every file with ordinary symbols, of any number of tables and       *)
(* relocations: elf_load_stage2 applies each of them once and in order, or *)
(* stops at the first it cannot apply with exactly those before it applied.*)
THEOREM AppliedInOrder == Spec => []RelocatedInOrder
<1>1. IInv => RelocatedInOrder
  BY DEF IInv
<1> QED
  BY Invariance, <1>1, PTL

(* A size_t that starts in an area stays in it, or ends one word behind.   *)
LEMMA AreaOrBehind ==
  ASSUME NEW base \in Int, NEW size \in Nat, NEW off \in 0 .. size - 1, NEW a,
         a = Add(base, off) \/ a = Add(Add(base, off), 1)
  PROVE  a \in Area(base, size) \/ (off = size - 1 /\ a = Add(base, size))
<1>1. CASE a = Add(base, off)
  BY <1>1 DEF Area
<1>2. CASE a = Add(Add(base, off), 1)
  <2>1. off \in Int /\ 1 \in Int
    OBVIOUS
  <2>2. a = Add(base, off + 1)
    BY <1>2, <2>1, AddAdd
  <2>3. CASE off = size - 1
    <3>1. off + 1 = size
      BY <2>3
    <3> QED
      BY <2>2, <2>3, <3>1
  <2>4. CASE off # size - 1
    <3>1. off + 1 \in 0 .. size - 1
      BY <2>4
    <3> QED
      BY <2>2, <3>1 DEF Area
  <2> QED
    BY <2>3, <2>4
<1> QED
  BY <1>1, <1>2

(* Where elf_do_reloc may write.                                           *)
Reached(a) ==
  LET target == Section(Section(i).sh_info)
      base   == Add(Hdr, target.sh_offset)
  IN  \/ a \in Area(base, target.sh_size)
      \/ /\ file.relocs[i][idx + 1].r_offset = target.sh_size - 1
         /\ a = Add(base, target.sh_size)

(* A relocation writes within what it may reach.                           *)
LEMMA RelocReaches ==
  ASSUME IInv, Stage2, NEW a \in Addresses, memory'[a] # memory[a]
  PROVE  Reached(a)
<1> DEFINE info == Section(i).sh_info
           rel == file.relocs[i][idx + 1]
           target == Section(info)
           base == Add(Hdr, target.sh_offset)
           ref == Add(base, rel.r_offset)
           symval == Symval(Section(i).sh_link, rel.symbol)
<1>0. base = SectionAddress(target)
  BY DEF SectionAddress
<1>1. /\ i < Len(file.sections) /\ Section(i).sh_type = "SHT_REL" /\ Section(i).sh_entsize # 0
      /\ idx # Entries(Section(i)) /\ DoReloc
  <2>1. i \in 0 .. Len(file.sections) /\ Len(file.sections) \in Nat
    BY Stage2Facts
  <2> QED
    BY <2>1 DEF Stage2, NextSection
<1>2. /\ Divides(Section(i).sh_link, rel.symbol)
      /\ memory' = Reloc(memory, rel.type, ref, symval)
  BY <1>0, <1>1, Zenon DEF DoReloc
<1>3. /\ file \in Files /\ memory \in Memory /\ i \in 0 .. Len(file.sections) - 1
      /\ idx + 1 \in 1 .. Count(i)
  BY <1>1, Stage2Facts, JobAt
<1>4. info \in 0 .. Len(file.sections) - 1 /\ Relocatable(file, Section(i), rel, target)
  BY <1>3, RelocatableFacts
<1>5. target.sh_size \in Nat /\ base \in Addresses
  BY <1>0, <1>3, <1>4, SectionFacts
<1>6. rel.r_offset \in 0 .. target.sh_size - 1
  BY <1>4, Zenon DEF Relocatable
<1>7. ref \in Addresses /\ symval \in Addresses
  <2>1. rel.r_offset \in Int /\ base \in Int
    BY <1>5, <1>6, WordFacts
  <2>2. ref \in Addresses
    BY <2>1, AddType
  <2>3. symval \in Addresses
    BY <1>2, <1>3, SymvalType
  <2> QED
    BY <2>2, <2>3
<1>8. a = ref \/ a = Add(ref, 1)
  <2> HIDE DEF ref, symval
  <2> QED
    BY <1>2, <1>3, <1>7, RelocFacts
<1>9. a \in Area(base, target.sh_size) \/ (rel.r_offset = target.sh_size - 1 /\ a = Add(base, target.sh_size))
  <2>1. base \in Int
    BY <1>5, WordFacts
  <2> HIDE DEF base, target, rel
  <2> QED
    BY <1>5, <1>6, <1>8, <2>1, AreaOrBehind
<1> QED
  BY <1>9, Zenon DEF Reached

(* Whatever the relocations: a step of stage 2 changes nothing but the     *)
(* section they are for and, for one at its last word, the word behind it. *)
THEOREM WritesReachTheTarget == Spec => WritesStayInTarget
<1> DEFINE Within == At("stage2") => \A a \in Addresses : memory'[a] # memory[a] => Reached(a)
<1>1. ASSUME IInv, [Next]_vars PROVE [Within]_vars
  <2>1. CASE Stage2
    BY <1>1, <2>1, RelocReaches
  <2>2. CASE CheckFile \/ Stage1 \/ LoadRel \/ Start
    BY <2>2 DEF CheckFile, Stage1, LoadRel, Start, At
  <2>3. CASE UNCHANGED vars
    BY <2>3
  <2> QED
    BY <1>1, <2>1, <2>2, <2>3 DEF Next
<1>2. Spec => [][Within]_vars
  BY Invariance, <1>1, PTL DEF Spec
<1> QED
  BY <1>2, PTL DEF WritesStayInTarget, Reached
============================================================================
