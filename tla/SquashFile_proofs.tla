-------------------------- MODULE SquashFile_proofs --------------------------
(***************************************************************************)
(* squash_read_file, for archives of any size and content, damaged ones    *)
(* included: it never reports a short read as success, copies the bytes of *)
(* the file, and reads every archive that stores the file as its inode     *)
(* says if the sum that gives the block count does not wrap.               *)
(***************************************************************************)
EXTENDS SquashFile, WellFoundedInduction, TLAPS

-----------------------------------------------------------------------------
(***************************************************************************)
(* Induction.  A rule with an operator for its hypothesis cannot be used   *)
(* here; the rule for sets, from the well-foundedness of < on Nat, can.    *)
(***************************************************************************)
LEMMA LeastElement ==
    ASSUME NEW T, T \subseteq Nat, T # {}
    PROVE  \E x \in T : \A y \in T : x <= y
<1> DEFINE R == OpToRel(<, Nat)
<1>1. IsWellFoundedOn(R, Nat)
  BY NatLessThanWellFounded, Zenon
<1>2. \A p : p \in R <=> p \in Nat \X Nat /\ p[1] < p[2]
  BY DEF OpToRel
<1> HIDE DEF R
<1>3. PICK x \in T : \A y \in T : <<y, x>> \notin R
  BY <1>1, WFMin
<1>4. \A y \in T : ~(y < x)
  BY <1>2, <1>3
<1> QED BY <1>4

LEMMA SetInduction ==
    ASSUME NEW S, 0 \in S, \A n \in Nat : n \in S => n + 1 \in S
    PROVE  Nat \subseteq S
<1> SUFFICES ASSUME Nat \ S # {} PROVE FALSE
  OBVIOUS
<1>1. PICK x \in Nat \ S : \A y \in Nat \ S : x <= y
  BY LeastElement
<1>2. x - 1 \in Nat /\ x - 1 \notin Nat \ S
  BY <1>1
<1>3. (x - 1) + 1 = x
  BY <1>1
<1> QED BY <1>1, <1>2, <1>3

\* The recursive definition of StoredSize defines a function.
LEMMA SumExists ==
    ASSUME NEW N \in Nat, NEW w \in [1 .. N -> Nat]
    PROVE  \E f : f = [n \in 0 .. N |-> IF n = 0 THEN 0 ELSE f[n - 1] + w[n]]
<1> DEFINE IsSum(f, m) == f = [n \in 0 .. m |-> IF n = 0 THEN 0 ELSE f[n - 1] + w[n]]
           S == {m \in Nat : \E f : IsSum(f, m)}
<1>1. 0 \in S
  <2>1. IsSum([n \in 0 .. 0 |-> 0], 0)
    OBVIOUS
  <2> QED BY <2>1
<1>2. ASSUME NEW m \in Nat, m \in S PROVE m + 1 \in S
  <2>1. PICK f : IsSum(f, m)
    BY <1>2
  <2> DEFINE g == [n \in 0 .. m + 1 |-> IF n = m + 1 THEN f[m] + w[m + 1] ELSE f[n]]
  <2>2. \A n \in 0 .. m + 1 : g[n] = IF n = 0 THEN 0 ELSE g[n - 1] + w[n]
    <3> SUFFICES ASSUME NEW n \in 0 .. m + 1
                 PROVE  g[n] = IF n = 0 THEN 0 ELSE g[n - 1] + w[n]
      OBVIOUS
    <3>1. CASE n = m + 1
      BY <3>1
    <3>2. CASE n # m + 1
      <4>1. n \in 0 .. m /\ f[n] = IF n = 0 THEN 0 ELSE f[n - 1] + w[n]
        BY <2>1, <3>2
      <4> QED BY <3>2, <4>1
    <3> QED BY <3>1, <3>2
  <2>3. g = [n \in 0 .. m + 1 |-> g[n]]
    OBVIOUS
  <2> HIDE DEF g
  <2>4. g = [n \in 0 .. m + 1 |-> IF n = 0 THEN 0 ELSE g[n - 1] + w[n]]
    <3>2. [n \in 0 .. m + 1 |-> g[n]]
            = [n \in 0 .. m + 1 |-> IF n = 0 THEN 0 ELSE g[n - 1] + w[n]]
      BY <2>2, Zenon
    <3> QED BY <2>3, <3>2
  <2> QED BY <2>4
<1>3. N \in S
  BY <1>1, <1>2, SetInduction
<1> QED BY <1>3

LEMMA StoredSizes ==
    ASSUME a \in Archives
    PROVE  /\ \A n \in 0 .. Len(a.block_list) : StoredSize[n] \in Nat
           /\ StoredSize[0] = 0
           /\ \A n \in 1 .. Len(a.block_list) :
                 StoredSize[n] = StoredSize[n - 1] + a.block_list[n].size
<1> DEFINE N == Len(a.block_list)
           w == [n \in 1 .. N |-> a.block_list[n].size]
<1>1. a.block_list \in Seq([size : Nat, comp : BOOLEAN])
  BY ArchivesAssumption
<1>2. N \in Nat /\ \A n \in 1 .. N : a.block_list[n].size \in Nat
  <2>1. ASSUME NEW B, NEW s \in Seq(B)
        PROVE  Len(s) \in Nat /\ \A n \in 1 .. Len(s) : s[n] \in B
    OBVIOUS
  <2>2. N \in Nat /\ \A n \in 1 .. N : a.block_list[n] \in [size : Nat, comp : BOOLEAN]
    BY <1>1, <2>1
  <2> QED BY <2>2
<1>3. w \in [1 .. N -> Nat]
  BY <1>2
<1>4. PICK f : f = [n \in 0 .. N |-> IF n = 0 THEN 0 ELSE f[n - 1] + w[n]]
  <2> HIDE DEF w, N
  <2> QED BY <1>2, <1>3, SumExists
<1>5. f = [n \in 0 .. N |-> IF n = 0 THEN 0 ELSE f[n - 1] + a.block_list[n].size]
  <2>1. \A n \in 0 .. N : n # 0 => n \in 1 .. N
    BY <1>2
  <2>2. \A n \in 0 .. N : n # 0 => w[n] = a.block_list[n].size
    BY <2>1
  <2> HIDE DEF w, N
  <2> QED BY <1>4, <2>2
<1>6. StoredSize = [n \in 0 .. N |-> IF n = 0 THEN 0
                                     ELSE StoredSize[n - 1] + a.block_list[n].size]
  BY <1>5 DEF StoredSize
<1> HIDE DEF w, N
<1>7. StoredSize[0] = 0
  <2>1. 0 \in 0 .. N
    BY <1>2
  <2> QED BY <1>6, <2>1
<1>8. \A n \in 1 .. N : StoredSize[n] = StoredSize[n - 1] + a.block_list[n].size
  <2>1. \A n \in 1 .. N : n \in 0 .. N /\ n # 0
    BY <1>2
  <2> QED BY <1>6, <2>1
<1>9. \A n \in 0 .. N : StoredSize[n] \in Nat
  <2> DEFINE S == {n \in Nat : n <= N => StoredSize[n] \in Nat}
  <2>1. 0 \in S
    BY <1>7
  <2>2. ASSUME NEW n \in Nat, n \in S PROVE n + 1 \in S
    <3> SUFFICES ASSUME n + 1 <= N PROVE StoredSize[n + 1] \in Nat
      OBVIOUS
    <3>1. n + 1 \in 1 .. N /\ n <= N /\ (n + 1) - 1 = n
      BY <1>2
    <3>2. StoredSize[n + 1] = StoredSize[n] + a.block_list[n + 1].size
      BY <1>8, <3>1
    <3> QED BY <1>2, <2>2, <3>1, <3>2
  <2>3. Nat \subseteq S
    BY <2>1, <2>2, SetInduction
  <2> QED BY <1>2, <2>3
<1> QED BY <1>7, <1>8, <1>9 DEF N

-----------------------------------------------------------------------------

\* The list has an entry for every block counted: squash_read_inode counts
\* as squash_read_file does, and allocates the list with that many.
Covered == BlockCount <= Len(a.block_list)
\* The sum of file_size and block_size - 1 fits the width of nblocks, or
\* is not looked at.
Counted == ~CountWraps \/ InFragmentOnly

(***************************************************************************)
(* The inductive invariant: the bytes copied and those remaining make up   *)
(* the request, and the place inside the current block is inside the file. *)
(***************************************************************************)
Accounted ==
    /\ pc = "call" => dest = <<>> /\ remaining = 0 /\ ret = "none"
    /\ pc = "loop" => ret = "none"
    /\ pc # "call" => Len(dest) + remaining = Asked
    /\ ret = "OK" => remaining = 0
InsideFile ==
    pc = "loop" /\ block_idx < BlockCount =>
        block_idx * a.block_size + block_offset < a.file_size
IInv ==
    /\ a \in Archives /\ request \in Requests
    /\ pc \in {"call", "loop", "done"}
    /\ block_idx \in Nat
    /\ block_offset \in Nat /\ block_offset < a.block_size
    /\ remaining \in Nat
    /\ dest \in Seq(Nat)
    /\ Accounted
    /\ InsideFile

-----------------------------------------------------------------------------
\* Division rounds down; the blocks of the rounded-up count start in the file.
LEMMA Division ==
    ASSUME NEW n \in Nat, NEW b \in Nat \ {0}
    PROVE  /\ n \div b \in Nat /\ n % b \in 0 .. b - 1
           /\ b * (n \div b) + (n % b) = n
<1>1. n \div b \in Int /\ n \div b >= 0
  OBVIOUS
<1>2. n % b \in 0 .. b - 1
  OBVIOUS
<1>3. n \in Int /\ b \in Int /\ b > 0
  OBVIOUS
<1>4. b * (n \div b) + (n % b) = n
  BY <1>3, Z3
<1> QED BY <1>1, <1>2, <1>4

LEMMA BlockStartsInside ==
    ASSUME NEW f \in Nat, NEW b \in Nat \ {0}, NEW k \in Nat,
           k < (f + b - 1) \div b
    PROVE  k * b < f
BY SMTT(30)

\* What is appended by a copy of n bytes that lie inside the content.
LEMMA CopyLength ==
    ASSUME NEW d \in Seq(Nat), NEW c \in Seq(Nat), NEW from \in Nat, NEW n \in Nat,
           from + n <= Len(c)
    PROVE  /\ d \o SubSeq(c, from + 1, from + n) \in Seq(Nat)
           /\ Len(d \o SubSeq(c, from + 1, from + n)) = Len(d) + n
<1>1. SubSeq(c, from + 1, from + n) \in Seq(Nat)
  OBVIOUS
<1>2. Len(SubSeq(c, from + 1, from + n)) = n
  OBVIOUS
<1> QED BY <1>1, <1>2

-----------------------------------------------------------------------------
LEMMA ArchiveFacts ==
    ASSUME a \in Archives, request \in Requests
    PROVE  /\ a.block_size \in Nat \ {0} /\ a.file_size \in Nat /\ a.offset \in Nat
           /\ a.data \in [DOMAIN a.data -> Seq(Nat)]
           /\ request.offset \in Nat /\ request.size \in Nat
           /\ Asked \in Nat
<1>1. /\ a.block_size \in Nat \ {0} /\ a.file_size \in Nat /\ a.offset \in Nat
      /\ a.data \in [DOMAIN a.data -> Seq(Nat)]
  BY ArchivesAssumption
<1>2. request.offset \in Nat /\ request.size \in Nat
  BY RequestsAssumption
<1>3. Asked \in Nat
  BY <1>1, <1>2 DEF Asked, Least
<1> QED BY <1>1, <1>2, <1>3

LEMMA QuotientIsUnique ==
    ASSUME NEW b \in Nat \ {0}, NEW x \in Int, NEW y \in Int,
           NEW r \in 0 .. b - 1, NEW s \in 0 .. b - 1, b * x + r = b * y + s
    PROVE  x = y
<1>1. ASSUME NEW u \in Int, NEW v \in Int, NEW p \in 0 .. b - 1, NEW q \in 0 .. b - 1,
             b * u + p = b * v + q
      PROVE  ~(u < v)
  <2> SUFFICES ASSUME u + 1 <= v PROVE FALSE
    OBVIOUS
  <2>1. b * (u + 1) <= b * v
    BY Z3
  <2>2. b * (u + 1) = b * u + b
    BY Z3
  <2> DEFINE bu == b * u
             bv == b * v
  <2>3. bu \in Int /\ bv \in Int /\ bu + b <= bv /\ bu + p = bv + q
    BY <1>1, <2>1, <2>2
  <2> HIDE DEF bu, bv
  <2> QED BY <2>3
<1>2. ~(x < y) /\ ~(y < x)
  BY <1>1
<1> QED BY <1>2

\* Division when there is nothing left to divide, or one divisor.
LEMMA SmallQuotient ==
    ASSUME NEW b \in Nat \ {0}, NEW n \in 0 .. b - 1
    PROVE  n \div b = 0
<1> DEFINE q == n \div b
           m == n % b
<1>1. q \in Int /\ m \in 0 .. b - 1 /\ b * q + m = n
  BY Division
<1> HIDE DEF q, m
<1>2. b * q + m = b * 0 + n
  BY <1>1
<1>3. q = 0
  BY <1>1, <1>2, QuotientIsUnique
<1> QED BY <1>3 DEF q
LEMMA WrapsOnce ==
    ASSUME NEW w \in Nat \ {0}, NEW n \in 0 .. w - 1
    PROVE  (w + n) % w = n
<1>1. PICK x \in Nat : x = w + n
  OBVIOUS
<1> DEFINE q == x \div w
           m == x % w
<1>2. q \in Int /\ m \in 0 .. w - 1 /\ w * q + m = x
  BY Division
<1> HIDE DEF q, m
<1>3. w * q + m = w * 1 + n
  BY <1>1, <1>2
<1>4. q = 1
  BY <1>2, <1>3, QuotientIsUnique
<1>5. w + m = w + n
  BY <1>1, <1>2, <1>4
<1>6. m = n
  BY <1>2, <1>5
<1> QED BY <1>1, <1>6 DEF m

\* A sum that wraps leaves no block to count, or more than any list has.
LEMMA Uncounted ==
    ASSUME Covered, a \in Archives, ~Counted
    PROVE  /\ BlockCount = 0
           /\ HasFragment => a.file_size % a.block_size = 0
<1>1. PICK f : f = a.file_size
  OBVIOUS
<1>2. PICK b : b = a.block_size
  OBVIOUS
<1>3. PICK n : n = f + b - 1 - Word
  OBVIOUS
<1>4. /\ f \in Nat /\ b \in Nat \ {0} /\ Word \in Nat \ {0}
      /\ f < Word /\ b < Word /\ f + b > Word
  BY <1>1, <1>2, ArchivesAssumption, WordAssumption DEF Counted, CountWraps
<1>5. n \in 0 .. Word - 1 /\ n \in 0 .. b - 1 /\ f + b - 1 = Word + n
  BY <1>3, <1>4
<1>6. (f + b - 1) % Word = n /\ n \div b = 0
  BY <1>4, <1>5, WrapsOnce, SmallQuotient
<1>7. BlockCount = IF HasFragment /\ f % b # 0 THEN (0 - 1) % Word ELSE 0
  BY <1>1, <1>2, <1>6 DEF BlockCount, Counted
<1>8. ~(HasFragment /\ f % b # 0)
  <2>1. (0 - 1) % Word = Word - 1
    BY <1>4
  <2>2. /\ BlockCount <= Len(a.block_list) /\ Len(a.block_list) < Word - 1
        /\ Len(a.block_list) \in Nat
    <3>1. a.block_list \in Seq([size : Nat, comp : BOOLEAN])
      BY ArchivesAssumption
    <3> QED BY <3>1, ArchivesAssumption DEF Covered
  <2> QED BY <1>4, <1>7, <2>1, <2>2
<1> QED BY <1>1, <1>2, <1>7, <1>8

\* Every block below the count starts inside the file.
LEMMA CountedBlocks ==
    ASSUME Covered, a \in Archives, request \in Requests,
           NEW k \in Nat, k < BlockCount
    PROVE  k * a.block_size < a.file_size
<1> DEFINE f == a.file_size
           b == a.block_size
           q == (f + b - 1) \div b
<1>0. ~CountWraps
  <2>1. Counted
    BY Uncounted
  <2>2. InFragmentOnly => BlockCount = 0
    BY DEF BlockCount
  <2> QED BY <2>1, <2>2 DEF Counted
<1>1. f \in Nat /\ b \in Nat \ {0} /\ f + b <= Word /\ Word \in Nat \ {0}
  BY <1>0, ArchiveFacts, WordAssumption DEF CountWraps
<1>2. (f + b - 1) % Word = f + b - 1
  <2> HIDE DEF f, b
  <2> QED BY <1>1
<1>3. k < q
  <2>1. CASE InFragmentOnly
    BY <2>1 DEF BlockCount
  <2>2. CASE ~InFragmentOnly /\ ~(HasFragment /\ f % b # 0)
    BY <2>2, <1>2 DEF BlockCount
  <2>3. CASE ~InFragmentOnly /\ HasFragment /\ f % b # 0
    <3>1. BlockCount = (q - 1) % Word
      BY <2>3, <1>2 DEF BlockCount
    <3>2. f > b
      BY <2>3, <1>1 DEF InFragmentOnly
    <3>3. q \in Nat /\ 1 <= q /\ q <= Word
      <4> HIDE DEF f, b
      <4>1. q \in Nat /\ b * q <= f + b - 1 /\ f + b - 1 < b * q + b
        <5>1. f + b - 1 \in Nat
          BY <1>1
        <5>2. /\ q \in Nat /\ (f + b - 1) % b \in 0 .. b - 1
              /\ b * q + ((f + b - 1) % b) = f + b - 1
          BY <5>1, <1>1, Division
        <5> HIDE DEF q
        <5> QED BY <5>2, <1>1
      <4>2. 1 <= q
        BY <4>1, <3>2, <1>1
      <4>3. q <= b * q
        BY <4>1, <1>1
      <4> QED BY <4>1, <4>2, <4>3, <1>1
    <3>4. (q - 1) % Word = q - 1
      <4> HIDE DEF q
      <4> QED BY <3>3, <1>1
    <3> HIDE DEF q
    <3> QED BY <3>1, <3>3, <3>4
  <2> QED BY <2>1, <2>2, <2>3
<1> QED BY <1>1, <1>3, BlockStartsInside

-----------------------------------------------------------------------------
(***************************************************************************)
(* The blocks of a file.                                                   *)
(***************************************************************************)
LEMMA Products ==
    ASSUME NEW x \in Nat, NEW b \in Nat
    PROVE  x * b \in Nat /\ (x + 1) * b = x * b + b /\ b * x = x * b
OBVIOUS

\* Counting blocks by rounding up: one more than the full ones, if any is left.
LEMMA RoundedUp ==
    ASSUME NEW f \in Nat, NEW b \in Nat \ {0}
    PROVE  LET q == (f + b - 1) \div b IN
           /\ q \in Nat
           /\ f % b = 0 => q = f \div b
           /\ f % b # 0 => q = f \div b + 1
<1> DEFINE q == (f + b - 1) \div b
           r == (f + b - 1) % b
           d == f \div b
           m == f % b
<1>1. f + b - 1 \in Nat
  OBVIOUS
<1>2. q \in Nat /\ r \in 0 .. b - 1 /\ b * q + r = f + b - 1
  BY <1>1, Division
<1>3. d \in Nat /\ m \in 0 .. b - 1 /\ b * d + m = f
  BY Division
<1> HIDE DEF q, r, d, m
<1>4. CASE m = 0
  <2>1. b * q + r = b * d + (b - 1) /\ b - 1 \in 0 .. b - 1
    BY <1>2, <1>3, <1>4
  <2> QED BY <1>2, <1>3, <1>4, <2>1, QuotientIsUnique DEF q, d, m
<1>5. CASE m # 0
  <2>1. b * (d + 1) = b * d + b
    BY <1>3, Z3
  <2>2. b * q + r = b * (d + 1) + (m - 1) /\ m - 1 \in 0 .. b - 1 /\ d + 1 \in Int
    <3> DEFINE bd == b * d
    <3>1. bd \in Int /\ bd + m = f /\ b * (d + 1) = bd + b
      BY <1>3, <2>1
    <3> HIDE DEF bd
    <3>2. b * q + r = b * (d + 1) + (m - 1)
      BY <1>2, <1>3, <3>1
    <3>3. m - 1 \in 0 .. b - 1 /\ d + 1 \in Int
      <4>1. m \in 0 .. b - 1 /\ m # 0 /\ d \in Nat
        BY <1>3, <1>5
      <4> QED BY <4>1
    <3> QED BY <3>2, <3>3
  <2>3. q = d + 1
    <3> DEFINE y == d + 1
               s == m - 1
    <3>1. b * q + r = b * y + s /\ s \in 0 .. b - 1 /\ y \in Int /\ q \in Int
      BY <1>2, <2>2
    <3> HIDE DEF y, s
    <3>2. q = y
      BY <1>2, <3>1, QuotientIsUnique
    <3> QED BY <3>2 DEF y
  <2> QED BY <1>2, <1>5, <2>3 DEF q, d, m
<1> QED BY <1>4, <1>5

\* The blocks and the tail make up the file.
LEMMA Counts ==
    ASSUME Counted, a \in Archives, request \in Requests
    PROVE  /\ BlockCount \in Nat
           /\ InFragmentOnly => BlockCount = 0
           /\ HasFragment /\ ~InFragmentOnly => BlockCount * a.block_size + TailSize = a.file_size
           /\ ~HasFragment => BlockCount * a.block_size >= a.file_size
<1> DEFINE f == a.file_size
           b == a.block_size
           q == (f + b - 1) \div b
           d == f \div b
           m == f % b
<1>1. f \in Nat /\ b \in Nat \ {0} /\ Word \in Nat \ {0} /\ (~InFragmentOnly => f + b <= Word)
  BY ArchiveFacts, WordAssumption DEF Counted, CountWraps
<1>2. ~InFragmentOnly => (f + b - 1) % Word = f + b - 1
  <2> HIDE DEF f, b
  <2> QED BY <1>1
<1>3. d \in Nat /\ m \in 0 .. b - 1 /\ b * d + m = f /\ b * d = d * b
  <2> HIDE DEF f, b
  <2>1. d \in Nat /\ m \in 0 .. b - 1 /\ b * d + m = f
    BY <1>1, Division
  <2> QED BY <1>1, <2>1
<1>4. q \in Nat /\ (m = 0 => q = d) /\ (m # 0 => q = d + 1)
  BY <1>1, RoundedUp
<1>5. BlockCount = IF InFragmentOnly THEN 0
                   ELSE IF HasFragment /\ m # 0 THEN (q - 1) % Word ELSE q
  BY <1>2 DEF BlockCount
<1>6. TailSize = IF InFragmentOnly THEN f ELSE m
  BY DEF TailSize
<1> HIDE DEF f, b, q, d, m
<1>7. m # 0 /\ ~InFragmentOnly => (q - 1) % Word = d
  <2> SUFFICES ASSUME m # 0, ~InFragmentOnly PROVE d % Word = d
    BY <1>3, <1>4
  <2>1. d <= b * d
    BY <1>1, <1>3, Z3
  <2>2. d \in 0 .. Word - 1
    BY <1>1, <1>3, <2>1
  <2> QED BY <1>1, <2>2
<1>8. CASE InFragmentOnly
  BY <1>5, <1>8 DEF InFragmentOnly
<1>9. CASE ~InFragmentOnly /\ HasFragment
  <2>1. BlockCount = d
    BY <1>4, <1>5, <1>7, <1>9
  <2> QED BY <1>3, <1>6, <1>9, <2>1 DEF f, b
<1>10. CASE ~HasFragment
  <2>1. BlockCount = q /\ ~InFragmentOnly
    BY <1>5, <1>10 DEF InFragmentOnly
  <2>2. q * b >= f
    <3>1. (d + 1) * b = d * b + b
      BY <1>1, <1>3, Z3
    <3> DEFINE db == d * b
    <3>2. db \in Int
      BY <1>1, <1>3
    <3>3. db + m = f /\ (d + 1) * b = db + b
      BY <1>3, <3>1
    <3> HIDE DEF db
    <3>4. CASE m = 0
      <4>1. q * b = db
        BY <1>4, <3>4 DEF db
      <4> QED BY <1>1, <3>2, <3>3, <3>4, <4>1
    <3>5. CASE m # 0
      <4>1. q * b = db + b
        BY <1>4, <3>3, <3>5
      <4> QED BY <1>1, <1>3, <3>2, <3>3, <4>1
    <3> QED BY <3>4, <3>5
  <2> QED BY <1>4, <1>10, <2>1, <2>2 DEF f, b
<1> QED BY <1>8, <1>9, <1>10

LEMMA ListFacts ==
    ASSUME a \in Archives, NEW k \in 1 .. Len(a.block_list)
    PROVE  a.block_list[k] \in [size : Nat, comp : BOOLEAN]
<1>1. a.block_list \in Seq([size : Nat, comp : BOOLEAN])
  BY ArchivesAssumption
<1>2. ASSUME NEW B, NEW s \in Seq(B), NEW n \in 1 .. Len(s) PROVE s[n] \in B
  OBVIOUS
<1> QED BY <1>1, <1>2

\* The archive does not change, nor what is said of it alone.
LEMMA SameArchive ==
    ASSUME UNCHANGED <<a, request>>
    PROVE  /\ BlockCount' = BlockCount /\ StoredSize' = StoredSize
           /\ BlocksInFull' = BlocksInFull /\ HoldsItsFile' = HoldsItsFile
           /\ StartsInsideTail' = StartsInsideTail
           /\ Sound' = Sound /\ CountWraps' = CountWraps /\ InFragmentOnly' = InFragmentOnly
           /\ Asked' = Asked
           /\ \A i : Byte(i)' = Byte(i)
<1>1. /\ BlockCount' = BlockCount /\ CountWraps' = CountWraps /\ Asked' = Asked
      /\ InFragmentOnly' = InFragmentOnly
      /\ StartsInsideTail' = StartsInsideTail
      /\ FragmentListed' = FragmentListed /\ FragmentEntry' = FragmentEntry
      /\ FragmentUsable' = FragmentUsable /\ TailSize' = TailSize /\ HasFragment' = HasFragment
      /\ \A i : Byte(i)' = Byte(i)
      /\ \A k : Share(k)' = Share(k) /\ IsHole(k)' = IsHole(k)
  BY DEF BlockCount, CountWraps, Asked, StartsInsideTail, FragmentListed, FragmentEntry,
         FragmentUsable, TailSize, HasFragment, InFragmentOnly, Byte, Share, IsHole
<1>2. StoredSize' = StoredSize
  BY DEF StoredSize
<1>3. \A k : BlockAt(k)' = BlockAt(k)
  BY <1>2 DEF BlockAt
<1>4. \A k : IsStored(k)' = IsStored(k)
  BY <1>3 DEF IsStored
<1>5. BlocksInFull' = BlocksInFull
  BY <1>1, <1>3, <1>4 DEF BlocksInFull
<1>6. HoldsItsFile' = HoldsItsFile
  BY <1>1, <1>3, <1>4 DEF HoldsItsFile
<1>7. Sound' = Sound
  BY <1>1, <1>3, <1>4 DEF Sound
<1> QED BY <1>1, <1>2, <1>5, <1>6, <1>7

-----------------------------------------------------------------------------
LEMMA InitEstablishes == Init => IInv
<1> SUFFICES ASSUME Init PROVE IInv
  OBVIOUS
<1> USE DEF Init
<1>1. a \in Archives /\ request \in Requests
  OBVIOUS
<1> QED BY <1>1, ArchiveFacts DEF IInv, Accounted, InsideFile

\* Leaving the loop: with an error, or with nothing left to copy.
LEMMA ReturnKeeps ==
    ASSUME IInv, NEW e, Return(e),
           e = "OK" => remaining = 0,
           pc = "call" => Asked = 0
    PROVE  IInv'
<1> QED BY ArchiveFacts DEF IInv, Accounted, InsideFile, Return, Asked

LEMMA LocateKeeps ==
    ASSUME IInv, Locate
    PROVE  IInv'
<1> USE DEF IInv, Locate
<1>1. /\ a \in Archives /\ request \in Requests /\ a' = a /\ request' = request
      /\ request.offset < a.file_size
  OBVIOUS
<1>2. /\ block_idx' \in Nat /\ block_offset' \in 0 .. a.block_size - 1
      /\ a.block_size * block_idx' + block_offset' = request.offset
  BY ArchiveFacts, Division
<1>3. remaining' = Asked /\ Asked' = Asked /\ Asked \in Nat
  BY <1>1, ArchiveFacts DEF Asked
<1>4. Accounted'
  BY <1>3 DEF Accounted
<1>5. block_idx' * a.block_size = a.block_size * block_idx'
  BY <1>2, ArchiveFacts
<1>6. InsideFile'
  BY <1>1, <1>2, <1>5, ArchiveFacts DEF InsideFile
<1>7. block_offset' \in Nat /\ block_offset' < a'.block_size
  BY <1>1, <1>2, ArchiveFacts
<1>8. pc' = "loop" /\ dest' = dest /\ dest \in Seq(Nat)
  OBVIOUS
<1> HIDE DEF Locate
<1> QED BY <1>1, <1>2, <1>3, <1>4, <1>6, <1>7, <1>8

\* One iteration over a data block that copies n bytes from inside of it.
LEMMA NextBlockKeeps ==
    ASSUME Covered, IInv, pc = "loop", NEW c \in Seq(Nat), NEW n \in Nat,
           n <= remaining, block_offset + n <= Len(c), NextBlock(c, n)
    PROVE  IInv'
<1> USE DEF IInv, NextBlock
<1>1. dest' \in Seq(Nat) /\ Len(dest') = Len(dest) + n
  BY CopyLength DEF Copied
<1>2. Asked' = Asked /\ Asked \in Nat /\ BlockCount' = BlockCount
  BY ArchiveFacts DEF Asked, BlockCount, InFragmentOnly, HasFragment
<1>3. Accounted'
  <2>1. Len(dest) \in Nat
    OBVIOUS
  <2>2. Len(dest) + remaining = Asked /\ ret = "none"
    BY DEF Accounted
  <2>3. remaining' = remaining - n /\ remaining \in Nat
    OBVIOUS
  <2>4. Len(dest') + remaining' = Asked'
    <3> HIDE DEF IInv, NextBlock
    <3>1. Len(dest') + remaining' = (Len(dest) + n) + (remaining - n)
      BY <1>1, <2>3
    <3>2. (Len(dest) + n) + (remaining - n) = Len(dest) + remaining
      BY <2>1, <2>3
    <3> QED BY <1>2, <2>2, <3>1, <3>2
  <2> QED BY <2>2, <2>4 DEF Accounted
<1>4. InsideFile'
  <2> SUFFICES ASSUME block_idx + 1 < BlockCount
               PROVE  (block_idx + 1) * a.block_size < a.file_size
    BY <1>2, ArchiveFacts DEF InsideFile
  <2> QED BY CountedBlocks, block_idx + 1 \in Nat
<1> QED BY <1>1, <1>3, <1>4, ArchiveFacts

LEMMA SparseKeeps ==
    ASSUME Covered, IInv, ReadSparse
    PROVE  IInv'
<1> DEFINE c == [i \in 1 .. BlockLength |-> 0]
           n == Least(remaining, BlockLength - block_offset)
<1>1. pc = "loop" /\ block_idx < BlockCount /\ NextBlock(c, n)
  BY DEF ReadSparse, InBlock
<1>2. BlockLength \in Nat /\ block_offset < BlockLength
  <2>1. /\ block_idx * a.block_size \in Nat
        /\ block_idx * a.block_size + block_offset < a.file_size
    BY <1>1, ArchiveFacts DEF IInv, InsideFile
  <2> QED BY <2>1, ArchiveFacts DEF IInv, BlockLength, Least
<1>3. n \in Nat /\ n <= remaining /\ block_offset + n <= BlockLength
  BY <1>2 DEF IInv, Least
<1>4. c \in Seq(Nat) /\ Len(c) = BlockLength
  BY <1>2
<1> HIDE DEF c, n
<1> QED BY <1>1, <1>3, <1>4, NextBlockKeeps

LEMMA BlockKeeps ==
    ASSUME Covered, IInv, ReadBlock
    PROVE  IInv'
<1> DEFINE c == a.data[position]
           n == Least(Len(c) - block_offset, Least(remaining, BlockLength))
<1>1. pc = "loop" /\ block_idx < BlockCount /\ position \in DOMAIN a.data
  BY DEF ReadBlock, InBlock, ReadDataBlockOK
<1>2. CASE Return("INVALID_FILE")
  BY <1>1, <1>2, ReturnKeeps
<1>3. CASE Len(c) >= block_offset /\ NextBlock(c, n)
  <2>1. c \in Seq(Nat)
    BY <1>1, ArchiveFacts DEF IInv
  <2>2. BlockLength \in Nat
    <3>1. /\ block_idx * a.block_size \in Nat
          /\ block_idx * a.block_size + block_offset < a.file_size
      BY <1>1, ArchiveFacts DEF IInv, InsideFile
    <3> QED BY <3>1, ArchiveFacts DEF IInv, BlockLength, Least
  <2>3. Len(c) \in Nat
    BY <2>1
  <2>4. n \in Nat /\ n <= remaining /\ block_offset + n <= Len(c)
    <3> HIDE DEF c
    <3> QED BY <1>3, <2>2, <2>3 DEF IInv, Least
  <2> HIDE DEF c, n
  <2> QED BY <1>1, <1>3, <2>1, <2>4, NextBlockKeeps
<1> QED BY <1>2, <1>3 DEF ReadBlock

\* The tail: its copy lies inside the fragment, and what it cannot fill of
\* the request makes the call fail.
LEMMA FragmentKeeps ==
    ASSUME IInv, ReadFragment
    PROVE  IInv'
<1> DEFINE c == a.data[FragmentEntry.start]
           n == Least(Len(c) - FragmentOffset, Least(remaining, TailSize))
<1>1. pc = "loop" /\ FragmentEntry.start \in DOMAIN a.data
  BY DEF ReadFragment, InFragment, ReadDataBlockOK
<1>2. CASE Return("INVALID_FILE")
  BY <1>1, <1>2, ReturnKeeps
<1>3. CASE /\ Len(c) >= FragmentOffset
           /\ dest' = Copied(c, FragmentOffset, n)
           /\ remaining' = remaining - n
           /\ pc' = "done"
           /\ ret' = IF remaining' > 0 THEN "IO" ELSE "OK"
           /\ UNCHANGED <<a, request, block_idx, block_offset, position>>
  <2>1. c \in Seq(Nat) /\ Len(c) \in Nat
    BY <1>1, ArchiveFacts DEF IInv
  <2>2. FragmentOffset \in Nat /\ TailSize \in Nat
    BY ArchiveFacts DEF IInv, FragmentOffset, TailSize
  <2>3. n \in Nat /\ n <= remaining /\ FragmentOffset + n <= Len(c)
    <3> HIDE DEF c
    <3> QED BY <1>3, <2>1, <2>2 DEF IInv, Least
  <2> HIDE DEF c, n
  <2>4. dest' \in Seq(Nat) /\ Len(dest') = Len(dest) + n
    BY <1>3, <2>1, <2>2, <2>3, CopyLength DEF IInv, Copied
  <2>5. Asked' = Asked /\ Asked \in Nat
    BY <1>3, ArchiveFacts DEF IInv, Asked
  <2>6. remaining' \in Nat /\ Len(dest') + remaining' = Asked'
    <3>1. Len(dest) \in Nat /\ remaining \in Nat /\ Len(dest) + remaining = Asked
      BY <1>1 DEF IInv, Accounted
    <3> QED BY <3>1, <1>3, <2>3, <2>4, <2>5
  <2>7. Accounted'
    BY <1>3, <2>6 DEF Accounted
  <2> QED BY <1>3, <2>4, <2>6, <2>7 DEF IInv, InsideFile
<1> QED BY <1>2, <1>3 DEF ReadFragment

LEMMA StepKeeps ==
    ASSUME Covered, IInv, [Next]_vars
    PROVE  IInv'
<1>1. CASE ReturnEOF
  <2>1. Return("OK") /\ pc = "call" /\ remaining = 0 /\ Asked = 0
    BY <1>1 DEF ReturnEOF, IInv, Accounted, Asked
  <2> QED BY <2>1, ReturnKeeps
<1>2. CASE Locate
  BY <1>2, LocateKeeps
<1>3. CASE FragmentStep
  <2>1. CASE FragmentRejected
    BY <2>1, ReturnKeeps DEF FragmentRejected, InFragment
  <2>2. CASE FragmentReadFails
    BY <2>2, ReturnKeeps DEF FragmentReadFails, InFragment, ReadDataBlockFails
  <2>3. CASE ReadFragment
    BY <2>3, FragmentKeeps
  <2> QED BY <1>3, <2>1, <2>2, <2>3 DEF FragmentStep
<1>4. CASE BlockStep
  <2>1. CASE ReadSparse
    BY <2>1, SparseKeeps
  <2>2. CASE BlockRejected
    BY <2>2, ReturnKeeps DEF BlockRejected, InBlock
  <2>3. CASE BlockReadFails
    BY <2>3, ReturnKeeps DEF BlockReadFails, InBlock, ReadDataBlockFails
  <2>4. CASE ReadBlock
    BY <2>4, BlockKeeps
  <2> QED BY <1>4, <2>1, <2>2, <2>3, <2>4 DEF BlockStep
<1>5. CASE NothingLeftToRead
  BY <1>5, ReturnKeeps DEF NothingLeftToRead
<1>6. CASE Filled
  BY <1>6, ReturnKeeps DEF Filled
<1>7. CASE UNCHANGED vars
  BY <1>7 DEF vars, IInv, Accounted, InsideFile, Asked, BlockCount, InFragmentOnly, HasFragment
<1> QED BY <1>1, <1>2, <1>3, <1>4, <1>5, <1>6, <1>7 DEF Next

-----------------------------------------------------------------------------
(***************************************************************************)
(* What is copied.  The bytes are those of the file because the place in   *)
(* the image is that of the block (Placed) and the place in the file is    *)
(* that of the next byte asked for (Aligned), which holds as long as no    *)
(* stored block falls short; a block entered in the middle is the first.   *)
(***************************************************************************)
\* The first block alone may be entered in the middle.
FirstOnly ==
    pc = "loop" /\ block_offset # 0 =>
        block_idx = request.offset \div a.block_size /\ block_offset = request.offset % a.block_size
\* The place in the image is that of the block.
Placed ==
    /\ position \in Nat
    /\ pc = "loop" /\ block_idx <= BlockCount =>
          position = a.start_block + StoredSize[block_idx]
\* The place in the file is that of the next byte asked for.
Aligned ==
    BlocksInFull /\ pc = "loop" /\ remaining > 0 =>
        request.offset + Len(dest) = block_idx * a.block_size + block_offset
CopiedSoFar ==
    HoldsItsFile /\ ~StartsInsideTail /\ BlocksInFull =>
        \A i \in 1 .. Len(dest) : dest[i] = Byte(request.offset + i - 1)
NeverRefused == Sound /\ ~faulted => ret \in {"none", "OK"}
JInv == FirstOnly /\ Placed /\ Aligned /\ CopiedSoFar /\ NeverRefused

LEMMA BytesAdd ==
    ASSUME NEW d \in Seq(Nat), NEW c \in Seq(Nat), NEW from \in Nat, NEW n \in Nat,
           from + n <= Len(c), request.offset \in Nat,
           \A i \in 1 .. Len(d) : d[i] = Byte(request.offset + i - 1),
           \A j \in 1 .. n : c[from + j] = Byte(request.offset + Len(d) + j - 1)
    PROVE  \A i \in 1 .. Len(d \o SubSeq(c, from + 1, from + n)) :
              (d \o SubSeq(c, from + 1, from + n))[i] = Byte(request.offset + i - 1)
<1> TAKE i \in 1 .. Len(d \o SubSeq(c, from + 1, from + n))
<1> DEFINE s == SubSeq(c, from + 1, from + n)
<1>1. s \in Seq(Nat) /\ Len(s) = n /\ \A j \in 1 .. n : s[j] = c[from + j]
  OBVIOUS
<1>2. Len(d \o s) = Len(d) + n /\ Len(d) \in Nat
  <2>1. Len(d \o s) = Len(d) + n
    BY CopyLength, Zenon
  <2> QED BY <2>1
<1> HIDE DEF s
<1>3. i \in 1 .. Len(d) + n
  BY <1>2 DEF s
<1>4. CASE i <= Len(d)
  BY <1>1, <1>2, <1>3, <1>4 DEF s
<1>5. CASE i > Len(d)
  <2> DEFINE j == i - Len(d)
  <2>0. ASSUME NEW l \in Nat, NEW o \in Nat, NEW k \in 1 .. l + n, k > l
        PROVE  k - l \in 1 .. n /\ k = l + (k - l) /\ o + l + (k - l) - 1 = o + k - 1
    BY <2>0
  <2>1. j \in 1 .. n /\ i = Len(d) + j /\ request.offset + Len(d) + j - 1 = request.offset + i - 1
    BY <1>2, <1>3, <1>5, <2>0
  <2> HIDE DEF j
  <2>2. (d \o s)[i] = s[j]
    <3>1. ASSUME NEW q \in Seq(Nat), NEW k \in 1 .. Len(q)
          PROVE  (d \o q)[Len(d) + k] = q[k]
      OBVIOUS
    <3>2. (d \o s)[Len(d) + j] = s[j]
      BY <1>1, <2>1, <3>1
    <3> QED BY <2>1, <3>2, Zenon
  <2>3. s[j] = c[from + j]
    BY <1>1, <2>1
  <2> QED BY <2>1, <2>2, <2>3 DEF s
<1>6. i <= Len(d) \/ i > Len(d)
  BY <1>2, <1>3
<1> QED BY <1>4, <1>5, <1>6, Zenon

\* The loop is left: nothing is copied, and the place no longer matters.
LEMMA ReturnMoves ==
    ASSUME JInv, NEW e, Return(e), Sound /\ ~faulted' => e = "OK"
    PROVE  JInv'
<1>1. /\ UNCHANGED <<a, request, block_idx, block_offset, position, dest>>
      /\ pc' = "done" /\ ret' = e
  BY DEF Return
<1>2. FirstOnly' /\ Placed' /\ Aligned'
  BY <1>1, SameArchive DEF JInv, FirstOnly, Placed, Aligned
<1>3. CopiedSoFar'
  BY <1>1, SameArchive DEF JInv, CopiedSoFar
<1>4. NeverRefused'
  BY <1>1, SameArchive DEF NeverRefused
<1> QED BY <1>2, <1>3, <1>4 DEF JInv

LEMMA LocateMoves ==
    ASSUME Counted, Covered, IInv, JInv, Locate
    PROVE  JInv'
<1>1. /\ UNCHANGED <<a, request, dest, faulted, ret>> /\ pc = "call" /\ pc' = "loop"
      /\ block_idx' = request.offset \div a.block_size
      /\ block_offset' = request.offset % a.block_size
      /\ position' = a.start_block + StoredSize[Least(block_idx', BlockCount)]
  BY DEF Locate
<1>2. /\ block_idx' \in Nat /\ block_offset' \in Nat
      /\ a.block_size * block_idx' + block_offset' = request.offset
      /\ a.block_size * block_idx' = block_idx' * a.block_size
  <2>1. block_idx' \in Nat /\ block_offset' \in Nat
        /\ a.block_size * block_idx' + block_offset' = request.offset
    <3>1. request.offset \in Nat /\ a.block_size \in Nat \ {0}
      BY ArchiveFacts DEF IInv
    <3> DEFINE b == a.block_size
               o == request.offset
    <3>2. o \div b \in Nat /\ o % b \in 0 .. b - 1 /\ b * (o \div b) + (o % b) = o
      BY <3>1, Division
    <3>3. block_idx' = o \div b /\ block_offset' = o % b
      BY <1>1
    <3> HIDE DEF b, o
    <3>4. block_idx' \in Nat /\ block_offset' \in Nat /\ b * block_idx' + block_offset' = o
      BY <3>1, <3>2, <3>3 DEF b
    <3> QED BY <3>4 DEF b, o
  <2>2. a.block_size \in Nat
    BY ArchiveFacts DEF IInv
  <2> QED BY <2>1, <2>2, Products
<1>3. dest = <<>> /\ ret = "none"
  BY <1>1 DEF IInv, Accounted
<1>4. BlockCount \in Nat /\ BlockCount <= Len(a.block_list) /\ a.start_block \in Nat
      /\ Len(a.block_list) \in Nat
  <2>1. a.block_list \in Seq([size : Nat, comp : BOOLEAN]) /\ a.start_block \in Nat
    BY ArchivesAssumption DEF IInv
  <2> QED BY <2>1, Counts DEF IInv, Covered
<1>5. Placed'
  <2>1. Least(block_idx', BlockCount) \in 0 .. Len(a.block_list)
    BY <1>2, <1>4 DEF Least
  <2>2. StoredSize[Least(block_idx', BlockCount)] \in Nat
    BY <2>1, StoredSizes DEF IInv
  <2>3. block_idx' <= BlockCount => Least(block_idx', BlockCount) = block_idx'
    BY DEF Least
  <2> QED BY <1>1, <1>4, <2>2, <2>3, SameArchive DEF Placed
<1>6. FirstOnly'
  BY <1>1, SameArchive DEF FirstOnly, JInv
<1>7. Aligned'
  <2>1. Len(dest') = 0
    BY <1>1, <1>3
  <2>2. request'.offset + Len(dest') = block_idx' * a'.block_size + block_offset'
    BY <1>1, <1>2, <2>1, ArchiveFacts DEF IInv
  <2> QED BY <2>2 DEF Aligned
<1>8. CopiedSoFar' /\ NeverRefused'
  BY <1>1, <1>3 DEF CopiedSoFar, NeverRefused
<1> QED BY <1>5, <1>6, <1>7, <1>8 DEF JInv

\* One iteration over a data block, of which n bytes are copied: if it is in
\* full and n is less than what remains, they are all that are left of it.
LEMMA NextBlockMoves ==
    ASSUME Counted, Covered, IInv, JInv, InBlock, NEW c \in Seq(Nat), NEW n \in Nat,
           n <= remaining, block_offset + n <= Len(c), NextBlock(c, n),
           BlocksInFull => Len(c) = BlockLength /\ (n < remaining => block_offset + n = Len(c)),
           HoldsItsFile /\ BlocksInFull =>
               \A j \in 1 .. n :
                   c[block_offset + j] = Byte(block_idx * a.block_size + block_offset + j - 1)
    PROVE  JInv'
<1>1. /\ UNCHANGED <<a, request, pc, faulted, ret>> /\ pc = "loop" /\ remaining > 0
      /\ block_idx < BlockCount
      /\ dest' = Copied(c, block_offset, n) /\ remaining' = remaining - n
      /\ position' = position + Block.size /\ block_idx' = block_idx + 1 /\ block_offset' = 0
  BY DEF NextBlock, InBlock
<1>2. /\ a \in Archives /\ request \in Requests
      /\ block_idx \in Nat /\ block_offset \in Nat /\ remaining \in Nat /\ dest \in Seq(Nat)
      /\ a.block_size \in Nat \ {0} /\ a.file_size \in Nat /\ request.offset \in Nat
      /\ Len(dest) \in Nat
  BY ArchiveFacts DEF IInv
<1>3. /\ BlockCount \in Nat /\ block_idx + 1 \in 1 .. Len(a.block_list)
      /\ block_idx + 1 \in 0 .. Len(a.block_list) /\ block_idx \in 0 .. Len(a.block_list)
  <2>1. a.block_list \in Seq([size : Nat, comp : BOOLEAN])
    BY <1>2, ArchivesAssumption
  <2>2. BlockCount \in Nat /\ BlockCount <= Len(a.block_list) /\ Len(a.block_list) \in Nat
    BY <1>2, <2>1, Counts DEF Covered
  <2> QED BY <1>1, <1>2, <2>2
<1>4. Placed'
  <2>1. Block.size \in Nat /\ Block = a.block_list[block_idx + 1]
    BY <1>2, <1>3, ListFacts DEF Block
  <2>2. position \in Nat /\ position = a.start_block + StoredSize[block_idx]
    BY <1>1, <1>2, <1>3 DEF JInv, Placed
  <2>3. /\ StoredSize[block_idx + 1] = StoredSize[block_idx] + Block.size
        /\ StoredSize[block_idx] \in Nat
    <3>1. StoredSize[block_idx + 1] = StoredSize[(block_idx + 1) - 1] + a.block_list[block_idx + 1].size
      BY <1>2, <1>3, StoredSizes
    <3>2. (block_idx + 1) - 1 = block_idx
      BY <1>2
    <3> QED BY <1>2, <1>3, <2>1, <3>1, <3>2, StoredSizes
  <2>4. a.start_block \in Nat
    BY <1>2, ArchivesAssumption
  <2>5. position' = a.start_block + StoredSize[block_idx'] /\ position' \in Nat
    BY <1>1, <2>1, <2>2, <2>3, <2>4
  <2> QED BY <1>1, <2>5, SameArchive DEF Placed
<1>5. FirstOnly'
  BY <1>1, SameArchive DEF FirstOnly, JInv
<1>6. dest' \in Seq(Nat) /\ Len(dest') = Len(dest) + n
  BY <1>1, <1>2, CopyLength DEF Copied
<1>7. Aligned'
  <2> DEFINE at == block_idx * a.block_size
  <2>2. at \in Nat /\ (block_idx + 1) * a.block_size = at + a.block_size
    BY <1>2, Products
  <2> SUFFICES ASSUME BlocksInFull, remaining' > 0
               PROVE  request.offset + Len(dest') = at + a.block_size
    <3>1. block_idx' * a'.block_size + block_offset' = at + a.block_size
      BY <1>1, <1>2, <2>2
    <3>2. BlocksInFull' = BlocksInFull
      BY <1>1, SameArchive
    <3> QED BY <1>1, <3>1, <3>2 DEF Aligned
  <2>1. n < remaining /\ block_offset + n = BlockLength
    <3>1. n < remaining
      BY <1>1, <1>2
    <3> QED BY <3>1
  <2>3. request.offset + Len(dest) = at + block_offset
    BY <1>1 DEF JInv, Aligned
  <2>4. Len(dest) + remaining = Asked /\ Asked <= a.file_size - request.offset
    <3>1. Asked <= a.file_size - request.offset \/ Asked = 0
      BY <1>2, ArchiveFacts DEF Asked, Least
    <3>2. Len(dest) + remaining = Asked
      BY <1>1 DEF IInv, Accounted
    <3>3. Asked # 0
      BY <1>1, <1>2, <3>2
    <3> QED BY <3>1, <3>2, <3>3
  <2>5. BlockLength = Least(a.block_size, a.file_size - at)
    BY DEF BlockLength
  <2>7. Len(dest) + remaining <= a.file_size - request.offset
    BY <2>4
  <2>8. block_offset + n = Least(a.block_size, a.file_size - at)
    BY <2>1, <2>5
  <2> HIDE DEF at
  <2>9. request.offset + (Len(dest) + n) = at + a.block_size
    <3> DEFINE b == a.block_size
               f == a.file_size
               o == request.offset
               l == Len(dest)
    <3>1. /\ at \in Nat /\ b \in Nat /\ f \in Nat /\ o \in Nat /\ l \in Nat
          /\ block_offset \in Nat /\ remaining \in Nat /\ o + l = at + block_offset
          /\ l + remaining <= f - o /\ n < remaining /\ block_offset + n = Least(b, f - at)
      BY <1>2, <2>1, <2>2, <2>3, <2>7, <2>8
    <3> HIDE DEF b, f, o, l
    <3>2. o + (l + n) = at + b
      BY <3>1 DEF Least
    <3> QED BY <3>2 DEF b, f, o, l
  <2> QED BY <1>6, <2>9
<1>8. CopiedSoFar'
  <2> SUFFICES ASSUME HoldsItsFile, ~StartsInsideTail, BlocksInFull, NEW i \in 1 .. Len(dest')
               PROVE  dest'[i] = Byte(request.offset + i - 1)
    BY <1>1, SameArchive DEF CopiedSoFar
  <2>1. \A k \in 1 .. Len(dest) : dest[k] = Byte(request.offset + k - 1)
    BY DEF JInv, CopiedSoFar
  <2>2. request.offset + Len(dest) = block_idx * a.block_size + block_offset
    BY <1>1 DEF JInv, Aligned
  <2>3. \A j \in 1 .. n : c[block_offset + j] = Byte(request.offset + Len(dest) + j - 1)
    BY <2>2
  <2>4. dest' = dest \o SubSeq(c, block_offset + 1, block_offset + n)
    BY <1>1 DEF Copied
  <2>5. \A k \in 1 .. Len(dest \o SubSeq(c, block_offset + 1, block_offset + n)) :
           (dest \o SubSeq(c, block_offset + 1, block_offset + n))[k] = Byte(request.offset + k - 1)
    <3> DEFINE d == dest
               from == block_offset
    <3>1. /\ d \in Seq(Nat) /\ from \in Nat /\ from + n <= Len(c) /\ request.offset \in Nat
          /\ \A k \in 1 .. Len(d) : d[k] = Byte(request.offset + k - 1)
          /\ \A j \in 1 .. n : c[from + j] = Byte(request.offset + Len(d) + j - 1)
      BY <1>2, <2>1, <2>3
    <3> HIDE DEF d, from
    <3>2. \A k \in 1 .. Len(d \o SubSeq(c, from + 1, from + n)) :
             (d \o SubSeq(c, from + 1, from + n))[k] = Byte(request.offset + k - 1)
      BY <3>1, BytesAdd
    <3> QED BY <3>2 DEF d, from
  <2> QED BY <2>4, <2>5
<1>9. NeverRefused'
  BY <1>1, SameArchive DEF JInv, NeverRefused
<1> QED BY <1>4, <1>5, <1>7, <1>8, <1>9 DEF JInv

LEMMA SoundIsInFull ==
    ASSUME Sound
    PROVE  BlocksInFull
<1> SUFFICES ASSUME NEW k \in 1 .. BlockCount, IsStored(k)
             PROVE  Len(a.data[BlockAt(k)]) = Share(k)
  BY DEF BlocksInFull
<1>1. ~IsHole(k)
  <2>1. a.block_list[k].size # 0
    BY DEF IsStored
  <2> QED BY <2>1 DEF IsHole
<1> QED BY <1>1 DEF Sound

\* Inside the loop: where the next byte is, and that it is inside the file.
LEMMA InLoop ==
    ASSUME IInv, JInv, pc = "loop", remaining > 0, BlocksInFull
    PROVE  LET at == block_idx * a.block_size IN
           /\ at \in Nat
           /\ request.offset + Len(dest) = at + block_offset
           /\ remaining <= a.file_size - (at + block_offset)
           /\ at + block_offset < a.file_size
<1> DEFINE at == block_idx * a.block_size
           l == Len(dest)
           o == request.offset
           f == a.file_size
<1>1. at \in Nat /\ o \in Nat /\ f \in Nat /\ l \in Nat /\ remaining \in Nat
      /\ block_offset \in Nat
  BY ArchiveFacts, Products DEF IInv
<1>2. o + l = at + block_offset
  BY DEF JInv, Aligned
<1>3. l + remaining = Asked
  BY DEF IInv, Accounted
<1>4. Asked = 0 \/ Asked <= f - o
  BY <1>1, ArchiveFacts DEF Asked, Least, IInv
<1> HIDE DEF at, l, o, f
<1>5. remaining <= f - (at + block_offset) /\ at + block_offset < f
  BY <1>1, <1>2, <1>3, <1>4
<1> QED BY <1>1, <1>2, <1>5 DEF at, l, o, f

\* The block of the place, as the archive describes it.
LEMMA BlockFacts ==
    ASSUME Counted, Covered, IInv, JInv, InBlock
    PROVE  /\ pc = "loop" /\ block_idx < BlockCount
           /\ block_idx + 1 \in 1 .. BlockCount /\ block_idx + 1 \in 1 .. Len(a.block_list)
           /\ (block_idx + 1) - 1 = block_idx
           /\ Block = a.block_list[block_idx + 1] /\ Block \in [size : Nat, comp : BOOLEAN]
           /\ Sparse <=> IsHole(block_idx + 1)
           /\ BlockAt(block_idx + 1) = position
           /\ Share(block_idx + 1) = BlockLength
           /\ BlockLength \in Nat /\ block_offset < BlockLength /\ BlockLength <= a.block_size
<1>1. pc = "loop" /\ block_idx < BlockCount /\ block_idx \in Nat
  BY DEF InBlock, IInv
<1>2. BlockCount \in Nat /\ BlockCount <= Len(a.block_list) /\ Len(a.block_list) \in Nat
  <2>1. a.block_list \in Seq([size : Nat, comp : BOOLEAN])
    BY ArchivesAssumption DEF IInv
  <2> QED BY <2>1, Counts DEF IInv, Covered
<1>3. block_idx + 1 \in 1 .. BlockCount /\ block_idx + 1 \in 1 .. Len(a.block_list)
      /\ (block_idx + 1) - 1 = block_idx
  BY <1>1, <1>2
<1>4. Block = a.block_list[block_idx + 1] /\ Block \in [size : Nat, comp : BOOLEAN]
  BY <1>3, ListFacts DEF Block, IInv
<1>5. Sparse <=> IsHole(block_idx + 1)
  <2>1. ASSUME NEW r \in [size : Nat, comp : BOOLEAN]
        PROVE  (r.size = 0 /\ r.comp) <=> r = [size |-> 0, comp |-> TRUE]
    OBVIOUS
  <2> QED BY <1>4, <2>1 DEF Sparse, IsHole
<1>6. BlockAt(block_idx + 1) = position
  BY <1>1, <1>2, <1>3 DEF BlockAt, JInv, Placed
<1>7. Share(block_idx + 1) = BlockLength
  BY <1>3 DEF Share, BlockLength
<1>8. BlockLength \in Nat /\ block_offset < BlockLength /\ BlockLength <= a.block_size
  <2>1. /\ block_idx * a.block_size \in Nat
        /\ block_idx * a.block_size + block_offset < a.file_size
    BY <1>1, ArchiveFacts, Products DEF IInv, InsideFile
  <2> QED BY <2>1, ArchiveFacts DEF IInv, BlockLength, Least
<1> QED BY <1>1, <1>3, <1>4, <1>5, <1>6, <1>7, <1>8

LEMMA SparseMoves ==
    ASSUME Counted, Covered, IInv, JInv, ReadSparse
    PROVE  JInv'
<1> DEFINE c == [i \in 1 .. BlockLength |-> 0]
           n == Least(remaining, BlockLength - block_offset)
<1>1. InBlock /\ Sparse /\ NextBlock(c, n)
  BY DEF ReadSparse
<1>2. BlockLength \in Nat /\ block_offset < BlockLength /\ BlockLength <= a.block_size
      /\ block_offset \in Nat /\ remaining \in Nat /\ block_idx \in Nat
      /\ a.block_size \in Nat \ {0}
  BY <1>1, BlockFacts, ArchiveFacts DEF IInv
<1>3. n \in Nat /\ n <= remaining /\ block_offset + n <= BlockLength
      /\ (n < remaining => block_offset + n = BlockLength)
  BY <1>2 DEF Least
<1>4. c \in Seq(Nat) /\ Len(c) = BlockLength /\ \A i \in 1 .. BlockLength : c[i] = 0
  BY <1>2
<1> HIDE DEF c, n
<1>5. ASSUME NEW j \in 1 .. n
      PROVE  c[block_offset + j] = Byte(block_idx * a.block_size + block_offset + j - 1)
  <2> DEFINE b == a.block_size
             at == block_idx * b
             r == block_offset + j - 1
             i == at + r
  <2>1. r \in 0 .. b - 1 /\ block_offset + j \in 1 .. BlockLength
    BY <1>2, <1>3
  <2>2. at \in Nat /\ b * block_idx = at /\ b \in Nat \ {0}
    BY <1>2, Products
  <2> HIDE DEF b, at, r
  <2>3. i \in Nat /\ i = b * block_idx + r
    BY <2>1, <2>2
  <2> HIDE DEF i
  <2>4. i \div b = block_idx
    <3>1. i \div b \in Nat /\ i % b \in 0 .. b - 1 /\ b * (i \div b) + (i % b) = i
      BY <2>2, <2>3, Division
    <3> DEFINE q == i \div b
               m == i % b
    <3>2. q \in Int /\ m \in 0 .. b - 1 /\ b * q + m = b * block_idx + r /\ block_idx \in Int
      BY <1>2, <2>3, <3>1
    <3> HIDE DEF q, m
    <3>3. q = block_idx
      BY <2>1, <2>2, <3>2, QuotientIsUnique
    <3> QED BY <3>3 DEF q
  <2>5. Byte(i) = 0
    <3>1. block_idx + 1 \in DOMAIN a.block_list /\ IsHole(block_idx + 1)
      <4>1. a.block_list \in Seq([size : Nat, comp : BOOLEAN])
        BY ArchivesAssumption DEF IInv
      <4> QED BY <1>1, <4>1, BlockFacts
    <3> QED BY <2>4, <3>1 DEF Byte, IsHole, b
  <2>6. i = block_idx * a.block_size + block_offset + j - 1
    <3>1. block_offset \in Nat /\ j \in Nat
      BY <1>2, <1>3
    <3> QED BY <2>2, <3>1 DEF i, r, at, b
  <2> QED BY <1>4, <2>1, <2>5, <2>6
<1> QED BY <1>1, <1>3, <1>4, <1>5, NextBlockMoves

LEMMA BlockMoves ==
    ASSUME Counted, Covered, IInv, JInv, ReadBlock
    PROVE  JInv'
<1> DEFINE c == a.data[position]
           n == Least(Len(c) - block_offset, Least(remaining, BlockLength))
           k == block_idx + 1
<1>1. InBlock /\ ~Sparse /\ Block.size \in 1 .. a.block_size /\ position \in DOMAIN a.data
  BY DEF ReadBlock, ReadDataBlockOK
<1>2. k \in 1 .. BlockCount /\ IsStored(k) /\ a.data[BlockAt(k)] = c
      /\ k - 1 = block_idx /\ Share(k) = BlockLength
  BY <1>1, BlockFacts DEF IsStored
<1>3. c \in Seq(Nat) /\ Len(c) \in Nat
  BY <1>1, ArchiveFacts DEF IInv
<1>4. BlocksInFull => Len(c) = BlockLength
  BY <1>2 DEF BlocksInFull
<1>5. BlockLength \in Nat /\ block_offset < BlockLength /\ remaining \in Nat
      /\ block_offset \in Nat
  BY <1>1, BlockFacts DEF IInv
<1>6. CASE Return("INVALID_FILE") /\ Len(c) < block_offset /\ UNCHANGED faulted
  <2>1. ~Sound
    BY <1>4, <1>5, <1>6, SoundIsInFull
  <2> QED BY <1>6, <2>1, ReturnMoves
<1>7. CASE Len(c) >= block_offset /\ NextBlock(c, n)
  <2>1. HoldsItsFile =>
           \A i \in DOMAIN c : c[i] = Byte(block_idx * a.block_size + i - 1)
    BY <1>2 DEF HoldsItsFile
  <2> HIDE DEF c
  <2>2. n \in Nat /\ n <= remaining /\ block_offset + n <= Len(c)
    BY <1>3, <1>5, <1>7 DEF Least
  <2>3. BlocksInFull => Len(c) = BlockLength /\ (n < remaining => block_offset + n = Len(c))
    BY <1>3, <1>4, <1>5 DEF Least
  <2>4. NextBlock(c, n)
    BY <1>7
  <2> HIDE DEF n
  <2>5. ASSUME HoldsItsFile, NEW j \in 1 .. n
        PROVE  c[block_offset + j] = Byte(block_idx * a.block_size + block_offset + j - 1)
    <3>1. block_offset + j \in DOMAIN c
      BY <1>3, <1>5, <2>2
    <3>2. block_idx * a.block_size \in Nat
      BY ArchiveFacts, Products DEF IInv
    <3>3. block_idx * a.block_size + (block_offset + j) - 1
            = block_idx * a.block_size + block_offset + j - 1
      BY <1>5, <2>2, <3>2
    <3> QED BY <2>1, <2>5, <3>1, <3>3
  <2> QED BY <1>1, <1>3, <2>2, <2>3, <2>4, <2>5, NextBlockMoves
<1> QED BY <1>6, <1>7 DEF ReadBlock

\* The shorter of three lengths, and how it compares with each of them.
LEMMA LeastOfThree ==
    ASSUME NEW l \in Nat, NEW from \in Nat, NEW r \in Nat, NEW t \in Nat, l >= from
    PROVE  LET n == Least(l - from, Least(r, t)) IN
           /\ n \in Nat /\ n <= r /\ n <= t /\ from + n <= l
           /\ n < r => n = l - from \/ n = t
BY DEF Least

\* The fragment block, as the archive describes it: from where the code reads
\* it, it holds the bytes of the file from the place the call has come to.
LEMMA FragmentMoves ==
    ASSUME Counted, Covered, IInv, JInv, ReadFragment
    PROVE  JInv'
<1> DEFINE c == a.data[FragmentEntry.start]
           n == Least(Len(c) - FragmentOffset, Least(remaining, TailSize))
           at == block_idx * a.block_size
           f == a.file_size
           skip == IF InFragmentOnly THEN block_offset ELSE 0
<1>1. /\ pc = "loop" /\ remaining > 0 /\ HasFragment /\ (InFragmentOnly \/ block_idx = BlockCount)
      /\ FragmentListed /\ FragmentEntry.start \in DOMAIN a.data
  BY DEF ReadFragment, InFragment, ReadDataBlockOK
<1>2. /\ a.offset \in Nat /\ block_offset \in Nat /\ remaining \in Nat /\ f \in Nat
      /\ block_idx \in Nat /\ a.block_size \in Nat \ {0} /\ request.offset \in Nat
      /\ dest \in Seq(Nat) /\ Len(dest) \in Nat
  BY ArchiveFacts DEF IInv
<1>3. c \in Seq(Nat) /\ Len(c) \in Nat
  BY <1>1, ArchiveFacts DEF IInv
<1>4. TailSize \in Nat /\ (InFragmentOnly => TailSize = f)
  <2>1. ASSUME NEW x \in Nat, NEW y \in Nat \ {0} PROVE x % y \in Nat
    BY Division
  <2> QED BY <1>2, <2>1 DEF TailSize
<1>5. FragmentOffset = a.offset + skip /\ FragmentOffset \in Nat /\ skip \in Nat
  BY <1>2 DEF FragmentOffset
<1>6. HoldsItsFile =>
         \A i \in 1 .. TailSize : a.offset + i \in DOMAIN c => c[a.offset + i] = Byte(f - TailSize + i - 1)
  BY <1>1 DEF HoldsItsFile
<1>7. at \in Nat /\ BlockCount \in Nat
      /\ (HasFragment /\ ~InFragmentOnly => BlockCount * a.block_size + TailSize = f)
  BY <1>2, Counts, Products DEF IInv
<1>8. Sound => Len(c) >= a.offset + TailSize
  BY <1>1 DEF Sound
\* The place is before the end, by no more than what remains.
<1>9. ASSUME BlocksInFull
      PROVE  /\ request.offset + Len(dest) = at + block_offset
             /\ remaining <= f - (at + block_offset) /\ at + block_offset < f
  BY <1>1, <1>9, InLoop
<1>10. ASSUME BlocksInFull
       PROVE  remaining <= TailSize - skip /\ skip <= TailSize
  <2>1. CASE InFragmentOnly
    BY <1>2, <1>4, <1>7, <1>9, <1>10, <2>1
  <2>2. CASE ~InFragmentOnly
    <3>1. at + TailSize = f
      BY <1>1, <1>7, <2>2
    <3> HIDE DEF at, f
    <3>2. remaining <= TailSize /\ skip = 0
      BY <1>2, <1>4, <1>7, <1>9, <1>10, <2>2, <3>1
    <3> QED BY <1>2, <1>4, <3>2
  <2> QED BY <2>1, <2>2
<1>11. ASSUME BlocksInFull, ~StartsInsideTail
       PROVE  f - TailSize + skip = request.offset + Len(dest)
  <2>1. CASE InFragmentOnly
    <3>1. block_idx = 0
      <4>1. f <= a.block_size /\ at < a.block_size
        BY <1>2, <1>7, <1>9, <1>11, <2>1 DEF InFragmentOnly
      <4>2. ASSUME NEW x \in Nat, NEW b \in Nat, x * b < b PROVE x = 0
        <5>1. CASE x = 0
          BY <5>1
        <5>2. CASE x # 0
          <6>1. x - 1 \in Nat /\ ((x - 1) + 1) * b = (x - 1) * b + b /\ (x - 1) * b \in Nat
            BY <5>2, Products
          <6>2. (x - 1) + 1 = x
            OBVIOUS
          <6> DEFINE y == (x - 1) * b
                     z == x * b
          <6>3. z = y + b /\ y \in Nat /\ z < b
            BY <4>2, <6>1, <6>2
          <6> HIDE DEF y, z
          <6> QED BY <6>3
        <5> QED BY <5>1, <5>2
      <4> QED BY <1>2, <4>1, <4>2
    <3>2. at = 0
      BY <1>2, <3>1
    <3> HIDE DEF at, f
    <3> QED BY <1>2, <1>4, <1>9, <1>11, <2>1, <3>2
  <2>2. CASE ~InFragmentOnly
    <3>1. block_idx = BlockCount /\ at + TailSize = f
      BY <1>1, <1>7, <2>2
    <3>2. block_offset = 0
      BY <1>1, <1>11, <2>2, <3>1 DEF JInv, FirstOnly, StartsInsideTail
    <3> HIDE DEF at, f
    <3> QED BY <1>2, <1>4, <1>7, <1>9, <1>11, <2>2, <3>1, <3>2
  <2> QED BY <2>1, <2>2
<1>12. CASE Return("INVALID_FILE") /\ Len(c) < FragmentOffset /\ UNCHANGED faulted
  <2>1. ~Sound
    <3> SUFFICES ASSUME Sound PROVE FALSE
      OBVIOUS
    <3>1. skip <= TailSize
      BY <1>10, SoundIsInFull
    <3> HIDE DEF c, skip
    <3> QED BY <1>2, <1>3, <1>4, <1>5, <1>8, <1>12, <3>1
  <2> QED BY <1>12, <2>1, ReturnMoves
<1>13. CASE /\ Len(c) >= FragmentOffset
            /\ dest' = Copied(c, FragmentOffset, n)
            /\ remaining' = remaining - n
            /\ pc' = "done"
            /\ ret' = IF remaining' > 0 THEN "IO" ELSE "OK"
            /\ UNCHANGED <<a, request, block_idx, block_offset, position, faulted>>
  <2> HIDE DEF c, skip, f
  <2>1. n \in Nat /\ n <= remaining /\ n <= TailSize /\ FragmentOffset + n <= Len(c)
        /\ (n < remaining => n = Len(c) - FragmentOffset \/ n = TailSize)
    <3> DEFINE from == FragmentOffset
               t == TailSize
               l == Len(c)
    <3>1. l \in Nat /\ from \in Nat /\ remaining \in Nat /\ t \in Nat /\ l >= from
      BY <1>2, <1>3, <1>4, <1>5, <1>13
    <3>2. n = Least(l - from, Least(remaining, t))
      OBVIOUS
    <3> HIDE DEF n, from, t, l
    <3>3. n \in Nat /\ n <= remaining /\ n <= t /\ from + n <= l
          /\ (n < remaining => n = l - from \/ n = t)
      BY <3>1, <3>2, LeastOfThree
    <3> QED BY <3>3 DEF from, t, l
  <2>2. FirstOnly' /\ Placed' /\ Aligned'
    BY <1>13, SameArchive DEF JInv, FirstOnly, Placed, Aligned
  <2>3. dest' = dest \o SubSeq(c, FragmentOffset + 1, FragmentOffset + n)
    BY <1>13 DEF Copied
  <2>4. NeverRefused'
    <3> SUFFICES ASSUME Sound, ~faulted PROVE remaining' = 0
      <4>1. Sound' = Sound /\ faulted' = faulted
        BY <1>13, SameArchive
      <4>2. ret' = IF remaining' > 0 THEN "IO" ELSE "OK"
        BY <1>13
      <4>3. ret' = "OK" \/ ~(remaining' = 0)
        BY <4>2
      <4> QED BY <4>1, <4>3, Zenon DEF NeverRefused
    <3>1. remaining <= TailSize - skip /\ Len(c) >= a.offset + TailSize
      BY <1>8, <1>10, SoundIsInFull
    <3>2. remaining' = remaining - n
      BY <1>13
    <3> DEFINE t == TailSize
               l == Len(c)
               from == FragmentOffset
               off == a.offset
    <3>3. /\ t \in Nat /\ l \in Nat /\ off \in Nat /\ skip \in Nat /\ remaining \in Nat
          /\ n \in Nat /\ n <= remaining /\ (n < remaining => n = l - from \/ n = t)
          /\ from = off + skip /\ remaining <= t - skip /\ l >= off + t
      BY <1>2, <1>3, <1>4, <1>5, <2>1, <3>1
    <3> HIDE DEF n, t, l, from, off
    <3>4. n = remaining
      BY <3>3
    <3> QED BY <3>2, <3>3, <3>4
  <2> HIDE DEF n, at
  <2>5. CopiedSoFar'
    <3> SUFFICES ASSUME HoldsItsFile, ~StartsInsideTail, BlocksInFull
                 PROVE  \A i \in 1 .. Len(dest') : dest'[i] = Byte(request.offset + i - 1)
      BY <1>13, SameArchive DEF CopiedSoFar
    <3>1. \A k \in 1 .. Len(dest) : dest[k] = Byte(request.offset + k - 1)
      BY DEF JInv, CopiedSoFar
    <3>2. ASSUME NEW j \in 1 .. n
          PROVE  c[FragmentOffset + j] = Byte(request.offset + Len(dest) + j - 1)
      <4>1. skip + j \in 1 .. TailSize
        <5> DEFINE t == TailSize
        <5>1. /\ t \in Nat /\ skip \in Nat /\ remaining \in Nat /\ n \in Nat
              /\ n <= remaining /\ remaining <= t - skip /\ j \in 1 .. n
          BY <1>2, <1>4, <1>5, <1>10, <2>1
        <5> HIDE DEF t
        <5>2. skip + j \in 1 .. t
          BY <5>1
        <5> QED BY <5>2 DEF t
      <4>2. FragmentOffset + j = a.offset + (skip + j) /\ FragmentOffset + j \in DOMAIN c
        <5> DEFINE from == FragmentOffset
                   off == a.offset
                   l == Len(c)
        <5>1. from \in Nat /\ off \in Nat /\ skip \in Nat /\ from = off + skip /\ n \in Nat
              /\ j \in 1 .. n /\ from + n <= l /\ l \in Nat
          BY <1>2, <1>3, <1>5, <2>1
        <5>2. DOMAIN c = 1 .. l
          BY <1>3
        <5> HIDE DEF from, off, l
        <5>3. from + j = off + (skip + j) /\ from + j \in 1 .. l
          BY <5>1
        <5> QED BY <5>2, <5>3 DEF from, off
      <4>3. c[a.offset + (skip + j)] = Byte(f - TailSize + (skip + j) - 1)
        BY <1>6, <4>1, <4>2
      <4>4. f - TailSize + (skip + j) - 1 = request.offset + Len(dest) + j - 1
        BY <1>2, <1>4, <1>5, <1>11, <2>1
      <4> QED BY <4>2, <4>3, <4>4
    <3> DEFINE d == dest
               from == FragmentOffset
    <3>3. /\ d \in Seq(Nat) /\ from \in Nat /\ from + n <= Len(c) /\ request.offset \in Nat
          /\ \A k \in 1 .. Len(d) : d[k] = Byte(request.offset + k - 1)
          /\ \A j \in 1 .. n : c[from + j] = Byte(request.offset + Len(d) + j - 1)
      BY <1>2, <1>5, <2>1, <3>1, <3>2
    <3> HIDE DEF d, from
    <3>4. \A k \in 1 .. Len(d \o SubSeq(c, from + 1, from + n)) :
             (d \o SubSeq(c, from + 1, from + n))[k] = Byte(request.offset + k - 1)
      BY <1>3, <2>1, <3>3, BytesAdd
    <3> QED BY <2>3, <3>4 DEF d, from
  <2> QED BY <2>2, <2>4, <2>5 DEF JInv
<1> QED BY <1>12, <1>13 DEF ReadFragment

\* Nothing is left to read only when the archive is not sound.
LEMMA NothingLeft ==
    ASSUME Counted, Covered, IInv, JInv, NothingLeftToRead
    PROVE  ~Sound
<1> SUFFICES ASSUME Sound PROVE FALSE
  OBVIOUS
<1> DEFINE at == block_idx * a.block_size
           b == a.block_size
           f == a.file_size
           end == BlockCount * b
<1>1. pc = "loop" /\ remaining > 0 /\ block_idx >= BlockCount
      /\ ~(HasFragment /\ (InFragmentOnly \/ block_idx = BlockCount))
  BY DEF NothingLeftToRead, InFragment
<1>2. /\ b \in Nat \ {0} /\ f \in Nat /\ block_idx \in Nat /\ BlockCount \in Nat
      /\ block_offset \in Nat
      /\ (HasFragment /\ ~InFragmentOnly => end + TailSize = f) /\ (~HasFragment => end >= f)
  BY ArchiveFacts, Counts DEF IInv
<1>3. at \in Nat /\ at + block_offset < f
  BY <1>1, InLoop, SoundIsInFull
<1>4. ASSUME NEW x \in Nat, NEW y \in Nat, x <= y, NEW w \in Nat PROVE x * w <= y * w
  <2>1. y - x \in Nat /\ y = x + (y - x)
    BY <1>4
  <2>2. (x + (y - x)) * w = x * w + (y - x) * w /\ (y - x) * w >= 0
    BY <2>1, Z3
  <2>3. x * w \in Nat /\ (y - x) * w \in Nat
    BY <2>1
  <2> DEFINE p == x * w
             q == (y - x) * w
  <2>4. y * w = p + q /\ p \in Nat /\ q \in Nat
    BY <2>1, <2>2, <2>3
  <2> HIDE DEF p, q
  <2>5. p <= y * w
    BY <2>4
  <2> QED BY <2>5 DEF p
<1>5. CASE ~HasFragment
  <2>1. end <= at
    BY <1>1, <1>2, <1>4
  <2>2. end \in Nat
    BY <1>2, Products
  <2> HIDE DEF at, b, f, end
  <2> QED BY <1>2, <1>3, <1>5, <2>1, <2>2
<1>6. CASE HasFragment
  <2>1. ~InFragmentOnly /\ BlockCount + 1 <= block_idx
    BY <1>1, <1>2, <1>6
  <2>2. (BlockCount + 1) * b <= at /\ (BlockCount + 1) * b = end + b /\ end \in Nat
    BY <1>2, <1>4, <2>1, Products
  <2>3. TailSize \in 0 .. b - 1
    BY <1>2, <2>1, Division DEF TailSize
  <2> HIDE DEF at, b, f, end
  <2>4. end + b <= at
    BY <2>2
  <2> QED BY <1>2, <1>3, <1>6, <2>1, <2>2, <2>3, <2>4
<1> QED BY <1>5, <1>6

-----------------------------------------------------------------------------
\* The error codes a call can return.
KnownResult == ret \in {"none", "OK", "IO", "MEMORY", "COMPRESSION", "INVALID_FILE"}
LEMMA ResultStaysKnown ==
    ASSUME KnownResult, [Next]_vars
    PROVE  KnownResult'
<1>1. ret' = ret \/ \E e \in {"OK", "IO", "MEMORY", "COMPRESSION", "INVALID_FILE"} : ret' = e
  BY DEF Next, vars, ReturnEOF, Locate, FragmentStep, FragmentRejected, FragmentReadFails,
         ReadFragment, BlockStep, ReadSparse, BlockRejected, BlockReadFails, ReadBlock, NextBlock,
         ReadDataBlockFails, NothingLeftToRead, Filled, Return
<1> QED BY <1>1 DEF KnownResult

LEMMA DoneReturns ==
    ASSUME pc = "done" => ret # "none", [Next]_vars
    PROVE  pc' = "done" => ret' # "none"
BY DEF Next, vars, ReturnEOF, Locate, FragmentStep, FragmentRejected, FragmentReadFails,
       ReadFragment, BlockStep, ReadSparse, BlockRejected, BlockReadFails, ReadBlock, NextBlock,
       ReadDataBlockFails, NothingLeftToRead, Filled, Return, InBlock

LEMMA StepKeepsArchive ==
    ASSUME [Next]_vars
    PROVE  UNCHANGED <<a, request>>
BY DEF Next, vars, ReturnEOF, Locate, FragmentStep, FragmentRejected, FragmentReadFails,
       ReadFragment, BlockStep, ReadSparse, BlockRejected, BlockReadFails, ReadBlock, NextBlock,
       ReadDataBlockFails, NothingLeftToRead, Filled, Return

\* The bytes so far, one by one, are the beginning of what is expected.
LEMMA BytesSoFar ==
    ASSUME IInv, JInv
    PROVE  CopiesTheFile
<1> SUFFICES ASSUME HoldsItsFile, ~StartsInsideTail, BlocksInFull
             PROVE  dest = SubSeq(Expected, 1, Len(dest))
  BY DEF CopiesTheFile
<1>1. \A i \in 1 .. Len(dest) : dest[i] = Byte(request.offset + i - 1)
  BY DEF JInv, CopiedSoFar
<1>2. dest \in Seq(Nat) /\ Len(dest) \in Nat /\ Asked \in Nat
  BY ArchiveFacts DEF IInv
<1>3. Len(dest) <= Asked
  BY <1>2 DEF IInv, Accounted
<1>4. Expected = [i \in 1 .. Asked |-> Byte(request.offset + i - 1)]
  BY DEF Expected
<1> DEFINE l == Len(dest)
           e == Expected
<1>5. e \in Seq({Byte(request.offset + i - 1) : i \in 1 .. Asked}) /\ Len(e) = Asked
      /\ \A i \in 1 .. Asked : e[i] = Byte(request.offset + i - 1)
  <2> DEFINE B == {Byte(request.offset + i - 1) : i \in 1 .. Asked}
             w(i) == Byte(request.offset + i - 1)
             m == Asked
  <2>1. \A i \in 1 .. m : w(i) \in B
    OBVIOUS
  <2>2. e = [i \in 1 .. m |-> w(i)] /\ m \in Nat
    BY <1>2, <1>4
  <2> HIDE DEF B, w, m, e
  <2>3. e \in Seq(B) /\ Len(e) = m /\ \A i \in 1 .. m : e[i] = w(i)
    BY <2>1, <2>2
  <2> QED BY <2>3 DEF B, w, m
<1> HIDE DEF e
<1>6. SubSeq(e, 1, l) = [i \in 1 .. l |-> e[i]]
  <2>1. ASSUME NEW B, NEW s \in Seq(B), NEW n \in Nat, n <= Len(s)
        PROVE  SubSeq(s, 1, n) = [i \in 1 .. n |-> s[i]]
    BY <2>1
  <2> QED BY <1>2, <1>3, <1>5, <2>1
<1>7. \A i \in 1 .. l : e[i] = dest[i]
  BY <1>1, <1>2, <1>3, <1>5
<1>8. dest = [i \in 1 .. l |-> dest[i]]
  BY <1>2
<1>9. SubSeq(e, 1, l) = [i \in 1 .. l |-> dest[i]]
  BY <1>6, <1>7
<1> QED BY <1>8, <1>9 DEF e, l

\* The fragment block is not read when the archive says what it is and where.
LEMMA FragmentRefusals ==
    ASSUME IInv, JInv, FragmentRejected \/ FragmentReadFails
    PROVE  JInv'
<1>1. HasFragment
  BY DEF FragmentRejected, FragmentReadFails, InFragment
<1>2. CASE FragmentRejected
  <2>1. ~Sound
    BY <1>1, <1>2 DEF FragmentRejected, Sound
  <2> QED BY <1>2, <2>1, ReturnMoves DEF FragmentRejected
<1>3. CASE FragmentReadFails
  <2> DEFINE s == FragmentEntry.start + FragmentEntry.size
  <2>1. CASE s > a.bytes_used /\ Return("INVALID_FILE") /\ UNCHANGED faulted
    <3>1. ~Sound
      <4>1. Sound => s <= a.bytes_used
        BY <1>1 DEF Sound
      <4>2. s \in Nat /\ a.bytes_used \in Nat
        <5>1. a.loaded /\ a.fragment + 1 \in 1 .. a.fragments
          BY <1>1, <1>3, ArchivesAssumption
             DEF IInv, FragmentReadFails, FragmentListed, HasFragment, NoFragment
        <5>2. FragmentEntry \in [start : Nat, size : Nat]
          BY <5>1, ArchivesAssumption DEF IInv, FragmentEntry
        <5> QED BY <5>2, ArchivesAssumption DEF IInv
      <4> HIDE DEF s
      <4> QED BY <2>1, <4>1, <4>2
    <3> QED BY <2>1, <3>1, ReturnMoves
  <2>2. CASE faulted' = TRUE /\ \E e \in {"IO", "MEMORY", "COMPRESSION"} : Return(e)
    BY <2>2, ReturnMoves
  <2> QED BY <1>3, <2>1, <2>2 DEF FragmentReadFails, ReadDataBlockFails
<1> QED BY <1>2, <1>3

LEMMA BlockRefusals ==
    ASSUME Counted, Covered, IInv, JInv, BlockRejected \/ BlockReadFails
    PROVE  JInv'
<1>1. InBlock /\ ~Sparse
  BY DEF BlockRejected, BlockReadFails
<1> DEFINE k == block_idx + 1
<1>2. k \in 1 .. BlockCount /\ ~IsHole(k) /\ Block = a.block_list[k] /\ BlockAt(k) = position
  BY <1>1, BlockFacts
<1>3. Sound => Block.size \in 1 .. a.block_size /\ position + Block.size <= a.bytes_used
  BY <1>2 DEF Sound, IsStored
<1> HIDE DEF k
<1>4. CASE BlockRejected
  BY <1>3, <1>4, ReturnMoves DEF BlockRejected
<1>5. CASE BlockReadFails
  <2>1. CASE /\ position + Block.size > a.bytes_used
             /\ Return("INVALID_FILE") /\ UNCHANGED faulted
    <3>1. ~Sound
      <4>1. position \in Nat /\ Block.size \in Nat /\ a.bytes_used \in Nat
        BY <1>1, BlockFacts, ArchivesAssumption DEF JInv, Placed, IInv
      <4> QED BY <1>3, <2>1, <4>1
    <3> QED BY <2>1, <3>1, ReturnMoves
  <2>2. CASE faulted' = TRUE /\ \E e \in {"IO", "MEMORY", "COMPRESSION"} : Return(e)
    BY <2>2, ReturnMoves
  <2> QED BY <1>5, <2>1, <2>2 DEF BlockReadFails, ReadDataBlockFails
<1> QED BY <1>4, <1>5

LEMMA StepMoves ==
    ASSUME Counted, Covered, IInv, JInv, [Next]_vars
    PROVE  JInv'
<1>1. CASE ReturnEOF
  BY <1>1, ReturnMoves DEF ReturnEOF
<1>2. CASE Locate
  BY <1>2, LocateMoves
<1>3. CASE FragmentStep
  BY <1>3, FragmentRefusals, FragmentMoves DEF FragmentStep
<1>4. CASE BlockStep
  BY <1>4, SparseMoves, BlockRefusals, BlockMoves DEF BlockStep
<1>5. CASE NothingLeftToRead
  BY <1>5, NothingLeft, ReturnMoves DEF NothingLeftToRead
<1>6. CASE Filled
  BY <1>6, ReturnMoves DEF Filled
<1>7. CASE UNCHANGED vars
  <2>1. /\ UNCHANGED <<a, request>> /\ UNCHANGED <<pc, block_idx, block_offset, position>>
        /\ UNCHANGED <<remaining, dest, faulted, ret>>
    BY <1>7 DEF vars
  <2>2. FirstOnly' /\ Placed'
    BY <2>1, SameArchive DEF JInv, FirstOnly, Placed
  <2>3. Aligned' /\ CopiedSoFar'
    BY <2>1, SameArchive DEF JInv, Aligned, CopiedSoFar
  <2>4. NeverRefused'
    BY <2>1, SameArchive DEF JInv, NeverRefused
  <2> QED BY <2>2, <2>3, <2>4 DEF JInv
<1> QED BY <1>1, <1>2, <1>3, <1>4, <1>5, <1>6, <1>7 DEF Next

LEMMA InitMoves == Init => JInv
<1> SUFFICES ASSUME Init PROVE JInv
  OBVIOUS
<1>1. /\ pc = "call" /\ position = 0 /\ dest = <<>> /\ ret = "none"
  BY DEF Init
<1> QED BY <1>1 DEF JInv, FirstOnly, Placed, Aligned, CopiedSoFar, NeverRefused

(***************************************************************************)
(* Where the sum wraps, nothing is copied: there is no block, and the tail *)
(* has no bytes.                                                           *)
(***************************************************************************)
NothingCopied == dest = <<>> /\ position \in Nat
LEMMA NothingIsCopied ==
    ASSUME ~Counted, Covered, IInv, NothingCopied, [Next]_vars
    PROVE  NothingCopied'
<1>1. /\ BlockCount = 0 /\ (HasFragment => a.file_size % a.block_size = 0) /\ ~InFragmentOnly
      /\ block_idx \in Nat /\ a.block_size \in Nat \ {0} /\ a.file_size \in Nat
      /\ request.offset \in Nat
  BY Uncounted, ArchiveFacts DEF IInv, Counted
<1>2. ~InBlock
  BY <1>1 DEF InBlock
<1>3. CASE Locate
  <2>1. Least(block_idx', BlockCount) = 0
    <3>1. block_idx' \in Nat
      BY <1>1, <1>3, Division DEF Locate
    <3> QED BY <1>1, <3>1 DEF Least
  <2>2. StoredSize[0] = 0 /\ a.start_block \in Nat
    <3>1. 0 \in 0 .. Len(a.block_list)
      BY ArchivesAssumption DEF IInv
    <3> QED BY <3>1, StoredSizes, ArchivesAssumption DEF IInv
  <2>3. position' = a.start_block + StoredSize[Least(block_idx', BlockCount)] /\ dest' = dest
    BY <1>3 DEF Locate
  <2> QED BY <2>1, <2>2, <2>3 DEF NothingCopied
<1>4. CASE ReadFragment
  <2>1. CASE UNCHANGED <<dest, position>>
    BY <2>1 DEF NothingCopied
  <2> DEFINE c == a.data[FragmentEntry.start]
             n == Least(Len(c) - FragmentOffset, Least(remaining, TailSize))
  <2>2. CASE /\ Len(c) >= FragmentOffset /\ dest' = Copied(c, FragmentOffset, n)
             /\ UNCHANGED position
    <3>1. c \in Seq(Nat) /\ Len(c) \in Nat /\ FragmentOffset \in Nat /\ remaining \in Nat
      BY <1>4, ArchiveFacts DEF IInv, ReadFragment, ReadDataBlockOK, FragmentOffset
    <3>2. TailSize = 0
      BY <1>1, <1>4 DEF ReadFragment, InFragment, TailSize
    <3>3. n = 0
      <4> HIDE DEF c
      <4> QED BY <2>2, <3>1, <3>2 DEF Least
    <3>4. SubSeq(c, FragmentOffset + 1, FragmentOffset + 0) = <<>>
      <4>1. ASSUME NEW s \in Seq(Nat), NEW from \in Nat
            PROVE  SubSeq(s, from + 1, from + 0) = <<>>
        OBVIOUS
      <4> QED BY <3>1, <4>1
    <3>5. dest' = <<>> \o <<>>
      BY <2>2, <3>3, <3>4 DEF Copied, NothingCopied
    <3>6. dest' = <<>>
      BY <3>5
    <3> QED BY <2>2, <3>6 DEF NothingCopied
  <2> QED BY <1>4, <2>1, <2>2 DEF ReadFragment, Return
<1>5. CASE UNCHANGED <<dest, position>>
  BY <1>5 DEF NothingCopied
<1>6. Locate \/ ReadFragment \/ UNCHANGED <<dest, position>>
  BY <1>2 DEF Next, vars, ReturnEOF, FragmentStep, FragmentRejected, FragmentReadFails,
              BlockStep, ReadSparse, BlockRejected, BlockReadFails, ReadBlock,
              ReadDataBlockFails, NothingLeftToRead, Filled, Return
<1> QED BY <1>3, <1>4, <1>5, <1>6

ReadInv ==
    /\ Covered /\ IInv /\ KnownResult /\ (pc = "done" => ret # "none")
    /\ Counted => JInv
    /\ ~Counted => NothingCopied
LEMMA ReadInvHolds == Spec => []ReadInv
<1>1. Init => ReadInv
  BY InitEstablishes, InitMoves
     DEF Init, ReadInv, Covered, KnownResult, NothingCopied
<1>2. ReadInv /\ [Next]_vars => ReadInv'
  <2> SUFFICES ASSUME ReadInv, [Next]_vars PROVE ReadInv'
    OBVIOUS
  <2>1. UNCHANGED <<a, request>>
    BY StepKeepsArchive
  <2>2. Covered' /\ Counted' = Counted
    BY <2>1, SameArchive DEF ReadInv, Covered, Counted
  <2>3. IInv' /\ KnownResult' /\ (pc' = "done" => ret' # "none")
    BY StepKeeps, ResultStaysKnown, DoneReturns DEF ReadInv
  <2>4. Counted => JInv'
    BY StepMoves DEF ReadInv
  <2>5. ~Counted => NothingCopied'
    BY NothingIsCopied DEF ReadInv
  <2> QED BY <2>2, <2>3, <2>4, <2>5 DEF ReadInv
<1> QED BY <1>1, <1>2, PTL DEF Spec

-----------------------------------------------------------------------------
(***************************************************************************)
(* squash_read_file never writes more than the caller asked for and never  *)
(* returns SQUASH_OK with less: every archive, sound or damaged, every     *)
(* request, every failing host call.                                       *)
(***************************************************************************)
THEOREM NeverShort == Spec => []NoShortRead
<1>1. ReadInv => NoShortRead
  BY DEF ReadInv, IInv, Accounted, NoShortRead
<1> QED BY <1>1, ReadInvHolds, PTL

(***************************************************************************)
(* What squash_read_file copies out are the bytes of the file from the     *)
(* offset asked for, at every iteration and whatever mix of stored, sparse *)
(* and tail blocks, unless the call starts inside the tail of a file with  *)
(* data blocks or a stored block falls short.                              *)
(***************************************************************************)
THEOREM CopiesItsFile == Spec => []CopiesTheFile
<1>1. NothingCopied => CopiesTheFile
  <2>1. SubSeq(Expected, 1, 0) = <<>>
    OBVIOUS
  <2> QED BY <2>1 DEF NothingCopied, CopiesTheFile
<1>2. ReadInv => CopiesTheFile
  BY <1>1, BytesSoFar DEF ReadInv
<1> QED BY <1>2, ReadInvHolds, PTL

(***************************************************************************)
(* squash_read_file reads an archive that stores the file as its inode     *)
(* says: it returns SQUASH_OK when no host call fails and the count of     *)
(* blocks does not wrap.                                                   *)
(***************************************************************************)
THEOREM SoundArchivesAreRead == Spec => []SoundArchiveIsReadable
<1>1. ReadInv => SoundArchiveIsReadable
  BY DEF ReadInv, Counted, JInv, NeverRefused, SoundArchiveIsReadable
<1> QED BY <1>1, ReadInvHolds, PTL

(***************************************************************************)
(* The variables of squash_read_file keep their types, and the place in    *)
(* the block stays inside a block.                                         *)
(***************************************************************************)
THEOREM FileReadTypes == Spec => []TypeOK
<1>1. ReadInv => TypeOK
  BY DEF ReadInv, IInv, JInv, Placed, NothingCopied, KnownResult, TypeOK
<1> QED BY <1>1, ReadInvHolds, PTL
=============================================================================
