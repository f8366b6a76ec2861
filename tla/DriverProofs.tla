----------------------------- MODULE DriverProofs ------------------------------
(***************************************************************************)
(* Proofs about Driver for any threads, models, depths and batches: the    *)
(* lock and the overrides follow the scopes; the indexes that the driver   *)
(* records while it builds the commands of a batch are those of the        *)
(* commands it meant; responses, errors and Deferreds follow from that.    *)
(*                                                                         *)
(* The commands of a batch are folds over its operations.  They are        *)
(* reasoned about as sequences that exist and are unique (Sums, Joined),   *)
(* by induction in the form of a first number that is no exception.        *)
(***************************************************************************)
EXTENDS Driver, SequenceTheorems, WellFoundedInduction, TLAPS

-------------------------------------------------------------------------------
(* Numbers.                                                                *)

\* A set of numbers has a first one, which is what FirstOf gives.
LEMMA FirstExists ==
  ASSUME NEW T, T \subseteq Nat, T # {}
  PROVE  FirstOf(T) \in T /\ \A j \in T : FirstOf(T) <= j
  <1>1. PICK x \in T : \A y \in T : ~ (<<y, x>> \in OpToRel(<, Nat))
    BY NatLessThanWellFounded, WFMin
  <1>2. ASSUME NEW y \in T PROVE ~ (y < x)
    <2>1. x \in Nat /\ y \in Nat
      OBVIOUS
    <2>2. <<y, x>> \notin OpToRel(<, Nat)
      BY <1>1
    <2>3. y < x => <<y, x>> \in OpToRel(<, Nat)
      BY <2>1 DEF OpToRel
    <2> QED BY <2>2, <2>3, Zenon
  <1>3. \A y \in T : x <= y
    BY <1>2
  <1> QED BY <1>3 DEF FirstOf

\* Induction, for a set.
LEMMA Induction ==
  ASSUME NEW S, 0 \in S, \A n \in Nat : n \in S => n + 1 \in S
  PROVE  Nat \subseteq S
  <1> DEFINE T == Nat \ S
  <1> SUFFICES ASSUME T # {} PROVE FALSE
    OBVIOUS
  <1>1. T \subseteq Nat
    OBVIOUS
  <1> DEFINE m == FirstOf(T)
  <1>2. m \in T /\ \A j \in T : m <= j
    BY <1>1, FirstExists
  <1> HIDE DEF m
  <1>3. m \in Nat /\ m # 0 /\ m - 1 \in Nat
    BY <1>2
  <1>4. m - 1 \in S
    BY <1>2, <1>3
  <1> QED BY <1>2, <1>3, <1>4

-------------------------------------------------------------------------------
(* A sequence of sequences and the one that they make.                     *)

\* f[k] elements come before those of s[k], as far as s[n].
SumsTo(f, s, n) ==
  /\ f \in [1..(n + 1) -> Nat]
  /\ f[1] = 0
  /\ \A j \in 1..n : f[j + 1] = f[j] + Len(s[j])
Sums(f, s) == SumsTo(f, s, Len(s))

\* The sums exist.
LEMMA SumsExist == ASSUME NEW X, NEW s \in Seq(Seq(X)) PROVE \E f : Sums(f, s)
  <1> DEFINE T == {n \in Nat : n <= Len(s) => \E f : SumsTo(f, s, n)}
  <1>1. 0 \in T
    <2>1. SumsTo([j \in 1..1 |-> 0], s, 0)
      BY DEF SumsTo
    <2> QED BY <2>1
  <1>2. ASSUME NEW n \in Nat, n \in T PROVE n + 1 \in T
    <2>1. ASSUME n + 1 <= Len(s) PROVE \E f : SumsTo(f, s, n + 1)
      <3>1. PICK f : SumsTo(f, s, n)
        BY <1>2, <2>1, LenProperties
      <3> DEFINE l == Len(s[n + 1])
                 g == [j \in 1..(n + 2) |-> IF j = n + 2 THEN f[n + 1] + l ELSE f[j]]
      <3>2. l \in Nat
        BY <2>1, LenProperties, s[n + 1] \in Seq(X)
      <3>3. n + 1 + 1 = n + 2
        OBVIOUS
      <3>4. g \in [1..(n + 2) -> Nat] /\ g[1] = 0
        BY <3>1, <3>2 DEF SumsTo
      <3>5. ASSUME NEW j \in 1..(n + 1) PROVE g[j + 1] = g[j] + Len(s[j])
        BY <3>1 DEF SumsTo
      <3>6. SumsTo(g, s, n + 1)
        BY <3>3, <3>4, <3>5 DEF SumsTo
      <3> QED BY <3>6
    <2> QED BY <2>1
  <1>3. Len(s) \in T
    <2> HIDE DEF T
    <2> QED BY <1>1, <1>2, Induction, LenProperties
  <1> QED BY <1>3 DEF Sums

\* Whatever counts them in this way counts the sums.
LEMMA SumsUnique ==
  ASSUME NEW s, NEW f, NEW m \in Nat, m <= Len(s) + 1, Len(s) \in Nat, Sums(f, s),
         NEW g, g = [j \in 1..m |-> IF j = 1 THEN 0 ELSE g[j - 1] + Len(s[j - 1])]
  PROVE  \A j \in 1..m : g[j] = f[j]
  <1> DEFINE T == {n \in Nat : n \in 1..m => g[n] = f[n]}
  <1>1. 0 \in T
    OBVIOUS
  <1>2. ASSUME NEW n \in Nat, n \in T PROVE n + 1 \in T
    <2>1. ASSUME n + 1 \in 1..m PROVE g[n + 1] = f[n + 1]
      <3>1. CASE n = 0
        BY <2>1, <3>1 DEF Sums, SumsTo
      <3>2. CASE n # 0
        <4>1. n \in 1..m /\ n \in 1..Len(s) /\ n + 1 # 1 /\ n + 1 - 1 = n
          BY <2>1, <3>2
        <4>2. g[n] = f[n]
          BY <1>2, <4>1
        <4>3. g[n + 1] = g[n] + Len(s[n])
          BY <2>1, <4>1
        <4>4. f[n + 1] = f[n] + Len(s[n])
          BY <4>1 DEF Sums, SumsTo
        <4> QED BY <4>2, <4>3, <4>4
      <3> QED BY <3>1, <3>2
    <2> QED BY <2>1
  <1>3. Nat \subseteq T
    <2> HIDE DEF T
    <2> QED BY <1>1, <1>2, Induction
  <1> QED BY <1>3

\* The places of s[k] are before those of s[k + 1].
LEMMA SumsGrow ==
  ASSUME NEW X, NEW s \in Seq(Seq(X)), NEW f, Sums(f, s)
  PROVE  \A j, k \in 1..Len(s) : j < k => f[j] + Len(s[j]) <= f[k]
  <1>1. \A j \in 1..Len(s) : Len(s[j]) \in Nat
    BY LenProperties, \A j \in 1..Len(s) : s[j] \in Seq(X)
  <1> SUFFICES ASSUME NEW j \in 1..Len(s)
               PROVE  \A k \in 1..Len(s) : j < k => f[j] + Len(s[j]) <= f[k]
    OBVIOUS
  <1> DEFINE T == {n \in Nat : n \in 1..Len(s) /\ j < n => f[j] + Len(s[j]) <= f[n]}
  <1>2. 0 \in T
    OBVIOUS
  <1>3. ASSUME NEW n \in Nat, n \in T PROVE n + 1 \in T
    <2>1. ASSUME n + 1 \in 1..Len(s), j < n + 1 PROVE f[j] + Len(s[j]) <= f[n + 1]
      <3>1. Len(s) \in Nat /\ n \in 1..Len(s)
        BY <2>1, LenProperties
      <3>2. f[n + 1] = f[n] + Len(s[n]) /\ f[n] \in Nat /\ f[j] \in Nat
        <4>1. n \in 1..(Len(s) + 1) /\ j \in 1..(Len(s) + 1)
          BY <3>1
        <4> QED BY <3>1, <4>1 DEF Sums, SumsTo
      <3>3. CASE j = n
        BY <3>2, <3>3, <1>1
      <3>4. CASE j < n
        BY <3>1, <3>2, <3>4, <1>1, <1>3
      <3> QED BY <2>1, <3>3, <3>4
    <2> QED BY <2>1
  <1>4. Nat \subseteq T
    <2> HIDE DEF T
    <2> QED BY <1>2, <1>3, Induction
  <1> QED BY <1>4

\* The elements of a sequence that two make.
LEMMA Concat ==
  ASSUME NEW X, NEW c \in Seq(X), NEW e \in Seq(X)
  PROVE  /\ c \o e \in Seq(X)
         /\ Len(c \o e) = Len(c) + Len(e)
         /\ \A i \in 1..Len(c \o e) : (c \o e)[i] = IF i <= Len(c) THEN c[i] ELSE e[i - Len(c)]
  <1>1. c \o e \in Seq(X) /\ Len(c \o e) = Len(c) + Len(e)
    OBVIOUS
  <1>2. \A i \in 1..Len(c \o e) : (c \o e)[i] = IF i <= Len(c) THEN c[i] ELSE e[i - Len(c)]
    OBVIOUS
  <1> QED BY <1>1, <1>2

\* c is what s[1], ..., s[n] make.
Joined(c, f, s, n, X) ==
  /\ c \in Seq(X)
  /\ Len(c) = f[n + 1]
  /\ \A k \in 1..n : \A p \in 1..Len(s[k]) : f[k] + p \in 1..Len(c) /\ c[f[k] + p] = s[k][p]
  /\ \A q \in 1..Len(c) : \E k \in 1..n : \E p \in 1..Len(s[k]) : q = f[k] + p

\* One more.
LEMMA JoinOne ==
  ASSUME NEW X, NEW s \in Seq(Seq(X)), NEW f, Sums(f, s),
         NEW n \in Nat, n + 1 \in 1..Len(s), NEW c, Joined(c, f, s, n, X)
  PROVE  Joined(c \o s[n + 1], f, s, n + 1, X)
  <1> DEFINE e == s[n + 1]
             d == c \o e
  <1>1. c \in Seq(X) /\ Len(c) \in Nat /\ Len(c) = f[n + 1]
    BY LenProperties DEF Joined
  <1>2. e \in Seq(X) /\ Len(e) \in Nat
    BY LenProperties
  <1>4. f[n + 1 + 1] = f[n + 1] + Len(e)
    BY DEF Sums, SumsTo
  <1>e. \A p : s[n + 1][p] = e[p]
    OBVIOUS
  <1>l. Len(s[n + 1]) = Len(e)
    OBVIOUS
  <1> HIDE DEF e
  <1>3. /\ d \in Seq(X)
        /\ Len(d) = Len(c) + Len(e)
        /\ \A i \in 1..Len(d) : d[i] = IF i <= Len(c) THEN c[i] ELSE e[i - Len(c)]
    BY <1>1, <1>2, Concat
  <1>n. Len(d) = Len(c) + Len(e)
    BY <1>3
  <1> HIDE DEF d
  <1>5. ASSUME NEW k \in 1..(n + 1), NEW p \in 1..Len(s[k])
        PROVE  f[k] + p \in 1..Len(d) /\ d[f[k] + p] = s[k][p]
    <2>1. CASE k = n + 1
      <3>1. p \in 1..Len(e) /\ f[k] = Len(c) /\ s[k][p] = e[p]
        BY <2>1, <1>1, <1>e, <1>l
      <3>2. Len(c) + p \in 1..Len(d) /\ ~ (Len(c) + p <= Len(c)) /\ Len(c) + p - Len(c) = p
        <4>1. \A x, y, z \in Nat : z \in 1..y =>
                x + z \in 1..(x + y) /\ ~ (x + z <= x) /\ x + z - x = z
          OBVIOUS
        <4>2. p \in Nat
          OBVIOUS
        <4>3. Len(c) \in Nat /\ Len(e) \in Nat /\ p \in 1..Len(e)
          BY <3>1, <1>1, <1>2
        <4>4. /\ Len(c) + p \in 1..(Len(c) + Len(e)) /\ ~ (Len(c) + p <= Len(c))
              /\ Len(c) + p - Len(c) = p
          BY <4>1, <4>2, <4>3
        <4> QED BY <4>4, <1>n
      <3>3. d[Len(c) + p] = e[p]
        BY <3>2, <1>3
      <3> QED BY <3>1, <3>2, <3>3
    <2>2. CASE k \in 1..n
      <3>1. f[k] + p \in 1..Len(c) /\ c[f[k] + p] = s[k][p]
        BY <2>2 DEF Joined
      <3>2. f[k] + p \in 1..Len(d) /\ f[k] + p <= Len(c)
        <4>1. \A x, y, z \in Nat : z \in 1..x => z \in 1..(x + y) /\ z <= x
          OBVIOUS
        <4>2. f[k] + p \in Nat
          BY <3>1
        <4> QED BY <3>1, <4>1, <4>2, <1>1, <1>2, <1>n
      <3> QED BY <3>1, <3>2, <1>3
    <2> QED BY <2>1, <2>2
  <1>6. ASSUME NEW q \in 1..Len(d)
        PROVE  \E k \in 1..(n + 1) : \E p \in 1..Len(s[k]) : q = f[k] + p
    <2>1. CASE q <= Len(c)
      <3>1. q \in 1..Len(c)
        BY <2>1, <1>1, <1>2, <1>3
      <3>2. PICK k \in 1..n : \E p \in 1..Len(s[k]) : q = f[k] + p
        BY <3>1 DEF Joined
      <3> QED BY <3>2
    <2>2. CASE q > Len(c)
      <3> DEFINE p == q - Len(c)
      <3>1. p \in 1..Len(e) /\ q = Len(c) + p
        BY <2>2, <1>1, <1>2, <1>3
      <3>2. p \in 1..Len(s[n + 1]) /\ q = f[n + 1] + p
        BY <3>1, <1>1, <1>l
      <3> QED BY <3>2
    <2> QED BY <2>1, <2>2, <1>1, <1>2, <1>3
  <1>7. Len(d) = f[n + 1 + 1]
    BY <1>1, <1>3, <1>4
  <1>8. Joined(d, f, s, n + 1, X)
    BY <1>3, <1>5, <1>6, <1>7 DEF Joined
  <1> QED BY <1>8 DEF d, e

\* g[i] is what s[1], ..., s[i] make.
Flattening(g, s, n) == g = [i \in 1..n |-> IF i = 1 THEN s[i] ELSE g[i - 1] \o s[i]]

\* It exists.
LEMMA FlatteningExists ==
  ASSUME NEW s, NEW n \in Nat
  PROVE  \E g : Flattening(g, s, n)
  <1> DEFINE T == {m \in Nat : \E g : Flattening(g, s, m)}
  <1>1. 0 \in T
    <2>1. Flattening([i \in 1..0 |-> 0], s, 0)
      BY DEF Flattening
    <2> QED BY <2>1
  <1>2. ASSUME NEW m \in Nat, m \in T PROVE m + 1 \in T
    <2>1. PICK g : Flattening(g, s, m)
      BY <1>2
    <2> DEFINE h == [i \in 1..(m + 1) |->
                       IF i # m + 1 THEN g[i]
                       ELSE IF i = 1 THEN s[i] ELSE g[m] \o s[i]]
    <2>2. ASSUME NEW i \in 1..(m + 1)
          PROVE  h[i] = IF i = 1 THEN s[i] ELSE h[i - 1] \o s[i]
      <3>1. CASE i = m + 1
        <4>1. i # 1 => i - 1 \in 1..(m + 1) /\ i - 1 # m + 1 /\ i - 1 = m
          BY <3>1
        <4>2. i # 1 => h[i - 1] = g[m]
          BY <4>1
        <4> QED BY <3>1, <4>2
      <3>2. CASE i # m + 1
        <4>1. i \in 1..m /\ (i # 1 => i - 1 \in 1..(m + 1) /\ i - 1 # m + 1)
          BY <3>2
        <4>2. g[i] = IF i = 1 THEN s[i] ELSE g[i - 1] \o s[i]
          BY <2>1, <4>1 DEF Flattening
        <4>3. h[i] = g[i] /\ (i # 1 => h[i - 1] = g[i - 1])
          BY <3>2, <4>1
        <4> QED BY <4>2, <4>3
      <3> QED BY <3>1, <3>2
    <2>3. h = [i \in 1..(m + 1) |-> IF i = 1 THEN s[i] ELSE h[i - 1] \o s[i]]
      <3>1. h = [i \in 1..(m + 1) |-> h[i]]
        OBVIOUS
      <3> HIDE DEF h
      <3> QED BY <2>2, <3>1
    <2> HIDE DEF h
    <2>4. Flattening(h, s, m + 1)
      BY <2>3 DEF Flattening
    <2> QED BY <2>4
  <1>3. n \in T
    <2> HIDE DEF T
    <2> QED BY <1>1, <1>2, Induction
  <1> QED BY <1>3

\* FlattenSeq joins them all.
LEMMA Flattened ==
  ASSUME NEW X, NEW s \in Seq(Seq(X)), NEW f, Sums(f, s)
  PROVE  Joined(FlattenSeq(s), f, s, Len(s), X)
  <1>1. Len(s) \in Nat /\ f[1] = 0 /\ \A i \in 1..Len(s) : s[i] \in Seq(X)
    BY LenProperties DEF Sums, SumsTo
  <1>2. Joined(<<>>, f, s, 0, X)
    BY <1>1 DEF Joined
  <1>3. CASE Len(s) = 0
    <2>1. s = <<>>
      BY <1>3, EmptySeq
    <2>2. FlattenSeq(s) = <<>>
      BY <1>3, <2>1 DEF FlattenSeq
    <2> QED BY <1>2, <1>3, <2>2
  <1>4. CASE Len(s) > 0
    <2> DEFINE c == CHOOSE g : Flattening(g, s, Len(s))
    <2>4. Flattening(c, s, Len(s))
      BY <1>1, FlatteningExists
    <2>5. FlattenSeq(s) = c[Len(s)]
      BY <1>4 DEF FlattenSeq, Flattening
    <2> HIDE DEF c
    <2> DEFINE U == {n \in Nat : n \in 1..Len(s) => Joined(c[n], f, s, n, X)}
    <2>6. 0 \in U
      OBVIOUS
    <2>7. ASSUME NEW n \in Nat, n \in U PROVE n + 1 \in U
      <3>1. ASSUME n + 1 \in 1..Len(s) PROVE Joined(c[n + 1], f, s, n + 1, X)
        <4>1. CASE n = 0
          <5>1. c[1] = s[1] /\ s[1] \in Seq(X)
            BY <2>4, <3>1, <4>1, <1>1 DEF Flattening
          <5>2. <<>> \o s[1] = s[1]
            BY <5>1, ConcatEmptySeq
          <5>3. Joined(<<>> \o s[0 + 1], f, s, 0 + 1, X)
            <6>1. 0 \in Nat /\ 0 + 1 \in 1..Len(s)
              BY <3>1, <4>1
            <6> QED BY <6>1, <1>2, JoinOne, Zenon
          <5>4. 0 + 1 = 1
            OBVIOUS
          <5> QED BY <4>1, <5>1, <5>2, <5>3, <5>4, Zenon
        <4>2. CASE n # 0
          <5>1. n \in 1..Len(s) /\ n + 1 # 1 /\ n + 1 - 1 = n
            BY <1>1, <3>1, <4>2
          <5>2. Joined(c[n], f, s, n, X)
            BY <2>7, <5>1
          <5>3. c[n + 1] = c[n] \o s[n + 1]
            <6> DEFINE m == n + 1
            <6>1. \A i \in 1..Len(s) : c[i] = IF i = 1 THEN s[i] ELSE c[i - 1] \o s[i]
              BY <2>4 DEF Flattening
            <6>2. m \in 1..Len(s) /\ m # 1 /\ m - 1 = n
              BY <3>1, <5>1
            <6> HIDE DEF m
            <6>3. c[m] = c[m - 1] \o s[m]
              BY <6>1, <6>2, Zenon
            <6>4. c[m] = c[n] \o s[m]
              BY <6>2, <6>3
            <6> QED BY <6>4 DEF m
          <5> QED BY <3>1, <5>1, <5>2, <5>3, JoinOne
        <4> QED BY <4>1, <4>2
      <3> QED BY <3>1
    <2>8. Len(s) \in U
      <3> HIDE DEF U
      <3> QED BY <2>6, <2>7, <1>1, Induction
    <2> QED BY <1>1, <1>4, <2>5, <2>8
  <1> QED BY <1>1, <1>3, <1>4

-------------------------------------------------------------------------------
(* The commands of a batch.                                                *)
Command == [op : Nat, role : {"query", "write", "readback"}]

\* The commands of each operation.
Blocks(ops) == [k \in DOMAIN ops |-> CommandsOf(ops[k], k)]

\* Those of one operation.
LEMMA CommandsOfOne ==
  ASSUME NEW op \in Op, NEW k \in Nat
  PROVE  /\ CommandsOf(op, k) \in Seq(Command)
         /\ op.kind = "read" =>
              /\ op.size \in Nat /\ op.size > 0
              /\ Len(CommandsOf(op, k)) = op.size
              /\ \A i \in 1..op.size : CommandsOf(op, k)[i] = [op |-> k, role |-> "query"]
         /\ op.kind # "read" =>
              /\ op.kind = "write"
              /\ Len(CommandsOf(op, k)) = IF op.verify = "query" THEN 2 ELSE 1
              /\ CommandsOf(op, k)[1] = [op |-> k, role |-> "write"]
              /\ op.verify = "query" => CommandsOf(op, k)[2] = [op |-> k, role |-> "readback"]
  <1> DEFINE q == [op |-> k, role |-> "query"]
             w == [op |-> k, role |-> "write"]
             r == [op |-> k, role |-> "readback"]
  <1>1. q \in Command /\ w \in Command /\ r \in Command
    BY DEF Command
  <1>q. CommandsOf(op, k) = IF op.kind = "read" THEN [i \in 1..op.size |-> q]
                            ELSE <<w>> \o IF op.verify = "query" THEN <<r>> ELSE <<>>
    BY DEF CommandsOf
  <1> HIDE DEF q, w, r
  <1>2. CASE op.kind = "read"
    <2>1. op.size \in {1, 4}
      BY <1>2 DEF Op, ReadOp, WriteOp
    <2>2. CommandsOf(op, k) = [i \in 1..op.size |-> q]
      BY <1>q, <1>2
    <2>3. op.size \in Nat /\ op.size > 0
      BY <2>1
    <2>4. [i \in 1..op.size |-> q] \in Seq(Command) /\ Len([i \in 1..op.size |-> q]) = op.size
      BY <1>1, <2>3
    <2>5. CommandsOf(op, k) \in Seq(Command) /\ Len(CommandsOf(op, k)) = op.size
      BY <2>2, <2>4
    <2>6. \A i \in 1..op.size : CommandsOf(op, k)[i] = q
      BY <2>2
    <2> QED BY <1>2, <2>3, <2>5, <2>6 DEF q
  <1>3. CASE op.kind # "read"
    <2>1. op.kind = "write"
      BY <1>3 DEF Op, ReadOp, WriteOp
    <2>2. CASE op.verify = "query"
      <3> DEFINE a == <<w>>
                 b == <<r>>
                 d == a \o b
      <3>1. CommandsOf(op, k) = d
        BY <1>q, <1>3, <2>2
      <3>2. a \in Seq(Command) /\ Len(a) = 1 /\ a[1] = w
        BY <1>1
      <3>3. b \in Seq(Command) /\ Len(b) = 1 /\ b[1] = r
        BY <1>1
      <3> HIDE DEF a, b
      <3>4. /\ d \in Seq(Command)
            /\ Len(d) = Len(a) + Len(b)
            /\ \A i \in 1..Len(d) : d[i] = IF i <= Len(a) THEN a[i] ELSE b[i - Len(a)]
        BY <3>2, <3>3, Concat
      <3> HIDE DEF d
      <3>5. Len(d) = 2 /\ d[1] = w /\ d[2] = r
        BY <3>2, <3>3, <3>4
      <3> QED BY <1>3, <2>1, <2>2, <3>1, <3>4, <3>5 DEF w, r
    <2>3. CASE op.verify # "query"
      <3>1. CommandsOf(op, k) = <<w>>
        <4>1. <<w>> \o <<>> = <<w>>
          OBVIOUS
        <4> QED BY <1>q, <1>3, <2>3, <4>1
      <3>2. <<w>> \in Seq(Command) /\ Len(<<w>>) = 1 /\ <<w>>[1] = w
        BY <1>1
      <3> QED BY <1>3, <2>1, <2>3, <3>1, <3>2 DEF w
    <2> QED BY <2>2, <2>3
  <1> QED BY <1>2, <1>3

\* They are sequences of commands.
LEMMA BlocksAreCommands ==
  ASSUME NEW ops \in Seq(Op)
  PROVE  /\ Blocks(ops) \in Seq(Seq(Command))
         /\ Len(Blocks(ops)) = Len(ops)
         /\ Compile(ops) = FlattenSeq(Blocks(ops))
  <1>1. DOMAIN ops = 1..Len(ops) /\ Len(ops) \in Nat /\ \A k \in 1..Len(ops) : ops[k] \in Op
    BY LenProperties
  <1>2. \A k \in 1..Len(ops) : CommandsOf(ops[k], k) \in Seq(Command)
    <2>1. \A k \in 1..Len(ops) : ops[k] \in Op /\ k \in Nat
      BY <1>1
    <2>2. \A op \in Op, k \in Nat : CommandsOf(op, k) \in Seq(Command)
      BY CommandsOfOne
    <2> QED BY <2>1, <2>2
  <1>3. Blocks(ops) \in [1..Len(ops) -> Seq(Command)]
    BY <1>1, <1>2 DEF Blocks
  <1>4. Blocks(ops) \in Seq(Seq(Command)) /\ Len(Blocks(ops)) = Len(ops)
    BY <1>1, <1>3
  <1> QED BY <1>4 DEF Compile, Blocks

\* CommandsBefore counts the commands of the operations before k.
LEMMA BeforeIsTheSum ==
  ASSUME NEW ops \in Seq(Op), NEW f, Sums(f, Blocks(ops)), NEW k \in 1..Len(ops)
  PROVE  CommandsBefore(ops, k) = f[k]
  <1> DEFINE s == Blocks(ops)
             B(g, m) == g = [j \in 1..m |-> IF j = 1 THEN 0
                              ELSE g[j - 1] + Len(CommandsOf(ops[j - 1], j - 1))]
             D(g, m) == g = [j \in 1..m |-> IF j = 1 THEN 0 ELSE g[j - 1] + Len(s[j - 1])]
             b == CHOOSE g : B(g, k)
  <1>1. Len(s) = Len(ops) /\ Len(ops) \in Nat /\ DOMAIN ops = 1..Len(ops) /\ k \in Nat
    BY BlocksAreCommands, LenProperties
  <1>2. CommandsBefore(ops, k) = b[k]
    BY DEF CommandsBefore
  <1>3. ASSUME NEW j \in 1..k, j # 1 PROVE Len(CommandsOf(ops[j - 1], j - 1)) = Len(s[j - 1])
    <2>1. j - 1 \in DOMAIN ops
      BY <1>1, <1>3
    <2> QED BY <2>1 DEF Blocks
  <1>4. ASSUME NEW g PROVE B(g, k) <=> D(g, k)
    BY <1>3
  <1>5. \E g : D(g, k)
    <2> DEFINE h == [j \in 1..k |-> f[j]]
    <2>1. ASSUME NEW j \in 1..k PROVE h[j] = IF j = 1 THEN 0 ELSE h[j - 1] + Len(s[j - 1])
      <3>1. CASE j = 1
        BY <3>1 DEF Sums, SumsTo
      <3>2. CASE j # 1
        <4> DEFINE i == j - 1
        <4>1. i \in 1..Len(s) /\ i + 1 = j /\ i \in 1..k
          BY <1>1, <3>2
        <4> HIDE DEF i
        <4>2. f[i + 1] = f[i] + Len(s[i])
          BY <4>1 DEF Sums, SumsTo
        <4>3. h[j] = h[i] + Len(s[i])
          BY <4>1, <4>2
        <4> QED BY <3>2, <4>3 DEF i
      <3> QED BY <3>1, <3>2
    <2>2. h = [j \in 1..k |-> h[j]]
      OBVIOUS
    <2> HIDE DEF h, s
    <2>3. D(h, k)
      BY <2>1, <2>2
    <2> QED BY <2>3
  <1> HIDE DEF B, D
  <1>6. D(b, k)
    BY <1>4, <1>5
  <1> HIDE DEF b, s
  <1>7. b[k] = f[k]
    <2>1. k \in Nat /\ k <= Len(s) + 1 /\ Len(s) \in Nat /\ k \in 1..k
      BY <1>1
    <2>2. b = [j \in 1..k |-> IF j = 1 THEN 0 ELSE b[j - 1] + Len(s[j - 1])]
      BY <1>6 DEF D
    <2>3. Sums(f, s)
      BY DEF s
    <2>4. \A j \in 1..k : b[j] = f[j]
      BY <2>1, <2>2, <2>3, SumsUnique, SMTT(30)
    <2> QED BY <2>1, <2>4
  <1> QED BY <1>2, <1>7

\* How many commands operation k has.
Count(ops, k) == Len(CommandsOf(ops[k], k))

\* Those of the operations of a batch.
LEMMA CommandsOfEach ==
  ASSUME NEW ops \in Seq(Op), NEW k \in DOMAIN ops
  PROVE  /\ ops[k] \in Op /\ k \in Nat
         /\ Count(ops, k) \in Nat
         /\ ops[k].kind = "read" =>
              /\ Count(ops, k) = ops[k].size /\ Count(ops, k) > 0
              /\ \A i \in 1..Count(ops, k) :
                   CommandsOf(ops[k], k)[i] = [op |-> k, role |-> "query"]
         /\ ops[k].kind # "read" =>
              /\ ops[k].kind = "write"
              /\ Count(ops, k) = IF ops[k].verify = "query" THEN 2 ELSE 1
              /\ CommandsOf(ops[k], k)[1] = [op |-> k, role |-> "write"]
              /\ ops[k].verify = "query" =>
                   CommandsOf(ops[k], k)[2] = [op |-> k, role |-> "readback"]
  <1>1. ops[k] \in Op /\ k \in Nat
    BY LenProperties
  <1> DEFINE op == ops[k]
             c == CommandsOf(op, k)
  <1>2. op \in Op
    BY <1>1
  <1> HIDE DEF op
  <1>3. /\ c \in Seq(Command)
        /\ op.kind = "read" =>
             /\ op.size \in Nat /\ op.size > 0 /\ Len(c) = op.size
             /\ \A i \in 1..op.size : c[i] = [op |-> k, role |-> "query"]
        /\ op.kind # "read" =>
             /\ op.kind = "write"
             /\ Len(c) = IF op.verify = "query" THEN 2 ELSE 1
             /\ c[1] = [op |-> k, role |-> "write"]
             /\ op.verify = "query" => c[2] = [op |-> k, role |-> "readback"]
    BY <1>1, <1>2, CommandsOfOne, Zenon
  <1>4. Len(c) \in Nat
    <2> HIDE DEF c
    <2> QED BY <1>3, LenProperties
  <1>5. Len(c) = Count(ops, k)
    BY DEF Count, op
  <1> HIDE DEF c
  <1>6. c = CommandsOf(ops[k], k)
    BY DEF c, op
  <1> QED BY <1>1, <1>3, <1>4, <1>5, <1>6, Zenon DEF op

\* Where the commands of a batch come from and where they go to.
LEMMA Plan ==
  ASSUME NEW ops \in Seq(Op)
  PROVE  /\ Compile(ops) \in Seq(Command)
         /\ \A k \in DOMAIN ops : CommandsBefore(ops, k) \in Nat /\ Count(ops, k) \in Nat
         /\ \A k \in DOMAIN ops : \A p \in 1..Count(ops, k) :
              /\ CommandsBefore(ops, k) + p \in DOMAIN Compile(ops)
              /\ Compile(ops)[CommandsBefore(ops, k) + p] = CommandsOf(ops[k], k)[p]
         /\ \A q \in DOMAIN Compile(ops) : \E k \in DOMAIN ops : \E p \in 1..Count(ops, k) :
              q = CommandsBefore(ops, k) + p
         /\ \A j, k \in DOMAIN ops : j < k =>
              CommandsBefore(ops, j) + Count(ops, j) <= CommandsBefore(ops, k)
  <1> DEFINE s == Blocks(ops)
  <1>1. /\ s \in Seq(Seq(Command)) /\ Len(s) = Len(ops) /\ Compile(ops) = FlattenSeq(s)
        /\ DOMAIN ops = 1..Len(ops) /\ Len(ops) \in Nat
    BY BlocksAreCommands, LenProperties
  <1>2. \A k \in 1..Len(ops) : s[k] = CommandsOf(ops[k], k) /\ Len(s[k]) = Count(ops, k)
    BY <1>1 DEF Blocks, Count
  <1>3. \A k \in 1..Len(ops) : Count(ops, k) \in Nat
    <2>1. \A k \in 1..Len(ops) : s[k] \in Seq(Command)
      BY <1>1
    <2> QED BY <1>2, <2>1, LenProperties
  <1>4. PICK f : Sums(f, s)
    BY <1>1, SumsExist
  <1>5. \A k \in 1..Len(ops) : CommandsBefore(ops, k) = f[k]
    BY <1>4, BeforeIsTheSum
  <1> HIDE DEF s
  <1>6. \A k \in 1..Len(ops) : f[k] \in Nat
    <2>1. \A k \in 1..Len(ops) : k \in 1..(Len(s) + 1)
      BY <1>1
    <2> QED BY <1>4, <2>1 DEF Sums, SumsTo
  <1>7. Joined(FlattenSeq(s), f, s, Len(s), Command)
    BY <1>1, <1>4, Flattened
  <1> DEFINE c == FlattenSeq(s)
  <1>8. c \in Seq(Command) /\ DOMAIN c = 1..Len(c) /\ Compile(ops) = c
    BY <1>1, <1>7, LenProperties DEF Joined
  <1>9. /\ \A k \in 1..Len(ops) : \A p \in 1..Count(ops, k) :
             f[k] + p \in DOMAIN c /\ c[f[k] + p] = CommandsOf(ops[k], k)[p]
        /\ \A q \in DOMAIN c : \E k \in 1..Len(ops) : \E p \in 1..Count(ops, k) : q = f[k] + p
    <2>1. /\ \A k \in 1..Len(ops) : \A p \in 1..Len(s[k]) :
                f[k] + p \in 1..Len(c) /\ c[f[k] + p] = s[k][p]
          /\ \A q \in 1..Len(c) : \E k \in 1..Len(ops) : \E p \in 1..Len(s[k]) : q = f[k] + p
      BY <1>1, <1>7 DEF Joined
    <2> HIDE DEF c
    <2>2. ASSUME NEW k \in 1..Len(ops), NEW p \in 1..Count(ops, k)
          PROVE  f[k] + p \in DOMAIN c /\ c[f[k] + p] = CommandsOf(ops[k], k)[p]
      <3>1. p \in 1..Len(s[k])
        BY <1>2
      <3> QED BY <1>2, <1>8, <2>1, <3>1
    <2>3. ASSUME NEW q \in DOMAIN c
          PROVE  \E k \in 1..Len(ops) : \E p \in 1..Count(ops, k) : q = f[k] + p
      BY <1>2, <1>8, <2>1
    <2> QED BY <2>2, <2>3
  <1>10. \A j, k \in 1..Len(ops) : j < k => f[j] + Count(ops, j) <= f[k]
    BY <1>1, <1>2, <1>4, SumsGrow
  <1> HIDE DEF c
  <1>11. DOMAIN Compile(ops) = DOMAIN c
    BY <1>8
  <1>12. /\ \A k \in 1..Len(ops) : \A p \in 1..Count(ops, k) :
              /\ CommandsBefore(ops, k) + p \in DOMAIN Compile(ops)
              /\ Compile(ops)[CommandsBefore(ops, k) + p] = CommandsOf(ops[k], k)[p]
         /\ \A q \in DOMAIN Compile(ops) : \E k \in 1..Len(ops) : \E p \in 1..Count(ops, k) :
              q = CommandsBefore(ops, k) + p
    BY <1>5, <1>8, <1>9, <1>11
  <1>13. \A j, k \in 1..Len(ops) : j < k =>
           CommandsBefore(ops, j) + Count(ops, j) <= CommandsBefore(ops, k)
    BY <1>5, <1>10
  <1>14. \A k \in 1..Len(ops) : CommandsBefore(ops, k) \in Nat /\ Count(ops, k) \in Nat
    BY <1>3, <1>5, <1>6
  <1>15. Compile(ops) \in Seq(Command) /\ DOMAIN ops = 1..Len(ops)
    BY <1>1, <1>8
  <1> QED BY <1>12, <1>13, <1>14, <1>15, Zenon

\* Every command is one of those of its own operation, and the operations
\* follow each other.
LEMMA PlaceOfCommand ==
  ASSUME NEW ops \in Seq(Op), NEW q \in DOMAIN Compile(ops)
  PROVE  LET c == Compile(ops)[q] IN
         /\ q \in Nat /\ c.op \in DOMAIN ops
         /\ \E p \in 1..Count(ops, c.op) :
              q = CommandsBefore(ops, c.op) + p /\ c = CommandsOf(ops[c.op], c.op)[p]
  <1>0. PICK k \in DOMAIN ops : \E p \in 1..Count(ops, k) : q = CommandsBefore(ops, k) + p
    BY Plan
  <1>1. PICK p \in 1..Count(ops, k) : q = CommandsBefore(ops, k) + p
    BY <1>0
  <1>2. Compile(ops)[q] = CommandsOf(ops[k], k)[p] /\ q \in Nat
    BY <1>1, Plan
  <1>4. CommandsOf(ops[k], k)[p].op = k
    <2> DEFINE n == Count(ops, k)
               s == CommandsOf(ops[k], k)
    <2>1. n \in Nat /\ p \in 1..n
      BY CommandsOfEach
    <2>2. ops[k].kind = "read" => \A i \in 1..n : s[i] = [op |-> k, role |-> "query"]
      BY CommandsOfEach
    <2>3. ops[k].kind # "read" =>
            /\ n = IF ops[k].verify = "query" THEN 2 ELSE 1
            /\ s[1] = [op |-> k, role |-> "write"]
            /\ ops[k].verify = "query" => s[2] = [op |-> k, role |-> "readback"]
      BY CommandsOfEach
    <2> HIDE DEF n, s
    <2>4. CASE ops[k].kind = "read"
      <3>1. s[p] = [op |-> k, role |-> "query"]
        BY <2>1, <2>2, <2>4
      <3> QED BY <3>1 DEF s
    <2>5. CASE ops[k].kind # "read"
      <3>1. p = 1 \/ (ops[k].verify = "query" /\ p = 2)
        <4>1. n = 1 \/ (ops[k].verify = "query" /\ n = 2)
          BY <2>3, <2>5
        <4>2. n = 1 => p = 1
          BY <2>1
        <4>3. n = 2 => p = 1 \/ p = 2
          BY <2>1
        <4> QED BY <4>1, <4>2, <4>3
      <3>2. s[p].op = k
        BY <2>3, <2>5, <3>1
      <3> QED BY <3>2 DEF s
    <2> QED BY <2>4, <2>5
  <1> QED BY <1>1, <1>2, <1>4

\* The commands of different operations do not overlap.
LEMMA PlacesApart ==
  ASSUME NEW ops \in Seq(Op), NEW j \in DOMAIN ops, NEW k \in DOMAIN ops,
         NEW a \in 1..Count(ops, j), NEW b \in 1..Count(ops, k)
  PROVE  CommandsBefore(ops, j) + a <= CommandsBefore(ops, k) + b => j <= k
  <1> DEFINE x == CommandsBefore(ops, j)
             y == CommandsBefore(ops, k)
  <1>1. /\ x \in Nat /\ y \in Nat /\ Count(ops, j) \in Nat /\ Count(ops, k) \in Nat
        /\ k < j => y + Count(ops, k) <= x
    BY Plan
  <1>2. j \in Nat /\ k \in Nat
    BY LenProperties
  <1> HIDE DEF x, y
  <1>3. x + a <= y + b => j <= k
    BY <1>1, <1>2
  <1> QED BY <1>3 DEF x, y

(* The numbers that the driver computes while it assembles a batch are the *)
(* places of the commands they are for, whatever reads, writes and         *)
(* readbacks come before: the responses to a read are its own, and the     *)
(* index that blames a write is that of its own readback.                  *)
THEOREM IndexesPointAtCommands ==
  ASSUME NEW ops \in Seq(Op), NEW k \in DOMAIN ops
  PROVE  /\ ops[k].kind = "read" =>
              /\ ReadIndexes(ops, k) # {}
              /\ ReadIndexes(ops, k) =
                   {i \in DOMAIN Compile(ops) : Compile(ops)[i] = [op |-> k, role |-> "query"]}
              /\ ReadIndexes(ops, k) = {i \in DOMAIN Compile(ops) : Compile(ops)[i].op = k}
         /\ ops[k].kind # "read" =>
              {WriteIndex(ops, k)} =
                {i \in DOMAIN Compile(ops) : Compile(ops)[i] = [op |-> k, role |-> "write"]}
         /\ ops[k].kind # "read" /\ ops[k].verify = "query" =>
              /\ QueryIndex(ops, k) = WriteIndex(ops, k) + 1
              /\ {QueryIndex(ops, k)} =
                   {i \in DOMAIN Compile(ops) : Compile(ops)[i] = [op |-> k, role |-> "readback"]}
  <1> DEFINE C == Compile(ops)
             b == CommandsBefore(ops, k)
             n == Count(ops, k)
  <1>1. /\ b \in Nat /\ n \in Nat
        /\ \A p \in 1..n : b + p \in DOMAIN C /\ C[b + p] = CommandsOf(ops[k], k)[p]
    BY Plan
  <1>2. ASSUME NEW i \in DOMAIN C, C[i].op = k
        PROVE  \E p \in 1..n : i = b + p /\ C[i] = CommandsOf(ops[k], k)[p]
    BY <1>2, PlaceOfCommand
  <1> HIDE DEF C, b, n
  <1>3. ASSUME ops[k].kind = "read"
        PROVE  /\ ReadIndexes(ops, k) # {}
               /\ ReadIndexes(ops, k) = {i \in DOMAIN C : C[i] = [op |-> k, role |-> "query"]}
               /\ ReadIndexes(ops, k) = {i \in DOMAIN C : C[i].op = k}
    <2>1. /\ n \in Nat /\ n > 0 /\ n = ops[k].size
          /\ \A p \in 1..n : CommandsOf(ops[k], k)[p] = [op |-> k, role |-> "query"]
      BY <1>3, CommandsOfEach DEF n
    <2>2. ReadIndexes(ops, k) = (b + 1)..(b + n)
      BY <2>1 DEF ReadIndexes, b
    <2>3. b + 1 \in (b + 1)..(b + n)
      BY <1>1, <2>1
    <2>4. ASSUME NEW i \in (b + 1)..(b + n)
          PROVE  i \in DOMAIN C /\ C[i] = [op |-> k, role |-> "query"] /\ C[i].op = k
      <3> DEFINE p == i - b
      <3>1. p \in 1..n /\ i = b + p
        BY <1>1
      <3> HIDE DEF p
      <3>2. i \in DOMAIN C /\ C[i] = CommandsOf(ops[k], k)[p]
        BY <1>1, <3>1
      <3>3. CommandsOf(ops[k], k)[p] = [op |-> k, role |-> "query"]
        BY <2>1, <3>1
      <3> QED BY <3>2, <3>3
    <2>5. ASSUME NEW i \in DOMAIN C, C[i].op = k PROVE i \in (b + 1)..(b + n)
      BY <1>1, <1>2, <2>5
    <2> QED BY <2>2, <2>3, <2>4, <2>5
  <1>4. ASSUME ops[k].kind # "read"
        PROVE  {WriteIndex(ops, k)} = {i \in DOMAIN C : C[i] = [op |-> k, role |-> "write"]}
    <2>0. /\ n = IF ops[k].verify = "query" THEN 2 ELSE 1
          /\ CommandsOf(ops[k], k)[1] = [op |-> k, role |-> "write"]
          /\ ops[k].verify = "query" =>
               CommandsOf(ops[k], k)[2] = [op |-> k, role |-> "readback"]
      BY <1>4, CommandsOfEach DEF n
    <2>1. /\ n \in Nat /\ n >= 1 /\ n <= 2
          /\ CommandsOf(ops[k], k)[1] = [op |-> k, role |-> "write"]
          /\ 2 \in 1..n => CommandsOf(ops[k], k)[2] = [op |-> k, role |-> "readback"]
      BY <2>0
    <2>2. WriteIndex(ops, k) = b + 1
      BY DEF WriteIndex, b
    <2>3. b + 1 \in DOMAIN C /\ C[b + 1] = [op |-> k, role |-> "write"]
      BY <1>1, <2>1
    <2>4. ASSUME NEW i \in DOMAIN C, C[i] = [op |-> k, role |-> "write"] PROVE i = b + 1
      <3>1. C[i].op = k /\ C[i].role = "write"
        BY <2>4
      <3>2. PICK p \in 1..n : i = b + p /\ C[i] = CommandsOf(ops[k], k)[p]
        BY <1>2, <3>1
      <3>3. p = 1 \/ p = 2
        BY <2>1
      <3> QED BY <2>1, <3>1, <3>2, <3>3
    <2> QED BY <2>2, <2>3, <2>4
  <1>5. ASSUME ops[k].kind # "read", ops[k].verify = "query"
        PROVE  /\ QueryIndex(ops, k) = WriteIndex(ops, k) + 1
               /\ {QueryIndex(ops, k)} =
                    {i \in DOMAIN C : C[i] = [op |-> k, role |-> "readback"]}
    <2>1. /\ n = 2
          /\ CommandsOf(ops[k], k)[1] = [op |-> k, role |-> "write"]
          /\ CommandsOf(ops[k], k)[2] = [op |-> k, role |-> "readback"]
      BY <1>5, CommandsOfEach DEF n
    <2>2. QueryIndex(ops, k) = b + 2 /\ WriteIndex(ops, k) = b + 1
      BY <1>5 DEF QueryIndex, WriteIndex, b
    <2>3. b + 2 \in DOMAIN C /\ C[b + 2] = [op |-> k, role |-> "readback"]
      BY <1>1, <2>1
    <2>4. ASSUME NEW i \in DOMAIN C, C[i] = [op |-> k, role |-> "readback"] PROVE i = b + 2
      <3>1. C[i].op = k /\ C[i].role = "readback"
        BY <2>4
      <3>2. PICK p \in 1..n : i = b + p /\ C[i] = CommandsOf(ops[k], k)[p]
        BY <1>2, <3>1
      <3>3. p = 1 \/ p = 2
        BY <2>1
      <3> QED BY <2>1, <3>1, <3>2, <3>3
    <2> QED BY <1>1, <2>2, <2>3, <2>4
  <1> QED BY <1>3, <1>4, <1>5 DEF C

\* The same, index by index.
LEMMA IndexesPoint ==
  ASSUME NEW ops \in Seq(Op), NEW k \in DOMAIN ops
  PROVE  LET C == Compile(ops) IN
         /\ ops[k].kind = "read" => \A i \in ReadIndexes(ops, k) :
              i \in DOMAIN C /\ C[i] = [op |-> k, role |-> "query"]
         /\ ops[k].kind # "read" =>
              WriteIndex(ops, k) \in DOMAIN C /\ C[WriteIndex(ops, k)] = [op |-> k, role |-> "write"]
         /\ ops[k].kind # "read" /\ ops[k].verify = "query" =>
              QueryIndex(ops, k) \in DOMAIN C /\ C[QueryIndex(ops, k)] = [op |-> k, role |-> "readback"]
  <1> DEFINE C == Compile(ops)
  <1> HIDE DEF C
  <1>1. ops[k].kind = "read" =>
          ReadIndexes(ops, k) = {i \in DOMAIN C : C[i] = [op |-> k, role |-> "query"]}
    BY IndexesPointAtCommands DEF C
  <1>2. ops[k].kind # "read" =>
          {WriteIndex(ops, k)} = {i \in DOMAIN C : C[i] = [op |-> k, role |-> "write"]}
    BY IndexesPointAtCommands DEF C
  <1>3. ops[k].kind # "read" /\ ops[k].verify = "query" =>
          {QueryIndex(ops, k)} = {i \in DOMAIN C : C[i] = [op |-> k, role |-> "readback"]}
    BY IndexesPointAtCommands DEF C
  <1>4. ops[k].kind = "read" => \A i \in ReadIndexes(ops, k) :
          i \in DOMAIN C /\ C[i] = [op |-> k, role |-> "query"]
    BY <1>1
  <1>5. ops[k].kind # "read" =>
          WriteIndex(ops, k) \in DOMAIN C /\ C[WriteIndex(ops, k)] = [op |-> k, role |-> "write"]
    BY <1>2
  <1>6. ops[k].kind # "read" /\ ops[k].verify = "query" =>
          QueryIndex(ops, k) \in DOMAIN C /\ C[QueryIndex(ops, k)] = [op |-> k, role |-> "readback"]
    BY <1>3
  <1> QED BY <1>4, <1>5, <1>6 DEF C

\* What the role of a command says of its operation and of its place.
LEMMA RoleOfCommand ==
  ASSUME NEW ops \in Seq(Op), NEW i \in DOMAIN Compile(ops)
  PROVE  LET k == Compile(ops)[i].op
             role == Compile(ops)[i].role IN
         /\ i \in Nat /\ k \in DOMAIN ops
         /\ role = "query" => ops[k].kind = "read" /\ i \in ReadIndexes(ops, k)
         /\ role = "write" => ops[k].kind = "write" /\ i = WriteIndex(ops, k)
         /\ role = "readback" =>
              ops[k].kind = "write" /\ ops[k].verify = "query" /\ i = QueryIndex(ops, k)
  <1> DEFINE c == Compile(ops)[i]
             k == c.op
             n == Count(ops, k)
             b == CommandsBefore(ops, k)
             s == CommandsOf(ops[k], k)
  <1>1. i \in Nat /\ k \in DOMAIN ops /\ \E p \in 1..n : i = b + p /\ c = s[p]
    BY PlaceOfCommand
  <1>2. b \in Nat
    BY <1>1, Plan
  <1>3. /\ ops[k].kind = "read" =>
             n = ops[k].size /\ \A p \in 1..n : s[p] = [op |-> k, role |-> "query"]
        /\ ops[k].kind # "read" =>
             /\ ops[k].kind = "write"
             /\ n = IF ops[k].verify = "query" THEN 2 ELSE 1
             /\ s[1] = [op |-> k, role |-> "write"]
             /\ ops[k].verify = "query" => s[2] = [op |-> k, role |-> "readback"]
    BY <1>1, CommandsOfEach
  <1>4. n \in Nat
    BY <1>1, CommandsOfEach
  <1>5. PICK p \in 1..n : i = b + p /\ c = s[p]
    BY <1>1
  <1>6. /\ ReadIndexes(ops, k) = (b + 1)..(b + ops[k].size)
        /\ WriteIndex(ops, k) = b + 1
        /\ ops[k].verify = "query" => QueryIndex(ops, k) = b + 2
    BY DEF ReadIndexes, WriteIndex, QueryIndex
  <1>7. c.op = k
    OBVIOUS
  <1> HIDE DEF n, b, s, k, c
  <1>8. CASE ops[k].kind = "read"
    <2>1. c.role = "query" /\ i \in (b + 1)..(b + ops[k].size)
      BY <1>2, <1>3, <1>4, <1>5, <1>8
    <2> QED BY <1>1, <1>6, <1>8, <2>1 DEF k, c
  <1>9. CASE ops[k].kind # "read"
    <2>1. CASE p = 1
      <3>1. c.role = "write" /\ i = b + 1
        BY <1>2, <1>3, <1>5, <1>9, <2>1
      <3> QED BY <1>1, <1>3, <1>6, <1>9, <3>1 DEF k, c
    <2>2. CASE p # 1
      <3>1. n = 2 /\ p = 2 /\ ops[k].verify = "query"
        <4>1. n = 1 \/ (ops[k].verify = "query" /\ n = 2)
          BY <1>3, <1>9
        <4>2. n = 1 => p = 1
          BY <1>5
        <4>3. n = 2 => p = 1 \/ p = 2
          BY <1>5
        <4> QED BY <4>1, <4>2, <4>3, <2>2
      <3>2. c.role = "readback" /\ i = b + 2
        BY <1>2, <1>3, <1>5, <1>9, <3>1
      <3> QED BY <1>1, <1>3, <1>6, <1>9, <3>1, <3>2 DEF k, c
    <2> QED BY <2>1, <2>2
  <1> QED BY <1>8, <1>9

\* Commands stand in the order of their operations.
LEMMA CommandsInOrder ==
  ASSUME NEW ops \in Seq(Op), NEW i \in DOMAIN Compile(ops), NEW j \in DOMAIN Compile(ops),
         i <= j
  PROVE  Compile(ops)[i].op <= Compile(ops)[j].op
  <1> DEFINE k == Compile(ops)[i].op
             l == Compile(ops)[j].op
  <1>1. k \in DOMAIN ops /\ \E p \in 1..Count(ops, k) : i = CommandsBefore(ops, k) + p
    BY PlaceOfCommand
  <1>2. l \in DOMAIN ops /\ \E p \in 1..Count(ops, l) : j = CommandsBefore(ops, l) + p
    BY PlaceOfCommand
  <1> HIDE DEF k, l
  <1>3. PICK a \in 1..Count(ops, k) : i = CommandsBefore(ops, k) + a
    BY <1>1
  <1>4. PICK b \in 1..Count(ops, l) : j = CommandsBefore(ops, l) + b
    BY <1>2
  <1>5. CommandsBefore(ops, k) + a <= CommandsBefore(ops, l) + b => k <= l
    BY <1>1, <1>2, PlacesApart
  <1>6. k <= l
    BY <1>3, <1>4, <1>5
  <1> QED BY <1>6 DEF k, l

-------------------------------------------------------------------------------
(* What a result or an exception of the executor is made into.             *)

\* The commands at fault when the responses are these; AtFault is this of
\* the last run.
Faults(ops, responses) ==
  {i \in DOMAIN Compile(ops) :
     LET c == Compile(ops)[i] IN
     \/ c.role = "query" /\ responses[i] \in {"bad", "missing"}
     \/ c.role = "readback" /\ responses[i] # "good"
     \/ c.role = "write" /\ ops[c.op].verify = "none"}

Collected(ops, responses) == ReadErrors(ops, responses) \cup VerificationErrors(ops, responses)

\* Every error stands at a command of its operation, which has a fault.
LEMMA ErrorHasFault ==
  ASSUME NEW ops \in Seq(Op), NEW responses, NEW e \in Collected(ops, responses)
  PROVE  /\ e.kind \in {"noResponse", "parse", "verification"}
         /\ e.op \in DOMAIN ops
         /\ e.index \in DOMAIN Compile(ops) /\ Compile(ops)[e.index].op = e.op
         /\ \E i \in Faults(ops, responses) : Compile(ops)[i].op = e.op
  <1> DEFINE C == Compile(ops)
             k == e.op
  <1>1. CASE e \in ReadErrors(ops, responses)
    <2>1. /\ e.kind \in {"noResponse", "parse"}
          /\ k \in ReadOps(ops) /\ e.index = CommandsBefore(ops, k) + 1
          /\ \E i \in ReadIndexes(ops, k) : responses[i] \in {"missing", "bad"}
      BY <1>1 DEF ReadErrors
    <2>2. k \in DOMAIN ops /\ ops[k].kind = "read"
      BY <2>1 DEF ReadOps
    <2>3. \A i \in ReadIndexes(ops, k) : i \in DOMAIN C /\ C[i].role = "query" /\ C[i].op = k
      <3>1. \A i \in ReadIndexes(ops, k) : i \in DOMAIN C /\ C[i] = [op |-> k, role |-> "query"]
        BY <2>2, IndexesPoint
      <3> QED BY <3>1
    <2>4. e.index \in ReadIndexes(ops, k)
      <3>1. Count(ops, k) = ops[k].size /\ Count(ops, k) > 0 /\ Count(ops, k) \in Nat
        BY <2>2, CommandsOfEach
      <3>2. CommandsBefore(ops, k) \in Nat
        BY <2>2, Plan
      <3> QED BY <2>1, <3>1, <3>2 DEF ReadIndexes
    <2>5. PICK i \in ReadIndexes(ops, k) : responses[i] \in {"missing", "bad"}
      BY <2>1
    <2>6. i \in Faults(ops, responses) /\ C[i].op = k
      BY <2>3, <2>5 DEF Faults
    <2> QED BY <2>1, <2>2, <2>3, <2>4, <2>6
  <1>2. CASE e \in VerificationErrors(ops, responses)
    <2>1. /\ e.kind = "verification" /\ k \in VerifiedOps(ops)
          /\ e.index = IF ops[k].verify = "none" THEN WriteIndex(ops, k) ELSE QueryIndex(ops, k)
          /\ ops[k].verify = "none" \/ responses[QueryIndex(ops, k)] # "good"
      BY <1>2 DEF VerificationErrors
    <2>2. k \in DOMAIN ops /\ ops[k].kind = "write" /\ ops[k].verify \in {"query", "none"}
      <3>1. k \in DOMAIN ops /\ ops[k].kind = "write" /\ ops[k].verify # "off"
        BY <2>1 DEF VerifiedOps
      <3>2. ops[k] \in Op
        BY <3>1, CommandsOfEach
      <3> QED BY <3>1, <3>2 DEF Op, ReadOp, WriteOp
    <2>3. CASE ops[k].verify = "none"
      <3>1. e.index = WriteIndex(ops, k)
        BY <2>1, <2>3
      <3>2. e.index \in DOMAIN C /\ C[e.index] = [op |-> k, role |-> "write"]
        BY <2>2, <3>1, IndexesPoint
      <3>3. e.index \in Faults(ops, responses)
        BY <2>3, <3>2 DEF Faults
      <3> QED BY <2>1, <2>2, <3>2, <3>3
    <2>4. CASE ops[k].verify = "query"
      <3>1. e.index = QueryIndex(ops, k) /\ responses[e.index] # "good"
        BY <2>1, <2>4
      <3>2. e.index \in DOMAIN C /\ C[e.index] = [op |-> k, role |-> "readback"]
        BY <2>2, <2>4, <3>1, IndexesPoint
      <3>3. e.index \in Faults(ops, responses)
        BY <3>1, <3>2 DEF Faults
      <3> QED BY <2>1, <2>2, <3>2, <3>3
    <2> QED BY <2>2, <2>3, <2>4
  <1> QED BY <1>1, <1>2 DEF Collected

\* Every fault makes an error of its operation.
LEMMA FaultHasError ==
  ASSUME NEW ops \in Seq(Op), NEW responses, NEW i \in Faults(ops, responses)
  PROVE  \E e \in Collected(ops, responses) : e.op = Compile(ops)[i].op
  <1> DEFINE c == Compile(ops)[i]
             k == c.op
  <1>1. i \in DOMAIN Compile(ops)
    BY DEF Faults
  <1>2. /\ k \in DOMAIN ops
        /\ c.role = "query" => ops[k].kind = "read" /\ i \in ReadIndexes(ops, k)
        /\ c.role = "write" => ops[k].kind = "write" /\ i = WriteIndex(ops, k)
        /\ c.role = "readback" =>
              ops[k].kind = "write" /\ ops[k].verify = "query" /\ i = QueryIndex(ops, k)
    BY <1>1, RoleOfCommand
  <1>3. CASE c.role = "query" /\ responses[i] \in {"bad", "missing"}
    <2> DEFINE e == [kind |-> IF \E j \in ReadIndexes(ops, k) : responses[j] = "missing"
                              THEN "noResponse" ELSE "parse",
                     op |-> k, index |-> CommandsBefore(ops, k) + 1]
    <2>1. k \in ReadOps(ops) /\ \E j \in ReadIndexes(ops, k) : responses[j] \in {"missing", "bad"}
      BY <1>2, <1>3 DEF ReadOps
    <2>2. e \in ReadErrors(ops, responses)
      BY <2>1 DEF ReadErrors
    <2>3. e.op = k
      OBVIOUS
    <2> QED BY <2>2, <2>3 DEF Collected
  <1>4. CASE \/ c.role = "readback" /\ responses[i] # "good"
             \/ c.role = "write" /\ ops[k].verify = "none"
    <2> DEFINE e == [kind |-> "verification", op |-> k,
                     index |-> IF ops[k].verify = "none" THEN WriteIndex(ops, k)
                                                         ELSE QueryIndex(ops, k)]
    <2>1. k \in VerifiedOps(ops)
      BY <1>2, <1>4 DEF VerifiedOps
    <2>2. ops[k].verify = "none" \/ responses[QueryIndex(ops, k)] # "good"
      BY <1>2, <1>4
    <2>3. e \in VerificationErrors(ops, responses)
      BY <2>1, <2>2 DEF VerificationErrors
    <2>4. e.op = k
      OBVIOUS
    <2> QED BY <2>3, <2>4 DEF Collected
  <1> QED BY <1>3, <1>4 DEF Faults

\* A result with no fault is no error, and one with faults is that of the
\* operation of the first.
LEMMA VerdictOfResult ==
  ASSUME NEW ops \in Seq(Op), NEW responses
  PROVE  LET error == ErrorOfResult(ops, responses)
             faults == Faults(ops, responses) IN
         /\ faults = {} => error = NoError /\ Collected(ops, responses) = {}
         /\ faults # {} =>
              /\ error.kind \in {"noResponse", "parse", "verification"}
              /\ error.op = Compile(ops)[FirstOf(faults)].op
  <1> DEFINE E == Collected(ops, responses)
             F == Faults(ops, responses)
             C == Compile(ops)
             least == CHOOSE e \in E : \A f \in E : e.index <= f.index
  <1>1. ErrorOfResult(ops, responses) =
          IF E = {} THEN NoError ELSE [kind |-> least.kind, op |-> least.op]
    BY DEF ErrorOfResult, Collected
  <1>2. \A e \in E : /\ e.kind \in {"noResponse", "parse", "verification"}
                     /\ e.index \in DOMAIN C /\ C[e.index].op = e.op
                     /\ \E i \in F : C[i].op = e.op
    BY ErrorHasFault
  <1>3. \A i \in F : \E e \in E : e.op = C[i].op
    BY FaultHasError
  <1>4. DOMAIN C \subseteq Nat /\ F \subseteq DOMAIN C
    <2>1. C \in Seq(Command)
      BY Plan
    <2>2. DOMAIN C = 1..Len(C) /\ Len(C) \in Nat
      <3> HIDE DEF C
      <3> QED BY <2>1, LenProperties
    <2> QED BY <2>2 DEF Faults
  <1>5. \A i, j \in DOMAIN C : i <= j => C[i].op <= C[j].op
    BY CommandsInOrder
  <1>6. \A i \in DOMAIN C : C[i].op \in Nat
    <2>1. \A i \in DOMAIN C : C[i].op \in DOMAIN ops
      BY RoleOfCommand
    <2>2. DOMAIN ops \subseteq Nat
      BY LenProperties
    <2> QED BY <2>1, <2>2
  <1> HIDE DEF E, F, C
  <1>7. CASE F = {}
    <2>1. E = {}
      BY <1>2, <1>7
    <2> QED BY <1>1, <1>7, <2>1 DEF E, F
  <1>8. CASE F # {}
    <2> DEFINE I == {e.index : e \in E}
               first == FirstOf(F)
    <2>1. first \in F /\ \A j \in F : first <= j
      BY <1>4, <1>8, FirstExists
    <2>2. I \subseteq Nat /\ I # {}
      BY <1>2, <1>3, <1>4, <1>8
    <2>3. FirstOf(I) \in I /\ \A j \in I : FirstOf(I) <= j
      <3> HIDE DEF I
      <3> QED BY <2>2, FirstExists
    <2>4. \E e \in E : \A f \in E : e.index <= f.index
      BY <2>3
    <2>5. least \in E /\ \A f \in E : least.index <= f.index
      BY <2>4
    <2> HIDE DEF least, first, I
    <2>6. PICK i \in F : C[i].op = least.op
      BY <1>2, <2>5
    <2>7. PICK e \in E : e.op = C[first].op
      BY <1>3, <2>1
    <2>8. C[first].op <= C[i].op
      BY <1>4, <1>5, <2>1
    <2>9. C[least.index].op <= C[e.index].op
      BY <1>2, <1>5, <2>5
    <2>10. least.op = C[first].op
      <3>1. C[least.index].op = least.op /\ C[e.index].op = e.op
        BY <1>2, <2>5
      <3>2. C[first].op \in Nat /\ C[i].op \in Nat
        BY <1>4, <1>6, <2>1
      <3> QED BY <2>6, <2>7, <2>8, <2>9, <3>1, <3>2
    <2>11. least.kind \in {"noResponse", "parse", "verification"}
      BY <1>2, <2>5
    <2>12. E # {}
      BY <2>5
    <2> QED BY <1>1, <1>8, <2>10, <2>11, <2>12 DEF E, F, C, first
  <1> QED BY <1>7, <1>8

Raised == {"spd", "gateway", "interrupt"}

\* An exception that becomes a verification error names the readback of the
\* write that is blamed.
LEMMA VerdictOfException ==
  ASSUME NEW ops \in Seq(Op), NEW o, o.kind \in Raised
  PROVE  LET error == ErrorOfException(ops, o) IN
         /\ error.kind \in Raised \cup {"assertion", "verification"}
         /\ error.kind = "verification" =>
              /\ o.index # NoIndex
              /\ Compile(ops)[o.index] = [op |-> error.op, role |-> "readback"]
  <1> DEFINE B == Blamed(ops, o.index)
             k == FirstOf(B)
  <1>1. ErrorOfException(ops, o) =
          IF B = {} \/ o.kind # "spd" THEN [kind |-> o.kind, op |-> 0]
          ELSE IF ops[k].verify = "none" THEN [kind |-> "assertion", op |-> k]
          ELSE [kind |-> "verification", op |-> k]
    BY DEF ErrorOfException
  <1>2. CASE B = {} \/ o.kind # "spd"
    BY <1>1, <1>2 DEF Raised
  <1>3. CASE ~ (B = {} \/ o.kind # "spd")
    <2>1. B \subseteq Nat
      BY LenProperties DEF Blamed, VerifiedOps
    <2>2. k \in B
      BY <1>3, <2>1, FirstExists
    <2>3. /\ k \in DOMAIN ops /\ ops[k].kind = "write" /\ ops[k].verify # "off"
          /\ QueryIndex(ops, k) = o.index
      BY <2>2 DEF Blamed, VerifiedOps
    <2>4. CASE ops[k].verify = "none"
      BY <1>1, <1>3, <2>4
    <2>5. CASE ops[k].verify # "none"
      <3>1. ops[k] \in Op
        BY <2>3, CommandsOfEach
      <3>2. ops[k].verify = "query"
        BY <2>3, <2>5, <3>1 DEF Op, ReadOp, WriteOp
      <3>3. /\ o.index \in DOMAIN Compile(ops)
            /\ Compile(ops)[o.index] = [op |-> k, role |-> "readback"]
        BY <2>3, <3>2, IndexesPoint
      <3>4. o.index # NoIndex
        <4>1. CommandsBefore(ops, k) \in Nat
          BY <2>3, Plan
        <4>2. QueryIndex(ops, k) = CommandsBefore(ops, k) + 2
          BY <3>2 DEF QueryIndex
        <4> QED BY <2>3, <4>1, <4>2 DEF NoIndex
      <3> HIDE DEF k
      <3> QED BY <1>1, <1>3, <2>5, <3>3, <3>4
    <2> QED BY <2>4, <2>5
  <1> QED BY <1>2, <1>3

\* What ErrorOf gives.
ErrorsFit(ops, o, error) ==
  /\ error.kind \in Errors
  /\ error.kind = "none" => o.kind = "result" /\ Faults(ops, o.responses) = {}
  /\ error.kind = "verification" /\ o.kind # "result" =>
       /\ o.index # NoIndex
       /\ Compile(ops)[o.index] = [op |-> error.op, role |-> "readback"]
  /\ o.kind = "result" /\ error.kind # "validation" =>
       IF Faults(ops, o.responses) = {} THEN error = NoError
       ELSE error.op = Compile(ops)[FirstOf(Faults(ops, o.responses))].op

\* Every outcome of a batch.
LEMMA VerdictOfOutcome ==
  ASSUME NEW ops \in Seq(Op), NEW o, o.kind \in Raised \cup {"result"}
  PROVE  ErrorsFit(ops, o, ErrorOf(ops, o))
  <1>1. CASE Invalid(ops)
    <2>1. ErrorOf(ops, o) = [kind |-> "validation", op |-> 0]
      BY <1>1 DEF ErrorOf
    <2> QED BY <2>1 DEF ErrorsFit, Errors
  <1>2. CASE ~Invalid(ops) /\ o.kind = "result"
    <2>1. ErrorOf(ops, o) = ErrorOfResult(ops, o.responses)
      BY <1>2 DEF ErrorOf
    <2> DEFINE e == ErrorOfResult(ops, o.responses)
               F == Faults(ops, o.responses)
    <2>2. /\ F = {} => e = NoError
          /\ F # {} => /\ e.kind \in {"noResponse", "parse", "verification"}
                       /\ e.op = Compile(ops)[FirstOf(F)].op
      BY VerdictOfResult
    <2>3. NoError.kind = "none"
      BY DEF NoError
    <2> HIDE DEF e, F
    <2>4. e.kind \in Errors /\ (e.kind = "none" => F = {})
      BY <2>2, <2>3 DEF Errors
    <2> QED BY <1>2, <2>1, <2>2, <2>4 DEF ErrorsFit, e, F
  <1>3. CASE ~Invalid(ops) /\ o.kind \in Raised
    <2> DEFINE e == ErrorOfException(ops, o)
    <2>1. ErrorOf(ops, o) = e
      BY <1>3 DEF ErrorOf, Raised
    <2>2. /\ e.kind \in Raised \cup {"assertion", "verification"}
          /\ e.kind = "verification" =>
               /\ o.index # NoIndex
               /\ Compile(ops)[o.index] = [op |-> e.op, role |-> "readback"]
      BY <1>3, VerdictOfException
    <2> HIDE DEF e
    <2> QED BY <1>3, <2>1, <2>2 DEF ErrorsFit, Errors, Raised
  <1> QED BY <1>1, <1>2, <1>3

-------------------------------------------------------------------------------
(* Scopes, the lock and the overrides.                                     *)
Verifies(s) == {k \in DOMAIN s : s[k].kind = "verify"}
On(s)       == [k \in DOMAIN s |-> s[k].enabled]
HasBatch(s) == \E k \in DOMAIN s : s[k].kind = "batch"
OneBatch(s) == \A i, j \in DOMAIN s : s[i].kind = "batch" /\ s[j].kind = "batch" => i = j

\* The last element of a sequence that grew, and the others.
LEMMA Appended ==
  ASSUME NEW X, NEW s \in Seq(X), NEW e \in X
  PROVE  /\ Append(s, e) \in Seq(X)
         /\ Len(s) \in Nat /\ Len(Append(s, e)) = Len(s) + 1
         /\ DOMAIN s = 1..Len(s) /\ DOMAIN Append(s, e) = 1..(Len(s) + 1)
         /\ \A k \in 1..Len(s) : Append(s, e)[k] = s[k]
         /\ Append(s, e)[Len(s) + 1] = e
  <1>1. Append(s, e) \in Seq(X) /\ Len(s) \in Nat /\ Len(Append(s, e)) = Len(s) + 1
    OBVIOUS
  <1>2. \A k \in 1..Len(s) : Append(s, e)[k] = s[k]
    OBVIOUS
  <1>3. Append(s, e)[Len(s) + 1] = e
    OBVIOUS
  <1>4. DOMAIN s = 1..Len(s) /\ DOMAIN Append(s, e) = 1..(Len(s) + 1)
    OBVIOUS
  <1> QED BY <1>1, <1>2, <1>3, <1>4

\* All but the last.
ButLast(s) == SubSeq(s, 1, Len(s) - 1)
LEMMA FrontElements ==
  ASSUME NEW X, NEW s \in Seq(X), s # <<>>
  PROVE  /\ ButLast(s) \in Seq(X)
         /\ Len(s) \in Nat /\ Len(s) > 0 /\ Len(ButLast(s)) = Len(s) - 1
         /\ DOMAIN s = 1..Len(s) /\ DOMAIN ButLast(s) = 1..(Len(s) - 1)
         /\ \A k \in 1..(Len(s) - 1) : ButLast(s)[k] = s[k]
  <1>1. Len(s) \in Nat /\ Len(s) > 0 /\ DOMAIN s = 1..Len(s)
    BY EmptySeq, LenProperties
  <1>2. ButLast(s) \in Seq(X) /\ Len(ButLast(s)) = Len(s) - 1
    BY <1>1 DEF ButLast
  <1>3. \A k \in 1..(Len(s) - 1) : ButLast(s)[k] = s[k]
    BY <1>1 DEF ButLast
  <1>4. DOMAIN ButLast(s) = 1..(Len(s) - 1)
    <2> DEFINE f == ButLast(s)
    <2>1. f \in Seq(X)
      BY <1>2
    <2> HIDE DEF f
    <2>2. DOMAIN f = 1..Len(f)
      BY <2>1, LenProperties
    <2> QED BY <1>2, <2>2 DEF f
  <1> QED BY <1>1, <1>2, <1>3, <1>4

\* The order does not change with values that are not looked at.
LEMMA InOrderSame ==
  ASSUME NEW r, NEW S, NEW v, NEW w, InOrder(r, S, v), \A k \in S : w[k] = v[k]
  PROVE  InOrder(r, S, w)
  BY DEF InOrder

\* A new last element.
LEMMA InOrderAdd ==
  ASSUME NEW X, NEW r \in Seq(X), NEW S, NEW v, InOrder(r, S, v),
         NEW n \in Nat, S \subseteq Nat, \A k \in S : k < n,
         NEW e \in X, NEW w, \A k \in S : w[k] = v[k], w[n] = e
  PROVE  InOrder(Append(r, e), S \cup {n}, w)
  <1> DEFINE l == Len(r)
             q == Append(r, e)
  <1>1. /\ l \in Nat /\ DOMAIN r = 1..l /\ DOMAIN q = 1..(l + 1)
        /\ \A k \in 1..l : q[k] = r[k]
        /\ q[l + 1] = e
    BY Appended
  <1> HIDE DEF l, q
  <1>a. PICK place \in [DOMAIN r -> S] :
          /\ \A i, j \in DOMAIN r : i < j => place[i] < place[j]
          /\ \A k \in S : \E i \in DOMAIN r : place[i] = k
          /\ \A i \in DOMAIN r : r[i] = v[place[i]]
    BY Zenon DEF InOrder
  <1>2. /\ place \in [1..l -> S]
        /\ \A i, j \in 1..l : i < j => place[i] < place[j]
        /\ \A k \in S : \E i \in 1..l : place[i] = k
        /\ \A i \in 1..l : r[i] = v[place[i]]
    BY <1>1, <1>a
  <1> DEFINE p == [i \in 1..(l + 1) |-> IF i = l + 1 THEN n ELSE place[i]]
  <1>3. /\ p[l + 1] = n
        /\ \A i \in 1..l : p[i] = place[i] /\ p[i] \in S
        /\ p \in [1..(l + 1) -> S \cup {n}]
    <2>1. l + 1 \in 1..(l + 1) /\ \A i \in 1..l : i \in 1..(l + 1) /\ i # l + 1
      BY <1>1
    <2>2. \A i \in 1..l : place[i] \in S
      BY <1>2
    <2>3. \A i \in 1..(l + 1) : i \in 1..l \/ i = l + 1
      BY <1>1
    <2>4. /\ p[l + 1] = n
          /\ \A i \in 1..l : p[i] = place[i] /\ p[i] \in S
      BY <2>1, <2>2
    <2>5. DOMAIN p = 1..(l + 1) /\ \A i \in 1..(l + 1) : p[i] \in S \cup {n}
      BY <2>3, <2>4
    <2> QED BY <2>4, <2>5
  <1> HIDE DEF p
  <1>4. ASSUME NEW i \in 1..(l + 1), NEW j \in 1..(l + 1), i < j PROVE p[i] < p[j]
    <2>1. i \in 1..l /\ (j \in 1..l \/ j = l + 1)
      BY <1>1, <1>4
    <2>2. CASE j \in 1..l
      BY <1>2, <1>3, <1>4, <2>1, <2>2
    <2>3. CASE j = l + 1
      BY <1>3, <2>1, <2>3
    <2> QED BY <2>1, <2>2, <2>3
  <1>5. ASSUME NEW k \in S \cup {n} PROVE \E i \in 1..(l + 1) : p[i] = k
    <2>1. CASE k = n
      <3>1. l + 1 \in 1..(l + 1)
        BY <1>1
      <3> QED BY <1>3, <2>1, <3>1
    <2>2. CASE k \in S
      <3>1. PICK i \in 1..l : place[i] = k
        BY <1>2, <2>2
      <3>2. i \in 1..(l + 1)
        BY <1>1
      <3> QED BY <1>3, <3>1, <3>2
    <2> QED BY <2>1, <2>2
  <1>6. ASSUME NEW i \in 1..(l + 1) PROVE q[i] = w[p[i]]
    <2>1. i \in 1..l \/ i = l + 1
      BY <1>1
    <2>2. CASE i \in 1..l
      <3>1. q[i] = v[place[i]] /\ p[i] = place[i] /\ place[i] \in S
        BY <1>1, <1>2, <1>3, <2>2
      <3> QED BY <3>1
    <2>3. CASE i = l + 1
      BY <1>1, <1>3, <2>3
    <2> QED BY <2>1, <2>2, <2>3
  <1>7. InOrder(q, S \cup {n}, w)
    <2>1. p \in [DOMAIN q -> S \cup {n}]
      BY <1>1, <1>3
    <2>2. /\ \A i, j \in DOMAIN q : i < j => p[i] < p[j]
          /\ \A k \in S \cup {n} : \E i \in DOMAIN q : p[i] = k
          /\ \A i \in DOMAIN q : q[i] = w[p[i]]
      BY <1>1, <1>4, <1>5, <1>6
    <2> QED BY <2>1, <2>2, Zenon DEF InOrder
  <1> QED BY <1>7 DEF q

\* The last element dropped.
LEMMA InOrderDrop ==
  ASSUME NEW X, NEW r \in Seq(X), NEW S, NEW v, NEW n \in Nat,
         S \subseteq Nat, \A k \in S : k < n, InOrder(r, S \cup {n}, v)
  PROVE  r # <<>> /\ InOrder(ButLast(r), S, v)
  <1> DEFINE l == Len(r)
             q == ButLast(r)
  <1>0. l \in Nat /\ DOMAIN r = 1..l
    BY LenProperties
  <1>a. PICK place \in [DOMAIN r -> S \cup {n}] :
          /\ \A i, j \in DOMAIN r : i < j => place[i] < place[j]
          /\ \A k \in S \cup {n} : \E i \in DOMAIN r : place[i] = k
          /\ \A i \in DOMAIN r : r[i] = v[place[i]]
    BY Zenon DEF InOrder
  <1> HIDE DEF l
  <1>1. /\ place \in [1..l -> S \cup {n}]
        /\ \A i, j \in 1..l : i < j => place[i] < place[j]
        /\ \A k \in S \cup {n} : \E i \in 1..l : place[i] = k
        /\ \A i \in 1..l : r[i] = v[place[i]]
    BY <1>0, <1>a
  <1> USE DEF l
  <1>2. PICK last \in 1..l : place[last] = n
    BY <1>1
  <1>3. r # <<>>
    BY <1>2
  <1>4. /\ l > 0 /\ DOMAIN q = 1..(l - 1)
        /\ \A k \in 1..(l - 1) : q[k] = r[k]
    BY <1>3, FrontElements
  <1> HIDE DEF l, q
  <1>5. last = l
    <2>0. l \in 1..l
      BY <1>0, <1>4
    <2>1. last < l => place[last] < place[l] /\ l \in 1..l
      BY <1>1, <2>0
    <2>2. l \in 1..l => place[l] \in S \cup {n}
      BY <1>1
    <2>3. l \in 1..l => ~ (n < place[l])
      <3>1. \A k \in S \cup {n} : ~ (n < k)
        OBVIOUS
      <3> QED BY <2>2, <3>1
    <2>4. ~ (last < l)
      BY <1>2, <2>1, <2>3
    <2> QED BY <1>0, <2>4
  <1> DEFINE p == [i \in 1..(l - 1) |-> place[i]]
  <1>6. ASSUME NEW i \in 1..(l - 1) PROVE i \in 1..l /\ i < l /\ place[i] \in S /\ p[i] = place[i]
    <2>1. i \in 1..l /\ i < l /\ l \in 1..l
      BY <1>0, <1>4
    <2>2. place[i] < place[l]
      BY <1>1, <2>1
    <2> QED BY <1>1, <1>2, <1>5, <2>1, <2>2
  <1>7. p \in [1..(l - 1) -> S]
    BY <1>6
  <1> HIDE DEF p
  <1>8. ASSUME NEW k \in S PROVE \E i \in 1..(l - 1) : p[i] = k
    <2>1. PICK i \in 1..l : place[i] = k
      BY <1>1
    <2>2. i # l
      BY <1>2, <1>5, <2>1
    <2>3. i \in 1..(l - 1)
      BY <1>0, <2>2
    <2> QED BY <1>6, <2>1, <2>3
  <1>9. \A i, j \in 1..(l - 1) : i < j => p[i] < p[j]
    BY <1>1, <1>6
  <1>10. \A i \in 1..(l - 1) : q[i] = v[p[i]]
    BY <1>1, <1>4, <1>6
  <1>11. InOrder(q, S, v)
    <2>1. p \in [DOMAIN q -> S]
      BY <1>4, <1>7
    <2>2. /\ \A i, j \in DOMAIN q : i < j => p[i] < p[j]
          /\ \A k \in S : \E i \in DOMAIN q : p[i] = k
          /\ \A i \in DOMAIN q : q[i] = v[p[i]]
      BY <1>4, <1>8, <1>9, <1>10
    <2> QED BY <2>1, <2>2, Zenon DEF InOrder
  <1> QED BY <1>3, <1>11 DEF q

\* What the holder of the lock has open: s are its scopes, r the overrides,
\* d the depth of the lock and b the flag of the batch.
Holds(s, r, d, b) ==
  /\ d = Len(s)
  /\ InOrder(r, Verifies(s), On(s))
  /\ b <=> HasBatch(s)

\* A scope is entered.
LEMMA PushScope ==
  ASSUME NEW s \in Seq(Scope), OneBatch(s), NEW r \in Seq(BOOLEAN), NEW b \in BOOLEAN,
         Holds(s, r, Len(s), b)
  PROVE  /\ ~b => Holds(Append(s, BatchScope), r, Len(s) + 1, TRUE)
                    /\ OneBatch(Append(s, BatchScope))
         /\ \A on \in BOOLEAN :
              Holds(Append(s, VerifyScope(on)), Append(r, on), Len(s) + 1, b)
                /\ OneBatch(Append(s, VerifyScope(on)))
  <1> DEFINE n == Len(s) + 1
             S == Verifies(s)
  <1>1. /\ n \in Nat /\ Len(s) \in Nat /\ DOMAIN s = 1..Len(s)
        /\ S \subseteq Nat /\ \A k \in S : k < n /\ k \in DOMAIN s
    BY LenProperties DEF Verifies
  <1>2. InOrder(r, S, On(s)) /\ (b <=> HasBatch(s))
    BY DEF Holds
  <1>3. ASSUME ~b
        PROVE  Holds(Append(s, BatchScope), r, n, TRUE) /\ OneBatch(Append(s, BatchScope))
    <2> DEFINE q == Append(s, BatchScope)
    <2>1. BatchScope \in Scope
      BY DEF BatchScope, Scope
    <2>2. /\ Len(q) = n /\ DOMAIN q = 1..n
          /\ \A k \in 1..Len(s) : q[k] = s[k]
          /\ q[n] = BatchScope
      BY <2>1, Appended
    <2>3. BatchScope.kind = "batch"
      BY DEF BatchScope
    <2> HIDE DEF q
    <2>4. \A k \in DOMAIN q : k \in DOMAIN s \/ k = n
      BY <1>1, <2>2
    <2>5. Verifies(q) = S
      BY <1>1, <2>2, <2>3, <2>4 DEF Verifies
    <2>6. \A k \in S : On(q)[k] = On(s)[k]
      BY <1>1, <2>2 DEF On
    <2>7. InOrder(r, Verifies(q), On(q))
      BY <1>2, <2>5, <2>6, InOrderSame
    <2>8. HasBatch(q)
      BY <1>1, <2>2, <2>3 DEF HasBatch
    <2>9. OneBatch(q)
      BY <1>1, <1>2, <1>3, <2>2, <2>4 DEF OneBatch, HasBatch
    <2>10. Holds(q, r, n, TRUE)
      BY <2>2, <2>7, <2>8 DEF Holds
    <2> QED BY <2>9, <2>10 DEF q
  <1>4. ASSUME NEW on \in BOOLEAN
        PROVE  /\ Holds(Append(s, VerifyScope(on)), Append(r, on), n, b)
               /\ OneBatch(Append(s, VerifyScope(on)))
    <2> DEFINE e == VerifyScope(on)
               q == Append(s, e)
    <2>1. e \in Scope /\ e.kind = "verify" /\ e.enabled = on
      BY DEF VerifyScope, Scope
    <2> HIDE DEF e
    <2>2. /\ Len(q) = n /\ DOMAIN q = 1..n
          /\ \A k \in 1..Len(s) : q[k] = s[k]
          /\ q[n] = e
      BY <2>1, Appended
    <2> HIDE DEF q
    <2>4. /\ \A k \in DOMAIN q : k \in DOMAIN s \/ k = n
          /\ n \in DOMAIN q /\ \A k \in DOMAIN s : k \in DOMAIN q
      BY <1>1, <2>2
    <2>5. Verifies(q) = S \cup {n}
      BY <1>1, <2>1, <2>2, <2>4 DEF Verifies
    <2>6. (\A k \in S : On(q)[k] = On(s)[k]) /\ On(q)[n] = on
      BY <1>1, <2>1, <2>2, <2>4 DEF On
    <2>7. InOrder(Append(r, on), S \cup {n}, On(q))
      <3> DEFINE v == On(s)
                 w == On(q)
      <3>1. /\ InOrder(r, S, v) /\ n \in Nat /\ S \subseteq Nat /\ \A k \in S : k < n
            /\ \A k \in S : w[k] = v[k]
            /\ w[n] = on
        BY <1>1, <1>2, <2>6
      <3> HIDE DEF v, w, S, n
      <3>2. \A X : \A t \in Seq(X) : \A x \in X :
              InOrder(t, S, v) /\ w[n] = x => InOrder(Append(t, x), S \cup {n}, w)
        <4> SUFFICES ASSUME NEW X, NEW t \in Seq(X), NEW x \in X, InOrder(t, S, v), w[n] = x
                     PROVE  InOrder(Append(t, x), S \cup {n}, w)
          OBVIOUS
        <4> QED BY <3>1, InOrderAdd
      <3>3. InOrder(Append(r, on), S \cup {n}, w)
        BY <3>1, <3>2
      <3> QED BY <3>3 DEF w
    <2>8. HasBatch(q) <=> HasBatch(s)
      BY <1>1, <2>1, <2>2, <2>4 DEF HasBatch
    <2>9. OneBatch(q)
      <3>1. \A k \in DOMAIN q : q[k].kind = "batch" => k \in DOMAIN s /\ s[k].kind = "batch"
        BY <1>1, <2>1, <2>2, <2>4
      <3> QED BY <3>1 DEF OneBatch
    <2>10. Holds(q, Append(r, on), n, b)
      BY <1>2, <2>2, <2>5, <2>7, <2>8 DEF Holds
    <2> QED BY <2>9, <2>10 DEF q, e
  <1> QED BY <1>3, <1>4

\* The innermost scope is left.
LEMMA PopScope ==
  ASSUME NEW s \in Seq(Scope), s # <<>>, OneBatch(s), NEW r \in Seq(BOOLEAN), NEW b \in BOOLEAN,
         Holds(s, r, Len(s), b)
  PROVE  /\ OneBatch(ButLast(s))
         /\ s[Len(s)].kind = "batch" => Holds(ButLast(s), r, Len(s) - 1, FALSE)
         /\ s[Len(s)].kind = "verify" =>
              Holds(ButLast(s), ButLast(r), Len(s) - 1, b) /\ r # <<>>
  <1> DEFINE n == Len(s)
             q == ButLast(s)
             S == Verifies(q)
  <1>1. /\ n \in Nat /\ n > 0 /\ Len(q) = n - 1
        /\ DOMAIN s = 1..n /\ DOMAIN q = 1..(n - 1)
        /\ \A k \in 1..(n - 1) : q[k] = s[k]
    BY FrontElements
  <1> HIDE DEF q
  <1>2. InOrder(r, Verifies(s), On(s)) /\ (b <=> HasBatch(s))
    BY DEF Holds
  <1>3. /\ \A k \in DOMAIN q : k \in DOMAIN s /\ k < n /\ k \in Nat /\ q[k] = s[k]
        /\ \A k \in DOMAIN s : k \in DOMAIN q \/ k = n
        /\ n \in DOMAIN s
    BY <1>1
  <1>4. OneBatch(q)
    BY <1>3 DEF OneBatch
  <1>5. \A k \in S : On(q)[k] = On(s)[k] /\ k \in Nat /\ k < n
    BY <1>3 DEF On, Verifies
  <1>6. ASSUME s[n].kind = "batch" PROVE Holds(q, r, n - 1, FALSE)
    <2>1. Verifies(s) = S
      BY <1>3, <1>6 DEF Verifies
    <2>2. InOrder(r, S, On(q))
      BY <1>2, <1>5, <2>1, InOrderSame
    <2>3. ~HasBatch(q)
      BY <1>3, <1>6 DEF HasBatch, OneBatch
    <2> QED BY <1>1, <2>2, <2>3 DEF Holds
  <1>7. ASSUME s[n].kind = "verify" PROVE Holds(q, ButLast(r), n - 1, b) /\ r # <<>>
    <2>1. Verifies(s) = S \cup {n}
      BY <1>3, <1>7 DEF Verifies
    <2>2. r # <<>> /\ InOrder(ButLast(r), S, On(s))
      <3> DEFINE v == On(s)
      <3>1. InOrder(r, S \cup {n}, v) /\ n \in Nat /\ S \subseteq Nat /\ \A k \in S : k < n
        BY <1>1, <1>2, <1>5, <2>1
      <3> HIDE DEF v, n, S
      <3>2. r # <<>> /\ InOrder(ButLast(r), S, v)
        BY <3>1, InOrderDrop
      <3> QED BY <3>2 DEF v
    <2>3. InOrder(ButLast(r), S, On(q))
      BY <1>5, <2>2, InOrderSame
    <2>4. HasBatch(q) <=> HasBatch(s)
      BY <1>3, <1>7 DEF HasBatch
    <2> QED BY <1>1, <1>2, <2>2, <2>3, <2>4 DEF Holds
  <1> QED BY <1>4, <1>6, <1>7 DEF q

\* No scope, no override and no batch.
LEMMA NoScope ==
  /\ Holds(<<>>, <<>>, 0, FALSE) /\ OneBatch(<<>>)
  /\ \A r \in Seq(BOOLEAN), b \in BOOLEAN : \A d :
       Holds(<<>>, r, d, b) => r = <<>> /\ d = 0 /\ b = FALSE
  <1>1. Verifies(<<>>) = {} /\ ~HasBatch(<<>>) /\ OneBatch(<<>>)
    BY DEF Verifies, HasBatch, OneBatch
  <1>2. InOrder(<<>>, {}, On(<<>>))
    <2>1. <<>> \in [DOMAIN <<>> -> {}]
      OBVIOUS
    <2>2. DOMAIN <<>> = {}
      OBVIOUS
    <2> QED BY <2>1, <2>2 DEF InOrder
  <1>3. ASSUME NEW r \in Seq(BOOLEAN), NEW v, InOrder(r, {}, v) PROVE r = <<>>
    <2>1. PICK place \in [DOMAIN r -> {}] : TRUE
      BY <1>3 DEF InOrder
    <2>2. DOMAIN r = {}
      BY <2>1
    <2>3. DOMAIN r = 1..Len(r) /\ Len(r) \in Nat
      BY LenProperties
    <2>4. Len(r) = 0
      BY <2>2, <2>3
    <2> QED BY <2>4, EmptySeq
  <1>4. ASSUME NEW r \in Seq(BOOLEAN), NEW d, NEW b \in BOOLEAN, Holds(<<>>, r, d, b)
        PROVE  r = <<>> /\ d = 0 /\ b = FALSE
    <2>1. d = Len(<<>>) /\ InOrder(r, Verifies(<<>>), On(<<>>)) /\ (b <=> HasBatch(<<>>))
      BY <1>4 DEF Holds
    <2>2. d = 0 /\ b = FALSE
      BY <1>1, <2>1
    <2>3. InOrder(r, {}, On(<<>>))
      BY <1>1, <2>1
    <2> QED BY <1>3, <2>2, <2>3
  <1>5. Holds(<<>>, <<>>, 0, FALSE)
    BY <1>1, <1>2 DEF Holds
  <1> QED BY <1>1, <1>4, <1>5

-------------------------------------------------------------------------------
(* The lock, the flag of the batch and the overrides follow the scopes.    *)
ScopesTyped ==
  /\ owner \in Threads \cup {NoThread}
  /\ batchActive \in BOOLEAN
  /\ overrides \in Seq(BOOLEAN)
  /\ globally \in BOOLEAN
  /\ closed \in BOOLEAN
  /\ scopes \in [Threads -> Seq(Scope)]

LockInv ==
  /\ ScopesTyped
  /\ \A t \in Threads : Len(scopes[t]) <= MaxDepth /\ OneBatch(scopes[t])
  /\ \A t \in Threads : scopes[t] # <<>> => owner = t
  /\ owner # NoThread => depth # 0 /\ Holds(scopes[owner], overrides, depth, batchActive)
  /\ owner = NoThread => depth = 0 /\ ~batchActive /\ overrides = <<>>

\* It says what the run checks.
LEMMA LockInvSays == LockInv => ScopesHoldTheLock /\ depth \in 0..MaxDepth
  <1> SUFFICES ASSUME LockInv PROVE ScopesHoldTheLock /\ depth \in 0..MaxDepth
    OBVIOUS
  <1>1. ASSUME owner # NoThread
        PROVE  /\ owner \in Threads
               /\ depth = Len(scopes[owner])
               /\ InOrder(overrides, VerifyScopes(owner), Enabled(owner))
               /\ batchActive <=> \E k \in DOMAIN scopes[owner] : scopes[owner][k].kind = "batch"
    BY <1>1 DEF LockInv, ScopesTyped, Holds, Verifies, VerifyScopes, On, Enabled, HasBatch
  <1>2. ScopesHoldTheLock
    BY <1>1 DEF ScopesHoldTheLock, LockInv
  <1>3. CASE owner # NoThread
    <2>1. scopes[owner] \in Seq(Scope) /\ Len(scopes[owner]) <= MaxDepth
      BY <1>1, <1>3 DEF LockInv, ScopesTyped
    <2>2. Len(scopes[owner]) \in Nat
      BY <2>1, LenProperties
    <2> QED BY <1>1, <1>2, <1>3, <2>1, <2>2, DriverAssumption DEF DriverAssumption
  <1>4. CASE owner = NoThread
    BY <1>2, <1>4, DriverAssumption DEF DriverAssumption, LockInv
  <1> QED BY <1>2, <1>3, <1>4

\* A thread that may take the lock is alone.
LEMMA Alone ==
  ASSUME LockInv, NEW t \in Threads, MayLock(t)
  PROVE  /\ scopes[t] \in Seq(Scope) /\ OneBatch(scopes[t])
         /\ depth = Len(scopes[t])
         /\ Holds(scopes[t], overrides, depth, batchActive)
         /\ \A u \in Threads : u # t => scopes[u] = <<>>
  <1>1. scopes[t] \in Seq(Scope) /\ OneBatch(scopes[t])
    BY DEF LockInv, ScopesTyped
  <1>2. t # NoThread /\ \A u \in Threads : u # NoThread
    BY DriverAssumption DEF DriverAssumption
  <1>3. \A u \in Threads : u # t => scopes[u] = <<>>
    BY <1>2 DEF LockInv, MayLock
  <1>4. Holds(scopes[t], overrides, depth, batchActive)
    <2>1. CASE owner = t
      BY <1>2, <2>1 DEF LockInv
    <2>2. CASE owner = NoThread
      <3>1. scopes[t] = <<>> /\ overrides = <<>> /\ depth = 0 /\ batchActive = FALSE
        BY <1>2, <2>2 DEF LockInv, ScopesTyped
      <3> QED BY <3>1, NoScope
    <2> QED BY <2>1, <2>2 DEF MayLock
  <1>5. depth = Len(scopes[t])
    BY <1>4 DEF Holds
  <1> QED BY <1>1, <1>3, <1>4, <1>5

\* The variables that the lock is about.
scopeVars == <<lockVars, batchActive, overrides, scopes>>

\* Nothing is entered or left.
LEMMA QuietLock ==
  ASSUME LockInv, UNCHANGED scopeVars, globally' \in BOOLEAN, closed' \in BOOLEAN
  PROVE  LockInv'
  BY DEF LockInv, ScopesTyped, scopeVars, lockVars

\* A scope is entered.
LEMMA EnterScope ==
  ASSUME LockInv, NEW t \in Threads, NEW e \in Scope,
         Len(scopes[t]) < MaxDepth, Lock(t),
         scopes' = [scopes EXCEPT ![t] = Append(@, e)],
         Holds(Append(scopes[t], e), overrides', Len(scopes[t]) + 1, batchActive'),
         OneBatch(Append(scopes[t], e)),
         ScopesTyped'
  PROVE  LockInv'
  <1>1. /\ MayLock(t) /\ owner' = t /\ depth' = depth + 1
        /\ scopes[t] \in Seq(Scope) /\ depth = Len(scopes[t])
        /\ \A u \in Threads : u # t => scopes[u] = <<>>
    BY Alone DEF Lock
  <1>2. /\ Len(scopes[t]) \in Nat
        /\ Len(Append(scopes[t], e)) = Len(scopes[t]) + 1
    BY <1>1, Appended
  <1>3. scopes'[t] = Append(scopes[t], e) /\ \A u \in Threads : u # t => scopes'[u] = scopes[u]
    BY DEF LockInv, ScopesTyped
  <1>4. t # NoThread
    BY DriverAssumption DEF DriverAssumption
  <1>5. \A u \in Threads : Len(scopes'[u]) <= MaxDepth /\ OneBatch(scopes'[u])
    <2>1. Len(scopes'[t]) <= MaxDepth
      BY <1>2, <1>3, DriverAssumption DEF DriverAssumption
    <2> QED BY <1>3, <2>1 DEF LockInv
  <1>6. depth' # 0 /\ Holds(scopes'[t], overrides', depth', batchActive')
    BY <1>1, <1>2, <1>3
  <1>7. \A u \in Threads : scopes'[u] # <<>> => owner' = u
    BY <1>1, <1>3
  <1> QED BY <1>1, <1>4, <1>5, <1>6, <1>7 DEF LockInv

\* A scope is left.
LEMMA LeaveScope ==
  ASSUME LockInv, NEW t \in Threads, NEW kind, Leave(t, kind),
         Holds(ButLast(scopes[t]), overrides', Len(scopes[t]) - 1, batchActive'),
         overrides' \in Seq(BOOLEAN), batchActive' \in BOOLEAN,
         globally' \in BOOLEAN, closed' \in BOOLEAN
  PROVE  LockInv'
  <1>1. /\ scopes[t] # <<>> /\ owner = t /\ MayLock(t)
        /\ scopes' = [scopes EXCEPT ![t] = ButLast(scopes[t])]
        /\ depth' = depth - 1
        /\ owner' = IF depth = 1 THEN NoThread ELSE owner
    BY DEF Leave, Unlock, LockInv, MayLock, ButLast
  <1>2. /\ scopes[t] \in Seq(Scope) /\ depth = Len(scopes[t]) /\ OneBatch(scopes[t])
        /\ Holds(scopes[t], overrides, depth, batchActive)
        /\ \A u \in Threads : u # t => scopes[u] = <<>>
    BY <1>1, Alone
  <1>3. /\ ButLast(scopes[t]) \in Seq(Scope) /\ Len(scopes[t]) \in Nat /\ Len(scopes[t]) > 0
        /\ Len(ButLast(scopes[t])) = Len(scopes[t]) - 1
    BY <1>1, <1>2, FrontElements
  <1>4. OneBatch(ButLast(scopes[t]))
    <2> DEFINE s == scopes[t]
    <2>1. s \in Seq(Scope) /\ s # <<>> /\ OneBatch(s)
      BY <1>1, <1>2
    <2> HIDE DEF s
    <2>2. /\ DOMAIN s = 1..Len(s) /\ DOMAIN ButLast(s) = 1..(Len(s) - 1) /\ Len(s) \in Nat
          /\ \A k \in 1..(Len(s) - 1) : ButLast(s)[k] = s[k]
      BY <2>1, FrontElements
    <2>3. OneBatch(ButLast(s))
      <3>1. \A k \in DOMAIN ButLast(s) : k \in DOMAIN s /\ ButLast(s)[k] = s[k]
        BY <2>2
      <3> QED BY <2>1, <3>1 DEF OneBatch
    <2> QED BY <2>3 DEF s
  <1>5. /\ scopes'[t] = ButLast(scopes[t])
        /\ \A u \in Threads : u # t => scopes'[u] = scopes[u]
        /\ scopes' \in [Threads -> Seq(Scope)]
    BY <1>1, <1>3 DEF LockInv, ScopesTyped
  <1>6. t # NoThread
    BY DriverAssumption DEF DriverAssumption
  <1>7. \A u \in Threads : Len(scopes'[u]) <= MaxDepth /\ OneBatch(scopes'[u])
    <2>1. Len(scopes'[t]) <= MaxDepth
      BY <1>3, <1>5, DriverAssumption DEF DriverAssumption, LockInv
    <2> QED BY <1>4, <1>5, <2>1 DEF LockInv
  <1>8. ScopesTyped'
    BY <1>1, <1>5 DEF ScopesTyped, LockInv
  <1>9. CASE depth = 1
    <2>1. ButLast(scopes[t]) = <<>>
      BY <1>2, <1>3, <1>9, EmptySeq
    <2>2. owner' = NoThread /\ depth' = 0
      BY <1>1, <1>9
    <2>3. overrides' = <<>> /\ batchActive' = FALSE
      <3>1. Holds(<<>>, overrides', Len(scopes[t]) - 1, batchActive')
        BY <2>1
      <3> QED BY <3>1, NoScope
    <2>4. \A u \in Threads : scopes'[u] = <<>>
      BY <1>2, <1>5, <2>1
    <2> QED BY <1>7, <1>8, <2>2, <2>3, <2>4 DEF LockInv
  <1>10. CASE depth # 1
    <2>1. owner' = t /\ depth' # 0
      BY <1>1, <1>2, <1>3, <1>10
    <2>2. Holds(scopes'[t], overrides', depth', batchActive')
      BY <1>1, <1>2, <1>5
    <2>3. \A u \in Threads : scopes'[u] # <<>> => owner' = u
      BY <1>2, <1>5, <2>1
    <2> QED BY <1>6, <1>7, <1>8, <2>1, <2>2, <2>3 DEF LockInv
  <1> QED BY <1>9, <1>10

-------------------------------------------------------------------------------
(* The operations that a batch has collected and their Deferreds.          *)
Unsettled == [state |-> "pending", from |-> {}]

\* The numbers of the Deferreds of the reads.
Numbers(ops) == [k \in ReadOps(ops) |-> ops[k].deferred]

\* ops are collected, numbers is the list of the batch, n Deferreds exist.
Planned(ops, numbers, n) ==
  /\ ops \in Seq(Op)
  /\ numbers \in Seq(Nat) /\ Len(numbers) = n /\ n <= Len(ops)
  /\ \A d \in 1..n : numbers[d] = d
  /\ InOrder(numbers, ReadOps(ops), Numbers(ops))

\* An operation that fits what is collected.
Fits(op, n) == op \in Op /\ (op.kind = "read" => op.deferred = n + 1)

\* Nothing is collected.
LEMMA NothingPlanned == Planned(<<>>, <<>>, 0)
  <1>1. ReadOps(<<>>) = {} /\ <<>> \in Seq(Op) /\ <<>> \in Seq(Nat) /\ Len(<<>>) = 0
    BY DEF ReadOps
  <1>2. InOrder(<<>>, {}, Numbers(<<>>))
    <2>1. <<>> \in [DOMAIN <<>> -> {}] /\ DOMAIN <<>> = {}
      OBVIOUS
    <2> QED BY <2>1 DEF InOrder
  <1> QED BY <1>1, <1>2 DEF Planned

\* One more operation.
LEMMA PlanOne ==
  ASSUME NEW ops, NEW numbers, NEW n, Planned(ops, numbers, n), NEW op, Fits(op, n)
  PROVE  /\ op.kind = "read" => Planned(Append(ops, op), Append(numbers, op.deferred), n + 1)
         /\ op.kind # "read" => Planned(Append(ops, op), numbers, n)
  <1> DEFINE l == Len(ops)
             new == Append(ops, op)
             S == ReadOps(ops)
             v == Numbers(ops)
             w == Numbers(new)
  <1>1. ops \in Seq(Op) /\ numbers \in Seq(Nat) /\ op \in Op /\ InOrder(numbers, S, v)
    BY DEF Planned, Fits
  <1>2. /\ new \in Seq(Op) /\ l \in Nat /\ Len(new) = l + 1
        /\ DOMAIN ops = 1..l /\ DOMAIN new = 1..(l + 1)
        /\ \A k \in 1..l : new[k] = ops[k]
        /\ new[l + 1] = op
    BY <1>1, Appended
  <1>3. n \in Nat /\ n = Len(numbers) /\ n <= l /\ \A d \in 1..n : numbers[d] = d
    BY <1>1, LenProperties DEF Planned
  <1> HIDE DEF l, new
  <1>4. \A k \in DOMAIN new : k \in DOMAIN ops \/ k = l + 1
    BY <1>2
  <1>5. S \subseteq Nat /\ \A k \in S : k < l + 1
    BY <1>2 DEF ReadOps
  <1>6. ASSUME op.kind = "read" PROVE Planned(new, Append(numbers, op.deferred), n + 1)
    <2> DEFINE m == Append(numbers, op.deferred)
    <2>1. op.deferred = n + 1 /\ op.deferred \in Nat
      BY <1>3, <1>6 DEF Fits
    <2>2. ReadOps(new) = S \cup {l + 1}
      BY <1>2, <1>4, <1>6 DEF ReadOps
    <2>3. (\A k \in S : w[k] = v[k]) /\ w[l + 1] = op.deferred
      <3>1. \A k \in S : k \in 1..l
        BY <1>2 DEF ReadOps
      <3> QED BY <1>2, <2>2, <3>1 DEF Numbers
    <2> HIDE DEF v, w, S
    <2>4. InOrder(m, S \cup {l + 1}, w)
      <3> DEFINE e == op.deferred
                 p == l + 1
      <3>1. p \in Nat /\ e \in Nat /\ (\A k \in S : k < p) /\ w[p] = e
        BY <1>2, <1>5, <2>1, <2>3
      <3> HIDE DEF e, p
      <3>2. InOrder(Append(numbers, e), S \cup {p}, w)
        BY <1>1, <1>5, <2>3, <3>1, InOrderAdd
      <3> QED BY <3>2 DEF e, p
    <2>5. /\ m \in Seq(Nat) /\ Len(m) = n + 1
          /\ \A d \in 1..n : m[d] = numbers[d]
          /\ m[n + 1] = op.deferred
      BY <1>1, <1>3, <2>1, Appended
    <2> HIDE DEF m
    <2>6. \A d \in 1..(n + 1) : m[d] = d
      <3>1. \A d \in 1..(n + 1) : d \in 1..n \/ d = n + 1
        BY <1>3
      <3> QED BY <1>3, <2>1, <2>5, <3>1
    <2>7. n + 1 <= Len(new)
      BY <1>2, <1>3
    <2>8. Planned(new, m, n + 1)
      BY <1>2, <2>2, <2>4, <2>5, <2>6, <2>7 DEF Planned, w
    <2> QED BY <2>8 DEF m
  <1>7. ASSUME op.kind # "read" PROVE Planned(new, numbers, n)
    <2>1. ReadOps(new) = S
      BY <1>2, <1>4, <1>7 DEF ReadOps
    <2>2. \A k \in S : w[k] = v[k]
      <3>1. \A k \in S : k \in 1..l
        BY <1>2 DEF ReadOps
      <3> QED BY <1>2, <2>1, <3>1 DEF Numbers
    <2> HIDE DEF v, w, S
    <2>3. InOrder(numbers, S, w)
      BY <1>1, <2>2, InOrderSame
    <2> QED BY <1>1, <1>2, <1>3, <2>1, <2>3 DEF Planned, w
  <1> QED BY <1>6, <1>7 DEF new

\* The read behind a Deferred is unique.
LEMMA ReadOfDeferred ==
  ASSUME NEW ops, NEW numbers, NEW n, Planned(ops, numbers, n)
  PROVE  /\ \A d \in 1..n : ReadOf(ops, d) \in ReadOps(ops)
         /\ \A k \in ReadOps(ops) : ops[k].deferred \in 1..n /\ ReadOf(ops, ops[k].deferred) = k
  <1> DEFINE S == ReadOps(ops)
  <1>1. n \in Nat /\ DOMAIN numbers = 1..n
    BY LenProperties DEF Planned
  <1>2. PICK place \in [1..n -> S] :
          /\ \A k \in S : \E i \in 1..n : place[i] = k
          /\ \A i \in 1..n : numbers[i] = Numbers(ops)[place[i]]
    <2>1. InOrder(numbers, S, Numbers(ops))
      BY DEF Planned
    <2>2. PICK place \in [DOMAIN numbers -> S] :
            /\ \A k \in S : \E i \in DOMAIN numbers : place[i] = k
            /\ \A i \in DOMAIN numbers : numbers[i] = Numbers(ops)[place[i]]
      BY <2>1, Zenon DEF InOrder
    <2> QED BY <1>1, <2>2
  <1>3. \A i \in 1..n : place[i] \in S /\ ops[place[i]].deferred = i
    BY <1>2 DEF Planned, Numbers
  <1>4. ASSUME NEW i \in 1..n PROVE ReadOf(ops, i) = place[i]
    <2>1. \A k \in S : ops[k].deferred = i => k = place[i]
      <3> SUFFICES ASSUME NEW k \in S, ops[k].deferred = i PROVE k = place[i]
        OBVIOUS
      <3>1. PICK j \in 1..n : place[j] = k
        BY <1>2
      <3> QED BY <1>3, <3>1
    <2> HIDE DEF S
    <2> QED BY <1>3, <2>1 DEF ReadOf, S
  <1>5. ASSUME NEW k \in S PROVE ops[k].deferred \in 1..n /\ ReadOf(ops, ops[k].deferred) = k
    <2>1. PICK i \in 1..n : place[i] = k
      BY <1>2
    <2> QED BY <1>3, <1>4, <2>1
  <1> QED BY <1>3, <1>4, <1>5

-------------------------------------------------------------------------------
(* What a run leaves behind.                                               *)
IsOutcome(ops, o) ==
  /\ o.kind \in Raised \cup {"result"}
  /\ o.kind = "result" =>
       \A i \in DOMAIN Compile(ops) : o.responses[i] \in ResponseClasses

\* What the executor can answer.
LEMMA OutcomesFit ==
  ASSUME NEW ops \in Seq(Op), NEW o \in Outcomes(ops)
  PROVE  IsOutcome(ops, o)
  <1> DEFINE C == Compile(ops)
             n == Len(C)
  <1>1. C \in Seq(Command)
    BY Plan
  <1>2. DOMAIN C = 1..n
    <2> HIDE DEF C
    <2> QED BY <1>1, LenProperties
  <1>3. ASSUME NEW r \in Responses(ops), NEW i \in 1..n PROVE r[i] \in ResponseClasses
    <2>1. PICK F \in SUBSET Queries(ops) :
            r \in {[j \in 1..n |-> IF j \in F THEN fault[j]
                                   ELSE IF j \in Queries(ops) THEN "good" ELSE "missing"] :
                     fault \in [F -> ResponseClasses \ {"good"}]}
      BY DEF Responses
    <2>2. PICK fault \in [F -> ResponseClasses \ {"good"}] :
            r = [j \in 1..n |-> IF j \in F THEN fault[j]
                                ELSE IF j \in Queries(ops) THEN "good" ELSE "missing"]
      BY <2>1
    <2> QED BY <2>2 DEF ResponseClasses
  <1>4. \/ o.kind \in Raised
        \/ o.kind = "result" /\ o.responses \in Responses(ops)
    <2>1. CASE closed
      BY <2>1 DEF Outcomes, Raised
    <2>2. CASE ~closed
      BY <2>2 DEF Outcomes, Raised
    <2> QED BY <2>1, <2>2
  <1>5. o.kind = "result" => o.kind \notin Raised
    BY DEF Raised
  <1> HIDE DEF n
  <1> QED BY <1>2, <1>3, <1>4, <1>5 DEF IsOutcome

\* defs are the Deferreds after the run of ops with outcome o and error e.
SettledBy(ops, o, e, defs) ==
  e.kind \notin {"validation", "assertion"} =>
    \A k \in ReadOps(ops) :
      LET d == defs[ops[k].deferred] IN
      /\ d.state # "pending"
      /\ d.state = "value" =>
           /\ d.from = {i \in DOMAIN Compile(ops) : Compile(ops)[i].op = k}
           /\ \A i \in d.from : o.responses[i] \in {"good", "differs"}

\* A run settles the Deferreds of its reads.
LEMMA RunSettles ==
  ASSUME NEW ops, NEW numbers, NEW n, Planned(ops, numbers, n),
         NEW defs \in Seq({Unsettled}), Len(defs) = n,
         NEW o, IsOutcome(ops, o)
  PROVE  /\ Settle(defs, ops, o) \in Seq(Deferred)
         /\ SettledBy(ops, o, ErrorOf(ops, o), Settle(defs, ops, o))
         /\ ErrorOf(ops, o).kind = "none" =>
              \A d \in 1..n : Settle(defs, ops, o)[d].state = "value"
  <1> DEFINE e == ErrorOf(ops, o)
             new == Settle(defs, ops, o)
             unsettled == e.kind \in {"validation", "assertion"}
             rejected == IF o.kind # "result" THEN ReadOps(ops)
                         ELSE {f.op : f \in ReadErrors(ops, o.responses)}
  <1>1. /\ n \in Nat /\ DOMAIN defs = 1..n /\ ops \in Seq(Op)
        /\ \A d \in 1..n : defs[d] = Unsettled
    BY LenProperties DEF Planned
  <1>2. /\ \A d \in 1..n : ReadOf(ops, d) \in ReadOps(ops)
        /\ \A k \in ReadOps(ops) : ops[k].deferred \in 1..n /\ ReadOf(ops, ops[k].deferred) = k
    BY ReadOfDeferred
  <1>3. ErrorsFit(ops, o, e)
    BY <1>1, VerdictOfOutcome DEF IsOutcome
  <1>4. new = [d \in 1..n |-> [state |-> IF unsettled THEN "pending"
                                         ELSE IF ReadOf(ops, d) \in rejected THEN "rejected"
                                         ELSE "value",
                               from |-> ReadIndexes(ops, ReadOf(ops, d))]]
    BY <1>1 DEF Settle, Unsettled
  <1> HIDE DEF new, unsettled, rejected, e
  <1>5. ASSUME NEW k \in ReadOps(ops)
        PROVE  /\ ReadIndexes(ops, k) \subseteq Nat
               /\ ReadIndexes(ops, k) = {i \in DOMAIN Compile(ops) : Compile(ops)[i].op = k}
    <2>1. k \in DOMAIN ops /\ ops[k].kind = "read"
      BY DEF ReadOps
    <2>2. ReadIndexes(ops, k) = {i \in DOMAIN Compile(ops) : Compile(ops)[i].op = k}
      BY <1>1, <2>1, IndexesPointAtCommands
    <2>3. CommandsBefore(ops, k) \in Nat
      BY <1>1, <2>1, Plan
    <2>4. ops[k].size \in Nat
      BY <1>1, <2>1, CommandsOfEach
    <2> QED BY <2>2, <2>3, <2>4 DEF ReadIndexes
  <1>6. new \in Seq(Deferred)
    <2>1. \A d \in 1..n : new[d] \in Deferred
      BY <1>2, <1>4, <1>5 DEF Deferred
    <2>2. new \in [1..n -> Deferred]
      BY <1>4, <2>1
    <2> QED BY <1>1, <2>2
  <1>7. SettledBy(ops, o, e, new)
    <2> SUFFICES ASSUME ~unsettled, NEW k \in ReadOps(ops)
                 PROVE  LET d == new[ops[k].deferred] IN
                        /\ d.state # "pending"
                        /\ d.state = "value" =>
                             /\ d.from = {i \in DOMAIN Compile(ops) : Compile(ops)[i].op = k}
                             /\ \A i \in d.from : o.responses[i] \in {"good", "differs"}
      BY DEF SettledBy, unsettled
    <2> DEFINE d == new[ops[k].deferred]
    <2>1. /\ d.state = IF k \in rejected THEN "rejected" ELSE "value"
          /\ d.from = ReadIndexes(ops, k)
      BY <1>2, <1>4
    <2> HIDE DEF d
    <2>2. ASSUME k \notin rejected, NEW i \in ReadIndexes(ops, k)
          PROVE  o.responses[i] \in {"good", "differs"}
      <3>1. o.kind = "result" /\ k \notin {f.op : f \in ReadErrors(ops, o.responses)}
        BY <2>2 DEF rejected
      <3>2. o.responses[i] \notin {"missing", "bad"}
        <4> SUFFICES ASSUME o.responses[i] \in {"missing", "bad"} PROVE FALSE
          OBVIOUS
        <4> DEFINE f == [kind |-> IF \E j \in ReadIndexes(ops, k) : o.responses[j] = "missing"
                                  THEN "noResponse" ELSE "parse",
                         op |-> k, index |-> CommandsBefore(ops, k) + 1]
        <4>1. f \in ReadErrors(ops, o.responses)
          BY <2>2 DEF ReadErrors
        <4>2. f.op = k
          OBVIOUS
        <4> HIDE DEF f
        <4> QED BY <3>1, <4>1, <4>2
      <3>3. i \in DOMAIN Compile(ops)
        BY <1>5
      <3>4. o.responses[i] \in ResponseClasses
        BY <3>1, <3>3 DEF IsOutcome
      <3> QED BY <3>2, <3>4 DEF ResponseClasses
    <2>3. d.state # "pending"
      BY <2>1
    <2>4. d.state = "value" => k \notin rejected
      BY <2>1
    <2> QED BY <1>5, <2>1, <2>2, <2>3, <2>4 DEF d
  <1>8. ASSUME e.kind = "none", NEW i \in 1..n PROVE new[i].state = "value"
    <2>1. o.kind = "result" /\ Faults(ops, o.responses) = {}
      BY <1>3, <1>8 DEF ErrorsFit
    <2>2. ReadErrors(ops, o.responses) = {}
      <3>1. Collected(ops, o.responses) = {}
        BY <1>1, <2>1, VerdictOfResult
      <3> QED BY <3>1 DEF Collected
    <2>3. rejected = {} /\ ~unsettled
      BY <1>8, <2>1, <2>2 DEF rejected, unsettled
    <2> QED BY <1>4, <2>3
  <1> QED BY <1>6, <1>7, <1>8 DEF new, e

-------------------------------------------------------------------------------
(* The last run.                                                           *)

\* A step that ran no operations of the driver's own.
NoOps(r) ==
  /\ r.ops = <<>> /\ r.commands = <<>> /\ r.batch = FALSE
  /\ r.error.kind \in Raised \cup {"none"}
  /\ r.outcome.kind = "result" => r.error = NoError

\* A step that ran some, and left these Deferreds.
RanOps(r, defs) ==
  /\ r.ops \in Seq(Op) /\ r.commands = Compile(r.ops)
  /\ IsOutcome(r.ops, r.outcome) /\ r.error = ErrorOf(r.ops, r.outcome)
  /\ \A k \in DOMAIN r.ops : r.ops[k].thread = r.thread
  /\ SettledBy(r.ops, r.outcome, r.error, defs)
  /\ r.batch =>
       IF r.error.kind = "none"
       THEN /\ InOrder(r.list, ReadOps(r.ops), Numbers(r.ops))
            /\ \A i \in DOMAIN r.list : defs[r.list[i]].state = "value"
       ELSE r.list = <<>>

RunOK == NoOps(lastRun) \/ RanOps(lastRun, deferreds)

\* What the runs check of the last run.
LEMMA RunOKSays ==
  ASSUME RunOK
  PROVE  /\ lastRun.ops \in Seq(Op) /\ lastRun.error.kind \in Errors
         /\ \A k \in DOMAIN lastRun.ops : lastRun.ops[k].thread = lastRun.thread
         /\ ListFilledOnSuccess /\ SuccessMeansVerified /\ FirstFaultRaised
         /\ VerificationErrorAfterWrite /\ SettledByItsRun
  <1> DEFINE ops == lastRun.ops
             o == lastRun.outcome
             e == lastRun.error
             C == Compile(ops)
  <1>1. CASE NoOps(lastRun)
    <2>1. ops = <<>> /\ lastRun.commands = <<>> /\ lastRun.batch = FALSE
      BY <1>1 DEF NoOps
    <2>2. e.kind \in Raised \cup {"none"} /\ (o.kind = "result" => e = NoError)
      BY <1>1 DEF NoOps
    <2>3. DOMAIN ops = {} /\ DOMAIN lastRun.commands = {} /\ ops \in Seq(Op)
      BY <2>1
    <2>4. e.kind \in Errors /\ e.kind # "verification"
      BY <2>2 DEF Raised, Errors
    <2>5. ListFilledOnSuccess
      BY <2>1 DEF ListFilledOnSuccess
    <2>6. SuccessMeansVerified
      BY <2>3 DEF SuccessMeansVerified
    <2>7. FirstFaultRaised
      <3>1. AtFault = {}
        BY <2>3 DEF AtFault
      <3> QED BY <2>2, <3>1 DEF FirstFaultRaised
    <2>8. VerificationErrorAfterWrite
      BY <2>4 DEF VerificationErrorAfterWrite
    <2>9. SettledByItsRun
      BY <2>3 DEF SettledByItsRun, ReadOps
    <2> QED BY <2>3, <2>4, <2>5, <2>6, <2>7, <2>8, <2>9
  <1>2. CASE RanOps(lastRun, deferreds)
    <2>1. /\ ops \in Seq(Op) /\ lastRun.commands = C
          /\ IsOutcome(ops, o) /\ e = ErrorOf(ops, o)
          /\ \A k \in DOMAIN ops : ops[k].thread = lastRun.thread
      BY <1>2 DEF RanOps
    <2>2. ErrorsFit(ops, o, e)
      BY <2>1, VerdictOfOutcome DEF IsOutcome
    <2>3. AtFault = Faults(ops, o.responses)
      BY <2>1 DEF AtFault, Faults
    <2>4. e.kind \in Errors
      BY <2>2 DEF ErrorsFit
    <2>5. ListFilledOnSuccess
      BY <1>2 DEF RanOps, ListFilledOnSuccess, Numbers
    <2>6. SuccessMeansVerified
      <3> SUFFICES ASSUME e.kind = "none", NEW i \in DOMAIN C, C[i].role = "write",
                          ops[C[i].op].verify # "off"
                   PROVE  /\ ops[C[i].op].verify = "query"
                          /\ C[i + 1] = [op |-> C[i].op, role |-> "readback"]
                          /\ o.responses[i + 1] = "good"
        BY <2>1 DEF SuccessMeansVerified
      <3> DEFINE k == C[i].op
      <3>1. Faults(ops, o.responses) = {}
        BY <2>2 DEF ErrorsFit
      <3>2. k \in DOMAIN ops /\ ops[k].kind = "write" /\ i = WriteIndex(ops, k)
        BY <2>1, RoleOfCommand
      <3>3. ops[k].verify # "none"
        BY <3>1 DEF Faults
      <3>4. ops[k].verify = "query"
        <4>1. ops[k] \in Op
          BY <2>1, <3>2, CommandsOfEach
        <4>2. ops[k].verify \in {"off", "query", "none"}
          <5> DEFINE op == ops[k]
          <5>1. op \in Op /\ op.kind = "write"
            BY <3>2, <4>1
          <5> HIDE DEF op
          <5>2. op.verify \in {"off", "query", "none"}
            BY <5>1 DEF Op, ReadOp, WriteOp
          <5> QED BY <5>2 DEF op
        <4> QED BY <3>3, <4>2
      <3>5. QueryIndex(ops, k) = i + 1
        BY <2>1, <3>2, <3>4, IndexesPointAtCommands
      <3>6. i + 1 \in DOMAIN C /\ C[i + 1] = [op |-> k, role |-> "readback"]
        BY <2>1, <3>2, <3>4, <3>5, IndexesPoint
      <3>7. o.responses[i + 1] = "good"
        BY <3>1, <3>6 DEF Faults
      <3> QED BY <3>4, <3>6, <3>7
    <2>7. FirstFaultRaised
      BY <2>1, <2>2, <2>3 DEF FirstFaultRaised, ErrorsFit
    <2>8. VerificationErrorAfterWrite
      BY <2>1, <2>2 DEF VerificationErrorAfterWrite, ErrorsFit
    <2>9. SettledByItsRun
      BY <1>2, <2>1 DEF RanOps, SettledBy, SettledByItsRun
    <2> QED BY <2>1, <2>4, <2>5, <2>6, <2>7, <2>8, <2>9
  <1> QED BY <1>1, <1>2 DEF RunOK

\* A run of what was collected.
LEMMA RunMade ==
  ASSUME NEW ops, NEW numbers, NEW defs \in Seq({Unsettled}), Planned(ops, numbers, Len(defs)),
         NEW o \in Outcomes(ops),
         NEW t, \A k \in DOMAIN ops : ops[k].thread = t,
         NEW r, r.ops = ops, r.commands = Compile(ops), r.outcome = o,
         r.error = ErrorOf(ops, o), r.thread = t,
         r.batch => r.list = IF r.error = NoError THEN numbers ELSE <<>>
  PROVE  /\ Settle(defs, ops, o) \in Seq(Deferred)
         /\ RanOps(r, Settle(defs, ops, o))
  <1> DEFINE new == Settle(defs, ops, o)
             n == Len(defs)
             e == r.error
  <1>1. ops \in Seq(Op) /\ IsOutcome(ops, o)
    BY OutcomesFit DEF Planned
  <1>2. /\ new \in Seq(Deferred)
        /\ SettledBy(ops, o, e, new)
        /\ e.kind = "none" => \A d \in 1..n : new[d].state = "value"
    BY <1>1, RunSettles
  <1>3. ErrorsFit(ops, o, e)
    BY <1>1, VerdictOfOutcome DEF IsOutcome
  <1>4. e.kind = "none" <=> e = NoError
    BY <1>3 DEF ErrorsFit, NoError
  <1> HIDE DEF new, e
  <1>5. r.batch =>
          IF e.kind = "none"
          THEN /\ InOrder(r.list, ReadOps(ops), Numbers(ops))
               /\ \A i \in DOMAIN r.list : new[r.list[i]].state = "value"
          ELSE r.list = <<>>
    <2>1. /\ InOrder(numbers, ReadOps(ops), Numbers(ops))
          /\ DOMAIN numbers = 1..n /\ \A d \in 1..n : numbers[d] = d
      BY LenProperties DEF Planned
    <2>2. e.kind = "none" => \A i \in DOMAIN numbers : new[numbers[i]].state = "value"
      BY <1>2, <2>1
    <2>3. r.batch => r.list = IF e.kind = "none" THEN numbers ELSE <<>>
      BY <1>4 DEF e
    <2> QED BY <2>1, <2>2, <2>3
  <1>6. RanOps(r, new)
    BY <1>1, <1>2, <1>5 DEF RanOps, e
  <1> QED BY <1>2, <1>6 DEF new

\* The operations that a thread can call.
LEMMA CallableFits ==
  ASSUME NEW t \in Threads, NEW op \in Callable(t)
  PROVE  /\ Fits(op, Len(Known)) /\ op.thread = t
         /\ op.kind = "write" => ((op.verify # "off") <=> VerifiesWrites = TRUE)
  <1>1. PICK p \in Used \X BOOLEAN : op = Operation(t, p[1], p[2])
    BY DEF Callable
  <1>2. p[1] \in Names /\ p[2] \in BOOLEAN
    BY <1>1, DriverAssumption DEF DriverAssumption
  <1>3. CASE p[1] \in Reads
    <2>1. op = [kind |-> "read", size |-> Size(p[1]), valid |-> p[2], thread |-> t,
                name |-> p[1], deferred |-> Len(Known) + 1]
      BY <1>1, <1>3 DEF Operation
    <2>2. Size(p[1]) \in {1, 4}
      BY DEF Size
    <2> QED BY <1>2, <2>1, <2>2 DEF Fits, Op, ReadOp
  <1>4. CASE p[1] \notin Reads
    <2>1. op = [kind |-> "write", valid |-> p[2], thread |-> t, name |-> p[1],
                verify |-> IF ~VerifiesWrites THEN "off"
                           ELSE IF Readable(p[1], Model) THEN "query" ELSE "none"]
      BY <1>1, <1>4 DEF Operation
    <2> QED BY <1>2, <2>1 DEF Fits, Op, WriteOp
  <1> QED BY <1>3, <1>4

-------------------------------------------------------------------------------
(* The inductive invariant.                                                *)
BatchOK ==
  /\ batchActive =>
       /\ Planned(pending, responseDeferreds, Len(deferreds))
       /\ deferreds \in Seq({Unsettled})
       /\ Len(pending) <= MaxOps
       /\ \A k \in DOMAIN pending : pending[k].thread = owner
  /\ ~batchActive => pending = <<>> /\ responseDeferreds = <<>>
  /\ deferreds \in Seq(Deferred)

DriverInv == LockInv /\ BatchOK /\ RunOK

\* It says what the run checks.
LEMMA DriverInvSays ==
  DriverInv => /\ TypeOK /\ ScopesHoldTheLock /\ BatchOfOneThread
               /\ ListFilledOnSuccess /\ SuccessMeansVerified /\ FirstFaultRaised
               /\ VerificationErrorAfterWrite /\ SettledByItsRun
  <1> SUFFICES ASSUME DriverInv
               PROVE  /\ TypeOK /\ ScopesHoldTheLock /\ BatchOfOneThread
                      /\ ListFilledOnSuccess /\ SuccessMeansVerified /\ FirstFaultRaised
                      /\ VerificationErrorAfterWrite /\ SettledByItsRun
    OBVIOUS
  <1>1. ScopesHoldTheLock /\ depth \in 0..MaxDepth
    BY LockInvSays DEF DriverInv
  <1>2. /\ lastRun.ops \in Seq(Op) /\ lastRun.error.kind \in Errors
        /\ \A k \in DOMAIN lastRun.ops : lastRun.ops[k].thread = lastRun.thread
        /\ ListFilledOnSuccess /\ SuccessMeansVerified /\ FirstFaultRaised
        /\ VerificationErrorAfterWrite /\ SettledByItsRun
    BY RunOKSays DEF DriverInv
  <1>3. BatchOfOneThread
    BY <1>2 DEF BatchOfOneThread, DriverInv, BatchOK
  <1>4. pending \in Seq(Op) /\ Len(pending) <= MaxOps /\ responseDeferreds \in Seq(1..MaxOps)
    <2>1. CASE batchActive
      <3> DEFINE n == Len(deferreds)
                 m == Len(pending)
      <3>1. /\ pending \in Seq(Op) /\ m <= MaxOps
            /\ responseDeferreds \in Seq(Nat) /\ Len(responseDeferreds) = n /\ n <= m
            /\ \A d \in 1..n : responseDeferreds[d] = d
        BY <2>1 DEF DriverInv, BatchOK, Planned
      <3>2. n \in Nat /\ m \in Nat /\ responseDeferreds \in [1..n -> Nat]
        BY <3>1, LenProperties
      <3>3. \A d \in 1..n : responseDeferreds[d] \in 1..MaxOps
        BY <3>1, <3>2, DriverAssumption DEF DriverAssumption
      <3> HIDE DEF n, m
      <3>4. responseDeferreds \in [1..n -> 1..MaxOps]
        BY <3>2, <3>3
      <3>5. responseDeferreds \in Seq(1..MaxOps)
        <4> DEFINE S == 1..MaxOps
        <4>1. responseDeferreds \in [1..n -> S]
          BY <3>4
        <4> HIDE DEF S
        <4>2. responseDeferreds \in Seq(S)
          BY <3>2, <4>1
        <4> QED BY <4>2 DEF S
      <3> QED BY <3>1, <3>5 DEF m
    <2>2. CASE ~batchActive
      <3>1. pending = <<>> /\ responseDeferreds = <<>>
        BY <2>2 DEF DriverInv, BatchOK
      <3>2. <<>> \in Seq(Op) /\ <<>> \in Seq(1..MaxOps) /\ Len(<<>>) = 0
        OBVIOUS
      <3> QED BY <3>1, <3>2, DriverAssumption DEF DriverAssumption
    <2> QED BY <2>1, <2>2
  <1>5. ScopesTyped /\ deferreds \in Seq(Deferred)
    BY DEF DriverInv, LockInv, BatchOK
  <1>6. TypeOK
    BY <1>1, <1>2, <1>4, <1>5 DEF TypeOK, ScopesTyped
  <1> QED BY <1>1, <1>2, <1>3, <1>6

\* The first state.
LEMMA InitDriver == Init => DriverInv
  <1> SUFFICES ASSUME Init PROVE DriverInv
    OBVIOUS
  <1>1. LockInv
    <2>1. scopes = [t \in Threads |-> <<>>] /\ <<>> \in Seq(Scope) /\ <<>> \in Seq(BOOLEAN)
      BY DEF Init
    <2>2. ScopesTyped
      BY <2>1 DEF Init, ScopesTyped
    <2>3. \A t \in Threads : scopes[t] = <<>> /\ Len(scopes[t]) <= MaxDepth /\ OneBatch(scopes[t])
      BY <2>1, NoScope, DriverAssumption DEF DriverAssumption
    <2> QED BY <2>2, <2>3 DEF LockInv, Init
  <1>2. BatchOK
    BY DEF Init, BatchOK
  <1>3. NoOps(NoRun)
    BY DEF NoOps, NoRun, NoError
  <1>4. RunOK
    BY <1>3 DEF RunOK, Init
  <1> QED BY <1>1, <1>2, <1>4 DEF DriverInv

\* What is known of the Deferreds when a call is made.
LEMMA KnownDeferreds ==
  ASSUME BatchOK, batchActive \in BOOLEAN
  PROVE  /\ Known \in Seq({Unsettled}) /\ Known \in Seq(Deferred)
         /\ batchActive => Known = deferreds
         /\ ~batchActive => Known = <<>>
         /\ Planned(pending, responseDeferreds, Len(Known))
  <1>1. CASE batchActive
    BY <1>1 DEF BatchOK, Known
  <1>2. CASE ~batchActive
    <2>1. Known = <<>> /\ pending = <<>> /\ responseDeferreds = <<>>
      BY <1>2 DEF BatchOK, Known
    <2>2. <<>> \in Seq({Unsettled}) /\ <<>> \in Seq(Deferred) /\ Len(<<>>) = 0
      OBVIOUS
    <2> QED BY <1>2, <2>1, <2>2, NothingPlanned
  <1> QED BY <1>1, <1>2

\* A step that runs nothing and leaves the batch alone.
LEMMA NoNewRunOK ==
  ASSUME BatchOK, batchActive \in BOOLEAN, NoNewRun,
         UNCHANGED <<pending, responseDeferreds>>, batchActive' = batchActive,
         batchActive => owner' = owner
  PROVE  BatchOK' /\ RunOK'
  <1>1. NoOps(NoRun)
    BY DEF NoOps, NoRun, NoError
  <1>2. RunOK'
    BY <1>1 DEF RunOK, NoNewRun
  <1>3. /\ Known \in Seq(Deferred)
        /\ batchActive => Known = deferreds
    BY KnownDeferreds
  <1>4. BatchOK'
    BY <1>3 DEF BatchOK, NoNewRun
  <1> QED BY <1>2, <1>4

\* The Deferreds and the list with one more operation.
LEMMA OneMore ==
  ASSUME BatchOK, batchActive \in BOOLEAN, NEW t \in Threads, NEW op \in Callable(t)
  PROVE  /\ op.thread = t /\ op \in Op
         /\ NewDeferred(op) \in Seq({Unsettled})
         /\ Planned(Append(pending, op),
                    IF op.kind = "read" THEN Append(responseDeferreds, op.deferred)
                                        ELSE responseDeferreds,
                    Len(NewDeferred(op)))
  <1>1. Fits(op, Len(Known)) /\ op.thread = t
    BY CallableFits
  <1>2. Known \in Seq({Unsettled}) /\ Planned(pending, responseDeferreds, Len(Known))
    BY KnownDeferreds
  <1>3. Append(Known, Unsettled) \in Seq({Unsettled})
        /\ Len(Append(Known, Unsettled)) = Len(Known) + 1
    BY <1>2, Appended
  <1>4. CASE op.kind = "read"
    <2>1. NewDeferred(op) = Append(Known, Unsettled)
      BY <1>4 DEF NewDeferred, Unsettled
    <2>2. Planned(Append(pending, op), Append(responseDeferreds, op.deferred), Len(Known) + 1)
      BY <1>1, <1>2, <1>4, PlanOne
    <2> QED BY <1>1, <1>3, <1>4, <2>1, <2>2 DEF Fits
  <1>5. CASE op.kind # "read"
    <2>1. NewDeferred(op) = Known
      BY <1>5 DEF NewDeferred
    <2>2. Planned(Append(pending, op), responseDeferreds, Len(Known))
      BY <1>1, <1>2, <1>5, PlanOne
    <2> QED BY <1>1, <1>2, <1>5, <2>1, <2>2 DEF Fits
  <1> QED BY <1>4, <1>5

(***************************************************************************)
(* Each action.                                                            *)
(***************************************************************************)

\* The flag and the owner of an open batch.
LEMMA OpenBatch ==
  ASSUME LockInv, batchActive
  PROVE  /\ owner # NoThread /\ owner \in Threads
         /\ \A t \in Threads : MayLock(t) => owner = t
  BY DEF LockInv, ScopesTyped, MayLock

\* Collect appends a fitting operation.
LEMMA CollectKeeps ==
  ASSUME DriverInv, NEW t \in Threads, Collect(t)
  PROVE  DriverInv'
  <1>1. PICK op \in Callable(t) :
          /\ pending' = Append(pending, op)
          /\ deferreds' = NewDeferred(op)
          /\ responseDeferreds' = IF op.kind = "read" THEN Append(responseDeferreds, op.deferred)
                                                      ELSE responseDeferreds
    BY DEF Collect
  <1>2. /\ MayLock(t) /\ batchActive /\ Len(pending) < MaxOps /\ lastRun' = NoRun
        /\ UNCHANGED <<lockVars, batchActive, modeVars, closed, scopes>>
    BY DEF Collect
  <1>3. LockInv /\ BatchOK /\ batchActive \in BOOLEAN /\ owner = t
    BY <1>2, OpenBatch DEF DriverInv, LockInv, ScopesTyped
  <1>4. LockInv'
    BY <1>2, <1>3, QuietLock DEF scopeVars, modeVars, LockInv, ScopesTyped
  <1>5. /\ op.thread = t /\ op \in Op /\ deferreds' \in Seq({Unsettled})
        /\ Planned(pending', responseDeferreds', Len(deferreds'))
    BY <1>1, <1>3, OneMore
  <1>6. pending \in Seq(Op) /\ \A k \in DOMAIN pending : pending[k].thread = t
    BY <1>2, <1>3 DEF BatchOK, Planned
  <1>7. Len(pending') <= MaxOps /\ \A k \in DOMAIN pending' : pending'[k].thread = t
    <2>1. /\ Len(pending) \in Nat /\ Len(pending') = Len(pending) + 1
          /\ DOMAIN pending = 1..Len(pending) /\ DOMAIN pending' = 1..(Len(pending) + 1)
          /\ \A k \in 1..Len(pending) : pending'[k] = pending[k]
          /\ pending'[Len(pending) + 1] = op
      BY <1>1, <1>5, <1>6, Appended
    <2>2. Len(pending') <= MaxOps
      BY <1>2, <2>1, DriverAssumption DEF DriverAssumption
    <2>3. \A k \in DOMAIN pending' : k \in 1..Len(pending) \/ k = Len(pending) + 1
      BY <2>1
    <2> QED BY <1>5, <1>6, <2>1, <2>2, <2>3
  <1>8. deferreds' \in Seq(Deferred)
    <2>1. Unsettled \in Deferred
      BY DEF Unsettled, Deferred
    <2> QED BY <1>5, <2>1, SeqMonotonic
  <1>9. BatchOK'
    BY <1>2, <1>3, <1>5, <1>7, <1>8 DEF BatchOK, lockVars
  <1>10. RunOK'
    <2>1. NoOps(NoRun)
      BY DEF NoOps, NoRun, NoError
    <2> QED BY <1>2, <2>1 DEF RunOK
  <1> QED BY <1>4, <1>9, <1>10 DEF DriverInv

\* An operation outside a batch is a batch of its own.
LEMMA ExecuteNowKeeps ==
  ASSUME DriverInv, NEW t \in Threads, ExecuteNow(t)
  PROVE  DriverInv'
  <1>1. PICK op \in Callable(t) : \E outcome \in Outcomes(<<op>>) :
          /\ deferreds' = Settle(NewDeferred(op), <<op>>, outcome)
          /\ lastRun' = RunOf(t, <<op>>, outcome, <<>>)
    BY DEF ExecuteNow
  <1>2. PICK o \in Outcomes(<<op>>) :
          /\ deferreds' = Settle(NewDeferred(op), <<op>>, o)
          /\ lastRun' = RunOf(t, <<op>>, o, <<>>)
    BY <1>1
  <1>3. ~batchActive /\ UNCHANGED <<lockVars, batchVars, modeVars, closed, scopes>>
    BY DEF ExecuteNow
  <1>4. /\ LockInv /\ BatchOK /\ batchActive \in BOOLEAN
        /\ pending = <<>> /\ responseDeferreds = <<>>
    BY <1>3 DEF DriverInv, LockInv, ScopesTyped, BatchOK
  <1>5. LockInv'
    BY <1>3, <1>4, QuietLock DEF scopeVars, batchVars, modeVars, LockInv, ScopesTyped
  <1> DEFINE numbers == IF op.kind = "read" THEN Append(<<>>, op.deferred) ELSE <<>>
             ops == <<op>>
  <1>6. /\ op.thread = t /\ NewDeferred(op) \in Seq({Unsettled})
        /\ Planned(Append(<<>>, op), numbers, Len(NewDeferred(op)))
    BY <1>4, OneMore
  <1>7. Append(<<>>, op) = ops
    OBVIOUS
  <1>8. \A k \in DOMAIN ops : ops[k].thread = t
    BY <1>6
  <1>9. /\ lastRun'.ops = ops /\ lastRun'.commands = Compile(ops) /\ lastRun'.outcome = o
        /\ lastRun'.error = ErrorOf(ops, o) /\ lastRun'.thread = t
        /\ ~lastRun'.batch
    BY <1>2, <1>3 DEF RunOf
  <1> HIDE DEF ops, numbers
  <1>10. Planned(ops, numbers, Len(NewDeferred(op))) /\ o \in Outcomes(ops)
         /\ deferreds' = Settle(NewDeferred(op), ops, o)
    BY <1>2, <1>6, <1>7 DEF ops
  <1>11. deferreds' \in Seq(Deferred) /\ RanOps(lastRun', deferreds')
    BY <1>6, <1>8, <1>9, <1>10, RunMade
  <1>12. RunOK' /\ BatchOK'
    BY <1>3, <1>4, <1>11 DEF RunOK, BatchOK, batchVars
  <1> QED BY <1>5, <1>12 DEF DriverInv

\* A raw batch leaves the driver as it is.
LEMMA ExecuteRawKeeps ==
  ASSUME DriverInv, NEW t \in Threads, ExecuteRaw(t)
  PROVE  DriverInv'
  <1>1. /\ deferreds' = Known
        /\ lastRun' = NoRun \/ RawRun(t)
        /\ UNCHANGED <<lockVars, batchVars, modeVars, closed, scopes>>
    BY DEF ExecuteRaw
  <1>2. LockInv /\ BatchOK /\ batchActive \in BOOLEAN
    BY DEF DriverInv, LockInv, ScopesTyped
  <1>3. LockInv'
    BY <1>1, <1>2, QuietLock DEF scopeVars, batchVars, modeVars, LockInv, ScopesTyped
  <1>4. BatchOK'
    BY <1>1, <1>2, KnownDeferreds DEF BatchOK, lockVars, batchVars
  <1>5. RunOK'
    <2>1. NoOps(NoRun)
      BY DEF NoOps, NoRun, NoError
    <2>2. CASE RawRun(t)
      <3>1. PICK outcome \in {"result", "spd", "gateway", "interrupt"} :
              lastRun' = [NoRun EXCEPT !.thread = t, !.outcome.kind = outcome,
                                       !.error.kind = IF outcome = "result" THEN "none"
                                                      ELSE outcome]
        BY <2>2 DEF RawRun
      <3>2. NoOps(lastRun')
        BY <3>1 DEF NoOps, NoRun, NoError, Raised
      <3> QED BY <3>2 DEF RunOK
    <2> QED BY <1>1, <2>1, <2>2 DEF RunOK
  <1> QED BY <1>3, <1>4, <1>5 DEF DriverInv

\* A batch is opened.
LEMMA EnterBatchKeeps ==
  ASSUME DriverInv, NEW t \in Threads, EnterBatch(t)
  PROVE  DriverInv'
  <1>1. /\ Len(scopes[t]) < MaxDepth /\ ~batchActive /\ Lock(t) /\ batchActive' = TRUE
        /\ pending' = <<>> /\ responseDeferreds' = <<>> /\ deferreds' = <<>>
        /\ scopes' = [scopes EXCEPT ![t] = Append(@, BatchScope)]
        /\ lastRun' = NoRun /\ UNCHANGED <<modeVars, closed>>
    BY DEF EnterBatch
  <1>2. LockInv /\ overrides \in Seq(BOOLEAN) /\ batchActive \in BOOLEAN
    BY DEF DriverInv, LockInv, ScopesTyped
  <1>3. /\ scopes[t] \in Seq(Scope) /\ OneBatch(scopes[t]) /\ depth = Len(scopes[t])
        /\ Holds(scopes[t], overrides, Len(scopes[t]), batchActive)
    BY <1>1, <1>2, Alone DEF Lock
  <1>4. /\ Holds(Append(scopes[t], BatchScope), overrides, Len(scopes[t]) + 1, TRUE)
        /\ OneBatch(Append(scopes[t], BatchScope))
    BY <1>1, <1>2, <1>3, PushScope
  <1>5. BatchScope \in Scope
    BY DEF BatchScope, Scope
  <1>6. ScopesTyped'
    <2>1. Append(scopes[t], BatchScope) \in Seq(Scope)
      BY <1>3, <1>5
    <2> QED BY <1>1, <1>2, <2>1 DEF LockInv, ScopesTyped, Lock, modeVars
  <1>7. LockInv'
    BY <1>1, <1>2, <1>4, <1>5, <1>6, EnterScope DEF modeVars
  <1>8. BatchOK'
    <2>1. <<>> \in Seq({Unsettled}) /\ <<>> \in Seq(Deferred) /\ Len(<<>>) = 0 /\ DOMAIN <<>> = {}
      OBVIOUS
    <2> QED BY <1>1, <2>1, NothingPlanned, DriverAssumption DEF BatchOK, DriverAssumption
  <1>9. RunOK'
    <2>1. NoOps(NoRun)
      BY DEF NoOps, NoRun, NoError
    <2> QED BY <1>1, <2>1 DEF RunOK
  <1> QED BY <1>7, <1>8, <1>9 DEF DriverInv

\* What the exit of a batch finds and leaves.
LEMMA LeaveBatch ==
  ASSUME DriverInv, NEW t \in Threads, Leave(t, "batch"), ClearBatch, UNCHANGED <<modeVars, closed>>
  PROVE  /\ LockInv' /\ batchActive /\ owner = t
         /\ deferreds' \in Seq(Deferred) => BatchOK'
  <1>1. LockInv /\ overrides \in Seq(BOOLEAN) /\ batchActive \in BOOLEAN
    BY DEF DriverInv, LockInv, ScopesTyped
  <1>2. scopes[t] # <<>> /\ owner = t /\ MayLock(t) /\ scopes[t][Len(scopes[t])].kind = "batch"
    BY <1>1 DEF Leave, LockInv, MayLock
  <1>3. /\ scopes[t] \in Seq(Scope) /\ OneBatch(scopes[t]) /\ depth = Len(scopes[t])
        /\ Holds(scopes[t], overrides, Len(scopes[t]), batchActive)
    BY <1>1, <1>2, Alone
  <1>4. Holds(ButLast(scopes[t]), overrides, Len(scopes[t]) - 1, FALSE)
    BY <1>1, <1>2, <1>3, PopScope
  <1>5. LockInv'
    <2>1. /\ Holds(ButLast(scopes[t]), overrides', Len(scopes[t]) - 1, batchActive')
          /\ overrides' \in Seq(BOOLEAN) /\ batchActive' \in BOOLEAN
          /\ globally' \in BOOLEAN /\ closed' \in BOOLEAN
      BY <1>1, <1>4 DEF ClearBatch, modeVars, LockInv, ScopesTyped
    <2> QED BY <1>1, <2>1, LeaveScope
  <1>6. batchActive
    <2>1. Len(scopes[t]) \in DOMAIN scopes[t]
      BY <1>2, <1>3, FrontElements
    <2> QED BY <1>1, <1>2, <1>3, <2>1 DEF Holds, HasBatch
  <1>7. deferreds' \in Seq(Deferred) => BatchOK'
    BY DEF ClearBatch, BatchOK
  <1> QED BY <1>2, <1>5, <1>6, <1>7

\* The body of the batch is done.
LEMMA ExitBatchKeeps ==
  ASSUME DriverInv, NEW t \in Threads, ExitBatch(t)
  PROVE  DriverInv'
  <1>1. PICK o \in Outcomes(pending) :
          /\ deferreds' = Settle(deferreds, pending, o)
          /\ LET run == RunOf(t, pending, o, responseDeferreds) IN
             lastRun' = IF run.error = NoError THEN run ELSE [run EXCEPT !.list = <<>>]
    BY DEF ExitBatch
  <1>2. /\ LockInv' /\ batchActive /\ owner = t
        /\ deferreds' \in Seq(Deferred) => BatchOK'
    BY LeaveBatch DEF ExitBatch
  <1>3. /\ Planned(pending, responseDeferreds, Len(deferreds)) /\ deferreds \in Seq({Unsettled})
        /\ \A k \in DOMAIN pending : pending[k].thread = t
    BY <1>2 DEF DriverInv, BatchOK
  <1> DEFINE run == RunOf(t, pending, o, responseDeferreds)
  <1>4. /\ run.ops = pending /\ run.commands = Compile(pending) /\ run.outcome = o
        /\ run.error = ErrorOf(pending, o) /\ run.thread = t /\ run.list = responseDeferreds
    BY DEF RunOf
  <1>5. /\ lastRun'.ops = pending /\ lastRun'.commands = Compile(pending)
        /\ lastRun'.outcome = o /\ lastRun'.error = ErrorOf(pending, o) /\ lastRun'.thread = t
        /\ lastRun'.list = IF lastRun'.error = NoError THEN responseDeferreds ELSE <<>>
    <2>1. CASE run.error = NoError
      BY <1>1, <1>4, <2>1
    <2>2. CASE run.error # NoError
      <3>1. lastRun' = [run EXCEPT !.list = <<>>]
        BY <1>1, <2>2
      <3>2. lastRun' = [thread |-> t, ops |-> pending, commands |-> Compile(pending),
                        outcome |-> o, error |-> ErrorOf(pending, o), batch |-> batchActive,
                        list |-> <<>>]
        BY <3>1 DEF RunOf
      <3> QED BY <1>4, <2>2, <3>2
    <2> QED BY <2>1, <2>2
  <1> HIDE DEF run
  <1>6. o \in Outcomes(pending) /\ deferreds' = Settle(deferreds, pending, o)
    BY <1>1
  <1>7. lastRun'.batch => lastRun'.list = IF lastRun'.error = NoError THEN responseDeferreds ELSE <<>>
    BY <1>5
  <1>8. \A r : r.ops = pending /\ r.commands = Compile(pending) /\ r.outcome = o
               /\ r.error = ErrorOf(pending, o) /\ r.thread = t
               /\ (r.batch => r.list = IF r.error = NoError THEN responseDeferreds ELSE <<>>)
               => /\ Settle(deferreds, pending, o) \in Seq(Deferred)
                  /\ RanOps(r, Settle(deferreds, pending, o))
    BY <1>3, <1>6, RunMade
  <1>9. deferreds' \in Seq(Deferred) /\ RanOps(lastRun', deferreds')
    BY <1>5, <1>6, <1>7, <1>8
  <1> QED BY <1>2, <1>9 DEF DriverInv, RunOK

\* The batch is empty or its body raised.
LEMMA CancelKeeps ==
  ASSUME DriverInv, NEW t \in Threads, ExitEmptyBatch(t) \/ AbortBatch(t)
  PROVE  DriverInv'
  <1>1. /\ LockInv' /\ batchActive /\ owner = t
        /\ deferreds' \in Seq(Deferred) => BatchOK'
    BY LeaveBatch DEF ExitEmptyBatch, AbortBatch
  <1>2. lastRun' = NoRun
    BY DEF ExitEmptyBatch, AbortBatch, NoNewRun
  <1>3. RunOK'
    <2>1. NoOps(NoRun)
      BY DEF NoOps, NoRun, NoError
    <2> QED BY <1>2, <2>1 DEF RunOK
  <1>4. deferreds' \in Seq(Deferred)
    <2>1. CASE ExitEmptyBatch(t)
      <3>1. deferreds' = Known
        BY <2>1 DEF ExitEmptyBatch, NoNewRun
      <3> QED BY <3>1, KnownDeferreds DEF DriverInv, LockInv, ScopesTyped
    <2>2. CASE AbortBatch(t)
      <3> DEFINE d(i) == IF \E k \in ReadOps(pending) : pending[k].deferred = i
                         THEN [deferreds[i] EXCEPT !.state = "cancelled"] ELSE deferreds[i]
                 n == Len(deferreds)
      <3>1. deferreds \in Seq(Deferred)
        BY DEF DriverInv, BatchOK
      <3>2. n \in Nat /\ DOMAIN deferreds = 1..n /\ \A i \in 1..n : deferreds[i] \in Deferred
        BY <3>1, LenProperties
      <3>3. deferreds' = [i \in 1..n |-> d(i)]
        BY <2>2, <3>2 DEF AbortBatch
      <3> HIDE DEF n
      <3>4. \A i \in 1..n : d(i) \in Deferred
        BY <3>2 DEF Deferred
      <3>5. deferreds' \in [1..n -> Deferred]
        BY <3>3, <3>4
      <3> QED BY <3>2, <3>5
    <2> QED BY <2>1, <2>2
  <1> QED BY <1>1, <1>3, <1>4 DEF DriverInv

\* A scope of verify_writes() is entered or left.
LEMMA VerifyKeeps ==
  ASSUME DriverInv, NEW t \in Threads, ExitVerify(t) \/ \E on \in BOOLEAN : EnterVerify(t, on)
  PROVE  DriverInv'
  <1>1. LockInv /\ BatchOK /\ overrides \in Seq(BOOLEAN) /\ batchActive \in BOOLEAN
    BY DEF DriverInv, LockInv, ScopesTyped
  <1>2. NoNewRun /\ UNCHANGED <<batchVars, globally, closed>>
    BY DEF ExitVerify, EnterVerify
  <1>3. LockInv' /\ (batchActive => owner' = owner)
    <2>1. ASSUME NEW on \in BOOLEAN, EnterVerify(t, on)
          PROVE  LockInv' /\ (batchActive => owner' = owner)
      <3> DEFINE e == VerifyScope(on)
      <3>1. /\ Len(scopes[t]) < MaxDepth /\ Lock(t) /\ MayLock(t)
            /\ overrides' = Append(overrides, on)
            /\ scopes' = [scopes EXCEPT ![t] = Append(@, e)]
        BY <2>1 DEF EnterVerify, Lock
      <3>2. /\ scopes[t] \in Seq(Scope) /\ OneBatch(scopes[t]) /\ depth = Len(scopes[t])
            /\ Holds(scopes[t], overrides, Len(scopes[t]), batchActive)
        BY <1>1, <3>1, Alone
      <3>3. /\ Holds(Append(scopes[t], e), Append(overrides, on), Len(scopes[t]) + 1, batchActive)
            /\ OneBatch(Append(scopes[t], e))
        BY <1>1, <3>2, PushScope
      <3>4. e \in Scope
        BY DEF VerifyScope, Scope
      <3> HIDE DEF e
      <3>5. ScopesTyped'
        <4>1. Append(scopes[t], e) \in Seq(Scope) /\ Append(overrides, on) \in Seq(BOOLEAN)
          BY <1>1, <3>2, <3>4
        <4> QED BY <1>1, <1>2, <3>1, <4>1 DEF LockInv, ScopesTyped, Lock, batchVars
      <3>6. LockInv'
        BY <1>1, <1>2, <3>1, <3>3, <3>4, <3>5, EnterScope DEF batchVars
      <3> QED BY <1>1, <3>1, <3>6, OpenBatch DEF Lock
    <2>2. ASSUME ExitVerify(t) PROVE LockInv' /\ (batchActive => owner' = owner)
      <3>1. Leave(t, "verify") /\ overrides' = ButLast(overrides)
        BY <2>2 DEF ExitVerify, ButLast
      <3>2. /\ scopes[t] # <<>> /\ owner = t /\ MayLock(t)
            /\ scopes[t][Len(scopes[t])].kind = "verify"
        BY <1>1, <3>1 DEF Leave, LockInv, MayLock
      <3>3. /\ scopes[t] \in Seq(Scope) /\ OneBatch(scopes[t]) /\ depth = Len(scopes[t])
            /\ Holds(scopes[t], overrides, Len(scopes[t]), batchActive)
        BY <1>1, <3>2, Alone
      <3>4. Holds(ButLast(scopes[t]), ButLast(overrides), Len(scopes[t]) - 1, batchActive)
            /\ overrides # <<>>
        BY <1>1, <3>2, <3>3, PopScope
      <3>5. ButLast(overrides) \in Seq(BOOLEAN)
        BY <1>1, <3>4, FrontElements
      <3>6. LockInv'
        <4>1. /\ Holds(ButLast(scopes[t]), overrides', Len(scopes[t]) - 1, batchActive')
              /\ overrides' \in Seq(BOOLEAN) /\ batchActive' \in BOOLEAN
              /\ globally' \in BOOLEAN /\ closed' \in BOOLEAN
          BY <1>1, <1>2, <3>1, <3>4, <3>5 DEF batchVars, LockInv, ScopesTyped
        <4> QED BY <1>1, <3>1, <4>1, LeaveScope
      <3>7. batchActive => owner' = owner
        <4>1. batchActive => owner' # NoThread
          BY <1>2, <3>6 DEF LockInv, batchVars
        <4> QED BY <3>1, <4>1 DEF Leave, Unlock
      <3> QED BY <3>6, <3>7
    <2> QED BY <2>1, <2>2
  <1>4. BatchOK' /\ RunOK'
    BY <1>1, <1>2, <1>3, NoNewRunOK DEF batchVars
  <1> QED BY <1>3, <1>4 DEF DriverInv

\* The other steps.
LEMMA OtherKeeps ==
  ASSUME DriverInv, NEW t \in Threads,
         EnterNestedBatch(t) \/ Close(t) \/ \E on \in BOOLEAN : SetGlobally(t, on)
  PROVE  DriverInv'
  <1>1. LockInv /\ BatchOK /\ batchActive \in BOOLEAN
    BY DEF DriverInv, LockInv, ScopesTyped
  <1>2. /\ NoNewRun /\ UNCHANGED <<batchVars, lockVars, overrides, scopes>>
        /\ globally' \in BOOLEAN /\ closed' \in BOOLEAN
    BY <1>1 DEF EnterNestedBatch, Close, SetGlobally, modeVars, LockInv, ScopesTyped
  <1>3. LockInv'
    BY <1>1, <1>2, QuietLock DEF scopeVars, batchVars
  <1>4. BatchOK' /\ RunOK'
    BY <1>1, <1>2, NoNewRunOK DEF batchVars, lockVars
  <1> QED BY <1>3, <1>4 DEF DriverInv

\* Every step.
LEMMA NextDriver == DriverInv /\ [Next]_vars => DriverInv'
  <1> SUFFICES ASSUME DriverInv, [Next]_vars PROVE DriverInv'
    OBVIOUS
  <1>1. CASE UNCHANGED vars
    BY <1>1 DEF vars, lockVars, batchVars, modeVars, history, DriverInv, LockInv, ScopesTyped,
                BatchOK, RunOK
  <1>2. ASSUME NEW t \in Threads,
               \/ Collect(t) \/ ExecuteNow(t) \/ ExecuteRaw(t)
               \/ EnterBatch(t) \/ EnterNestedBatch(t)
               \/ ExitBatch(t) \/ ExitEmptyBatch(t) \/ AbortBatch(t)
               \/ \E on \in BOOLEAN : EnterVerify(t, on)
               \/ ExitVerify(t)
               \/ \E on \in BOOLEAN : SetGlobally(t, on)
               \/ Close(t)
        PROVE  DriverInv'
    BY <1>2, CollectKeeps, ExecuteNowKeeps, ExecuteRawKeeps, EnterBatchKeeps, ExitBatchKeeps,
       CancelKeeps, VerifyKeeps, OtherKeeps
  <1> QED BY <1>1, <1>2 DEF Next

-------------------------------------------------------------------------------
(* The invariants.                                                         *)

\* The inductive invariant holds always.
LEMMA AlwaysDriverInv == Spec => []DriverInv
  BY InitDriver, NextDriver, PTL DEF Spec

\* Every variable keeps its type: the depth of the lock, the batch and the list
\* of its numbers stay in their bounds, and no run ends in an unknown error.
THEOREM TypeCorrect == Spec => []TypeOK
  <1>1. DriverInv => TypeOK
    BY DriverInvSays
  <1> QED BY <1>1, AlwaysDriverInv, PTL

\* The lock is held as often as its owner has scopes open, no other thread is
\* in a scope, and the overrides are those of the open verify_writes() scopes,
\* however the batches between them ended (__enter__ and __exit__ of both
\* scopes).
THEOREM LockFollowsScopes == Spec => []ScopesHoldTheLock
  <1>1. DriverInv => ScopesHoldTheLock
    BY DriverInvSays
  <1> QED BY <1>1, AlwaysDriverInv, PTL

\* A batch, collected or run, has the operations of one thread only: _write()
\* and _queries() append under the lock that the scope holds.
THEOREM OneThreadBatch == Spec => []BatchOfOneThread
  <1>1. DriverInv => BatchOfOneThread
    BY DriverInvSays
  <1> QED BY <1>1, AlwaysDriverInv, PTL

\* The list that a batch scope returned gets the value of every read, in the
\* order of the calls, or nothing (_BatchContext.__exit__).
THEOREM ListFilled == Spec => []ListFilledOnSuccess
  <1>1. DriverInv => ListFilledOnSuccess
    BY DriverInvSays
  <1> QED BY <1>1, AlwaysDriverInv, PTL

\* A call or a batch that ends without an error has read back every write that
\* was to be verified (_resolve_operations).
THEOREM SuccessVerified == Spec => []SuccessMeansVerified
  <1>1. DriverInv => SuccessMeansVerified
    BY DriverInvSays
  <1> QED BY <1>1, AlwaysDriverInv, PTL

\* The error raised for the responses of a batch is that of the first
\* operation at fault (_resolve_operations).
THEOREM FirstFault == Spec => []FirstFaultRaised
  <1>1. DriverInv => FirstFaultRaised
    BY DriverInvSays
  <1> QED BY <1>1, AlwaysDriverInv, PTL

\* An exception of the executor becomes a verification error only if the
\* command that failed is the readback of the write that the error names
\* (_execute_pending_operations and _operation_for_command).
THEOREM BlamedAfterWrite == Spec => []VerificationErrorAfterWrite
  <1>1. DriverInv => VerificationErrorAfterWrite
    BY DriverInvSays
  <1> QED BY <1>1, AlwaysDriverInv, PTL

\* No read of a run that the driver saw the end of stays pending, and the value
\* of one is made of the responses to its own queries.
THEOREM Settled == Spec => []SettledByItsRun
  <1>1. DriverInv => SettledByItsRun
    BY DriverInvSays
  <1> QED BY <1>1, AlwaysDriverInv, PTL

-------------------------------------------------------------------------------
(* The action properties.                                                  *)

\* Whoever executes while a batch is open is the exit of that batch.
LEMMA StepBesideBatch ==
  ASSUME Next, batchActive, lastRun' # NoRun
  PROVE  ~batchActive' /\ lastRun'.ops = pending
  <1>1. PICK t \in Threads :
          \/ Collect(t) \/ ExecuteNow(t) \/ ExecuteRaw(t)
          \/ EnterBatch(t) \/ EnterNestedBatch(t)
          \/ ExitBatch(t) \/ ExitEmptyBatch(t) \/ AbortBatch(t)
          \/ \E on \in BOOLEAN : EnterVerify(t, on)
          \/ ExitVerify(t)
          \/ \E on \in BOOLEAN : SetGlobally(t, on)
          \/ Close(t)
    BY DEF Next
  <1>2. ExitBatch(t)
    BY <1>1 DEF Collect, ExecuteNow, ExecuteRaw, EnterBatch, EnterNestedBatch, ExitEmptyBatch,
                AbortBatch, EnterVerify, ExitVerify, SetGlobally, Close, NoNewRun
  <1>3. ~batchActive'
    BY <1>2 DEF ExitBatch, ClearBatch
  <1>4. PICK o \in Outcomes(pending) :
          LET run == RunOf(t, pending, o, responseDeferreds) IN
          lastRun' = IF run.error = NoError THEN run ELSE [run EXCEPT !.list = <<>>]
    BY <1>2 DEF ExitBatch
  <1> DEFINE run == RunOf(t, pending, o, responseDeferreds)
  <1>5. run.ops = pending /\ [run EXCEPT !.list = <<>>].ops = pending
    BY DEF RunOf
  <1> QED BY <1>3, <1>4, <1>5

\* Nothing is executed beside an open batch: _batch_active is looked at before
\* every execution, under the lock.
THEOREM NothingBeside == Spec => NothingBesideTheBatch
  <1>1. [Next]_vars => [ batchActive /\ lastRun' # NoRun =>
                           ~batchActive' /\ lastRun'.ops = pending ]_vars
    BY StepBesideBatch
  <1> QED BY <1>1, PTL DEF Spec, NothingBesideTheBatch

\* The last of some values in order is that of the last element.
LEMMA InOrderLast ==
  ASSUME NEW r \in Seq(BOOLEAN), NEW S, S \subseteq Nat, NEW v, InOrder(r, S, v)
  PROVE  /\ S = {} => r = <<>>
         /\ \A k \in S : (\A j \in S : j <= k) => r # <<>> /\ r[Len(r)] = v[k]
  <1>1. PICK place \in [DOMAIN r -> S] :
          /\ \A i, j \in DOMAIN r : i < j => place[i] < place[j]
          /\ \A k \in S : \E i \in DOMAIN r : place[i] = k
          /\ \A i \in DOMAIN r : r[i] = v[place[i]]
    BY DEF InOrder
  <1>2. Len(r) \in Nat /\ DOMAIN r = 1..Len(r)
    BY LenProperties
  <1>3. S = {} => r = <<>>
    <2>1. ASSUME S = {} PROVE DOMAIN r = {}
      BY <1>1, <2>1
    <2>2. DOMAIN r = {} => Len(r) = 0
      BY <1>2
    <2> QED BY <2>1, <2>2, EmptySeq
  <1>4. ASSUME NEW k \in S, \A j \in S : j <= k
        PROVE  r # <<>> /\ r[Len(r)] = v[k]
    <2>1. PICK i \in DOMAIN r : place[i] = k
      BY <1>1
    <2>2. Len(r) \in DOMAIN r /\ i <= Len(r) /\ i \in Nat
      BY <1>2, <2>1
    <2>3. i = Len(r)
      <3>1. SUFFICES ASSUME i < Len(r) PROVE FALSE
        BY <1>2, <2>2
      <3>2. place[Len(r)] \in S /\ k < place[Len(r)]
        BY <1>1, <2>1, <2>2, <3>1
      <3>3. place[Len(r)] <= k /\ place[Len(r)] \in Nat /\ k \in Nat
        BY <1>4, <3>2
      <3> QED BY <3>2, <3>3
    <2>4. r # <<>>
      BY <1>2, <2>2
    <2> QED BY <1>1, <2>1, <2>3, <2>4
  <1> QED BY <1>3, <1>4

\* What Collect decides for a write.
LEMMA CollectedWrite ==
  ASSUME DriverInv, NEW t \in Threads, Collect(t), pending'[Len(pending')].kind = "write"
  PROVE  LET op == pending'[Len(pending')]
             u  == op.thread IN
         /\ VerifyScopes(u) = {} => (op.verify # "off") = globally
         /\ \A k \in VerifyScopes(u) :
              (\A j \in VerifyScopes(u) : j <= k) =>
                (op.verify # "off") = scopes[u][k].enabled
  <1>1. PICK op \in Callable(t) : pending' = Append(pending, op)
    BY DEF Collect
  <1>2. /\ batchActive /\ MayLock(t) /\ LockInv /\ BatchOK
        /\ batchActive \in BOOLEAN /\ overrides \in Seq(BOOLEAN) /\ globally \in BOOLEAN
    BY DEF Collect, DriverInv, LockInv, ScopesTyped
  <1>3. /\ op.thread = t /\ op \in Op
        /\ op.kind = "write" => ((op.verify # "off") <=> VerifiesWrites = TRUE)
    BY <1>2, CallableFits, OneMore
  <1>4. pending \in Seq(Op)
    BY <1>2 DEF BatchOK, Planned
  <1>5. pending'[Len(pending')] = op
    BY <1>1, <1>3, <1>4, Appended
  <1>6. (op.verify # "off") = (VerifiesWrites = TRUE)
    BY <1>3, <1>5
  <1>7. /\ scopes[t] \in Seq(Scope)
        /\ InOrder(overrides, VerifyScopes(t), Enabled(t))
    BY <1>2, Alone DEF Holds, Verifies, On, VerifyScopes, Enabled
  <1>8. VerifyScopes(t) \subseteq DOMAIN scopes[t] /\ DOMAIN scopes[t] \subseteq Nat
    <2>1. DOMAIN scopes[t] = 1..Len(scopes[t]) /\ Len(scopes[t]) \in Nat
      BY <1>7, LenProperties
    <2> QED BY <2>1 DEF VerifyScopes
  <1>9. /\ VerifyScopes(t) = {} => overrides = <<>>
        /\ \A k \in VerifyScopes(t) :
             (\A j \in VerifyScopes(t) : j <= k) =>
               overrides # <<>> /\ overrides[Len(overrides)] = Enabled(t)[k]
    <2>1. VerifyScopes(t) \subseteq Nat
      BY <1>8
    <2> QED BY <1>2, <1>7, <2>1, InOrderLast
  <1>10. VerifyScopes(t) = {} => (op.verify # "off") = globally
    <2>1. ASSUME VerifyScopes(t) = {} PROVE VerifiesWrites = globally
      BY <1>9, <2>1 DEF VerifiesWrites
    <2> QED BY <1>2, <1>6, <2>1
  <1>11. ASSUME NEW k \in VerifyScopes(t), \A j \in VerifyScopes(t) : j <= k
         PROVE  (op.verify # "off") = scopes[t][k].enabled
    <2>1. VerifiesWrites = overrides[Len(overrides)]
      BY <1>9, <1>11 DEF VerifiesWrites
    <2>2. Enabled(t)[k] = scopes[t][k].enabled
      BY <1>8 DEF Enabled
    <2>3. scopes[t][k].enabled \in BOOLEAN
      <3>1. scopes[t][k] \in Scope
        BY <1>7, <1>8
      <3> QED BY <3>1 DEF Scope
    <2>4. VerifiesWrites = scopes[t][k].enabled
      BY <1>9, <1>11, <2>1, <2>2
    <2> QED BY <1>6, <2>3, <2>4
  <1> QED BY <1>3, <1>5, <1>10, <1>11

\* Only Collect makes a batch longer.
LEMMA OnlyCollectGrows ==
  ASSUME DriverInv, Next, Len(pending') > Len(pending)
  PROVE  \E t \in Threads : Collect(t)
  <1>1. PICK t \in Threads :
          \/ Collect(t) \/ ExecuteNow(t) \/ ExecuteRaw(t)
          \/ EnterBatch(t) \/ EnterNestedBatch(t)
          \/ ExitBatch(t) \/ ExitEmptyBatch(t) \/ AbortBatch(t)
          \/ \E on \in BOOLEAN : EnterVerify(t, on)
          \/ ExitVerify(t)
          \/ \E on \in BOOLEAN : SetGlobally(t, on)
          \/ Close(t)
    BY DEF Next
  <1>2. Len(pending) \in Nat
    <2>1. pending \in Seq(Op)
      BY DriverInvSays DEF TypeOK
    <2> QED BY <2>1, LenProperties
  <1>3. pending' # pending /\ pending' # <<>>
    <2>1. Len(<<>>) = 0
      OBVIOUS
    <2> QED BY <1>2, <2>1
  <1> QED BY <1>1, <1>3 DEF ExecuteNow, ExecuteRaw, EnterBatch, EnterNestedBatch, ExitBatch,
             ExitEmptyBatch, AbortBatch, EnterVerify, ExitVerify, SetGlobally, Close,
             ClearBatch, batchVars

\* Whether a write is verified is what the innermost verify_writes() scope of
\* its own thread says when it is called, or else the global setting
\* (_should_verify_writes).
THEOREM VerifiedAsCalled == Spec => VerificationFollowsScope
  <1> DEFINE A == Len(pending') > Len(pending) /\ pending'[Len(pending')].kind = "write" =>
                    LET op == pending'[Len(pending')]
                        t  == op.thread IN
                    /\ VerifyScopes(t) = {} => (op.verify # "off") = globally
                    /\ \A k \in VerifyScopes(t) :
                         (\A j \in VerifyScopes(t) : j <= k) =>
                           (op.verify # "off") = scopes[t][k].enabled
  <1>1. DriverInv /\ [Next]_vars => [A]_vars
    BY OnlyCollectGrows, CollectedWrite
  <1> HIDE DEF A
  <1>2. Spec => [][A]_vars
    BY <1>1, AlwaysDriverInv, PTL DEF Spec
  <1> QED BY <1>2 DEF VerificationFollowsScope, A
===============================================================================
