-------------------------- MODULE References_proofs --------------------------
(***************************************************************************)
(* What the parsers of References make of any well-formed reference.         *)
(***************************************************************************)
EXTENDS References, WellFoundedInduction, SequenceTheorems, TLAPS

-----------------------------------------------------------------------------
(* Max and Min of sets of naturals. *)

LEMMA LeastExists ==
    ASSUME NEW S \in SUBSET Nat, S # {}
    PROVE  \E x \in S : \A y \in S : x <= y
<1>1. PICK x \in S : \A y \in S : ~(<<y, x>> \in OpToRel(<, Nat))
  BY NatLessThanWellFounded, WFMin, Zenon
<1>2. \A y \in S : ~(y < x)
  BY <1>1 DEF OpToRel
<1> QED BY <1>2

LEMMA MinIs ==
    ASSUME NEW S \in SUBSET Nat, S # {}
    PROVE  /\ Min(S) \in S
           /\ \A y \in S : Min(S) <= y
  BY LeastExists DEF Min

LEMMA MaxIs ==
    ASSUME NEW n \in Nat, NEW S \in SUBSET (0 .. n), S # {}
    PROVE  /\ Max(S) \in S
           /\ \A y \in S : y <= Max(S)
<1> DEFINE U == {u \in Nat : \A y \in S : y <= u}
<1>1. n \in U
  OBVIOUS
<1>2. PICK u \in U : \A v \in U : u <= v
  BY <1>1, LeastExists
<1>3. u \in S
  <2> SUFFICES ASSUME u \notin S PROVE FALSE
    OBVIOUS
  <2>1. \A y \in S : y <= u - 1
    BY <1>2
  <2>2. u - 1 \in Nat
    <3>1. PICK y \in S : TRUE
      OBVIOUS
    <3>2. y \in Nat /\ y <= u /\ y # u
      BY <3>1
    <3> QED BY <3>2
  <2>3. u - 1 \in U
    BY <2>1, <2>2
  <2> QED BY <1>2, <2>3
<1>4. \E x \in S : \A y \in S : x >= y
  BY <1>2, <1>3
<1> QED BY <1>4 DEF Max

-----------------------------------------------------------------------------
(* Sequences of names and separators. *)

LEMMA ContainsConcat ==
    ASSUME NEW T, NEW a \in Seq(T), NEW b \in Seq(T), NEW x
    PROVE  Contains(a \o b, x) <=> Contains(a, x) \/ Contains(b, x)
<1>1. ASSUME Contains(a, x) PROVE Contains(a \o b, x)
  BY <1>1 DEF Contains
<1>2. ASSUME Contains(b, x) PROVE Contains(a \o b, x)
  <2>1. PICK i \in 1 .. Len(b) : b[i] = x
    BY <1>2 DEF Contains
  <2>2. Len(a) + i \in 1 .. Len(a \o b) /\ (a \o b)[Len(a) + i] = x
    BY <2>1
  <2> QED BY <2>2 DEF Contains
<1>3. ASSUME Contains(a \o b, x) PROVE Contains(a, x) \/ Contains(b, x)
  <2>1. PICK i \in 1 .. Len(a) + Len(b) : (a \o b)[i] = x
    BY <1>3 DEF Contains
  <2>2. CASE i <= Len(a)
    BY <2>1, <2>2 DEF Contains
  <2>3. CASE i > Len(a)
    <3>1. i - Len(a) \in 1 .. Len(b) /\ b[i - Len(a)] = x
      BY <2>1, <2>3
    <3> QED BY <3>1 DEF Contains
  <2> QED BY <2>1, <2>2, <2>3
<1> QED BY <1>1, <1>2, <1>3

LEMMA AbsentIs ==
    ASSUME NEW s, NEW x, ~Contains(s, x)
    PROVE  First(s, x) = 0 /\ Final(s, x) = 0
  BY DEF Contains, First, Final, SelectInSeq, SelectLastInSeq

LEMMA SplitAround ==
    ASSUME NEW T, NEW a \in Seq(T), NEW b \in Seq(T), NEW x \in T
    PROVE  LET s == a \o <<x>> \o b
           IN  /\ s \in Seq(T) /\ Len(s) = Len(a) + 1 + Len(b)
               /\ \A i \in 1 .. Len(a) : s[i] = a[i]
               /\ s[Len(a) + 1] = x
               /\ \A i \in 1 .. Len(b) : s[Len(a) + 1 + i] = b[i]
               /\ Before(s, Len(a) + 1) = a
               /\ After(s, Len(a) + 1) = b
<1> DEFINE s == a \o <<x>> \o b
<1>1. s \in Seq(T) /\ Len(s) = Len(a) + 1 + Len(b)
  OBVIOUS
<1>2. /\ \A i \in 1 .. Len(a) : s[i] = a[i]
      /\ s[Len(a) + 1] = x
      /\ \A i \in 1 .. Len(b) : s[Len(a) + 1 + i] = b[i]
  OBVIOUS
<1> HIDE DEF s
<1>3. Before(s, Len(a) + 1) = a
  BY <1>1, <1>2 DEF Before
<1>4. After(s, Len(a) + 1) = b
  BY <1>1, <1>2 DEF After
<1> QED BY <1>1, <1>2, <1>3, <1>4 DEF s

(* Two texts and a separator between them. *)
Parted(a, x, b) == a \o (<<x>> \o b)

LEMMA PartedIs ==
    ASSUME NEW T, NEW a \in Seq(T), NEW b \in Seq(T), NEW x \in T
    PROVE  Parted(a, x, b) = a \o <<x>> \o b
<1> DEFINE u == <<x>>
<1>1. u \in Seq(T)
  OBVIOUS
<1> HIDE DEF u
<1>2. a \o (u \o b) = (a \o u) \o b
  BY <1>1, ConcatAssociative
<1> QED BY <1>2 DEF u, Parted

LEMMA PartedEqual ==
    ASSUME NEW T, NEW a \in Seq(T), NEW b \in Seq(T), NEW x \in T,
           NEW s \in Seq(T), Len(s) = Len(a) + 1 + Len(b),
           \A i \in 1 .. Len(a) : s[i] = a[i],
           s[Len(a) + 1] = x,
           \A i \in 1 .. Len(b) : s[Len(a) + 1 + i] = b[i]
    PROVE  s = Parted(a, x, b)
<1> DEFINE w == a \o <<x>> \o b
<1>1. /\ w \in Seq(T) /\ Len(w) = Len(a) + 1 + Len(b)
      /\ \A i \in 1 .. Len(a) : w[i] = a[i]
      /\ w[Len(a) + 1] = x
      /\ \A i \in 1 .. Len(b) : w[Len(a) + 1 + i] = b[i]
  BY SplitAround
<1>2. w = Parted(a, x, b)
  BY PartedIs
<1> HIDE DEF w
<1>3. ASSUME NEW i \in 1 .. Len(s) PROVE s[i] = w[i]
  <2>1. i \in 1 .. Len(a) \/ i = Len(a) + 1 \/ i - Len(a) - 1 \in 1 .. Len(b)
    OBVIOUS
  <2>2. CASE i - Len(a) - 1 \in 1 .. Len(b)
    <3>1. i = Len(a) + 1 + (i - Len(a) - 1)
      OBVIOUS
    <3> QED BY <1>1, <2>2, <3>1
  <2> QED BY <1>1, <2>1, <2>2
<1> QED BY <1>1, <1>2, <1>3, SeqEqual

(* A separator that the text before it does not have. *)
LEMMA SplitFirst ==
    ASSUME NEW T, NEW a \in Seq(T), NEW b \in Seq(T), NEW x \in T,
           ~Contains(a, x)
    PROVE  First(a \o <<x>> \o b, x) = Len(a) + 1
<1> DEFINE s == a \o <<x>> \o b
           I == {i \in 1 .. Len(s) : s[i] = x}
<1>1. /\ s \in Seq(T) /\ Len(s) = Len(a) + 1 + Len(b)
      /\ \A i \in 1 .. Len(a) : s[i] = a[i]
      /\ s[Len(a) + 1] = x
  BY SplitAround
<1>2. First(s, x) = IF I # {} THEN Min(I) ELSE 0
  BY DEF First, SelectInSeq
<1> HIDE DEF s
<1>3. Len(a) + 1 \in I /\ I \in SUBSET Nat
  BY <1>1
<1>4. \A i \in I : i >= Len(a) + 1
  BY <1>1 DEF Contains
<1>5. Min(I) \in I /\ Min(I) <= Len(a) + 1
  BY <1>3, MinIs
<1>6. First(s, x) = Len(a) + 1
  BY <1>1, <1>2, <1>3, <1>4, <1>5
<1> QED BY <1>6 DEF s

LEMMA CutFirst ==
    ASSUME NEW T, NEW a \in Seq(T), NEW b \in Seq(T), NEW x \in T,
           NEW s, s = Parted(a, x, b), ~Contains(a, x)
    PROVE  /\ First(s, x) \in Nat \ {0}
           /\ Before(s, First(s, x)) = a /\ After(s, First(s, x)) = b
<1> DEFINE w == a \o <<x>> \o b
<1>1. s = w
  BY PartedIs
<1>2. First(w, x) = Len(a) + 1
  BY SplitFirst
<1>3. Before(w, Len(a) + 1) = a /\ After(w, Len(a) + 1) = b
  BY SplitAround
<1>4. Len(a) + 1 \in Nat \ {0}
  OBVIOUS
<1> HIDE DEF w
<1> QED BY <1>1, <1>2, <1>3, <1>4

(* A separator that the text after it does not have. *)
LEMMA SplitFinal ==
    ASSUME NEW T, NEW a \in Seq(T), NEW b \in Seq(T), NEW x \in T,
           ~Contains(b, x)
    PROVE  Final(a \o <<x>> \o b, x) = Len(a) + 1
<1> DEFINE s == a \o <<x>> \o b
           I == {i \in 1 .. Len(s) : s[i] = x}
<1>1. /\ s \in Seq(T) /\ Len(s) = Len(a) + 1 + Len(b)
      /\ \A i \in 1 .. Len(b) : s[Len(a) + 1 + i] = b[i]
      /\ s[Len(a) + 1] = x
  BY SplitAround
<1>2. Final(s, x) = IF I # {} THEN Max(I) ELSE 0
  BY DEF Final, SelectLastInSeq
<1> HIDE DEF s
<1>3. Len(a) + 1 \in I /\ I \in SUBSET (0 .. Len(s)) /\ Len(s) \in Nat
  BY <1>1
<1>4. ASSUME NEW i \in I PROVE i <= Len(a) + 1
  <2> SUFFICES ASSUME i > Len(a) + 1 PROVE FALSE
    BY <1>3
  <2>1. i - (Len(a) + 1) \in 1 .. Len(b)
    BY <1>1
  <2>2. b[i - (Len(a) + 1)] = x
    BY <1>1, <2>1
  <2> QED BY <2>1, <2>2 DEF Contains
<1>5. Max(I) \in I /\ Len(a) + 1 <= Max(I)
  BY <1>3, MaxIs
<1>6. Max(I) = Len(a) + 1
  <2>1. Max(I) <= Len(a) + 1
    BY <1>4, <1>5
  <2>2. Max(I) \in Nat /\ Len(a) \in Nat
    BY <1>3, <1>5
  <2> QED BY <1>5, <2>1, <2>2
<1>7. I # {}
  BY <1>3
<1>8. Final(s, x) = Len(a) + 1
  BY <1>2, <1>6, <1>7
<1> QED BY <1>8 DEF s

LEMMA CutFinal ==
    ASSUME NEW T, NEW a \in Seq(T), NEW b \in Seq(T), NEW x \in T,
           NEW s, s = Parted(a, x, b), ~Contains(b, x)
    PROVE  /\ Final(s, x) \in Nat \ {0}
           /\ Before(s, Final(s, x)) = a /\ After(s, Final(s, x)) = b
<1> DEFINE w == a \o <<x>> \o b
<1>1. s = w
  BY PartedIs
<1>2. Final(w, x) = Len(a) + 1
  BY SplitFinal
<1>3. Before(w, Len(a) + 1) = a /\ After(w, Len(a) + 1) = b
  BY SplitAround
<1>4. Len(a) + 1 \in Nat \ {0}
  OBVIOUS
<1> HIDE DEF w
<1> QED BY <1>1, <1>2, <1>3, <1>4

-----------------------------------------------------------------------------
(* The text of a reference. *)

Symbols == Names \cup Separators

LEMMA SymbolsAre ==
    /\ Separators \subseteq Symbols /\ Names \subseteq Symbols
    /\ {"/", ":", "@"} \subseteq Symbols
    /\ \A x \in Names : x \notin {"/", ":", "@"}
  BY HostsAssumption DEF Symbols, Separators

LEMMA JoinedIs ==
    ASSUME NEW path \in Seq(Names), path # <<>>
    PROVE  LET j == Joined(path)
           IN  /\ j \in Seq(Symbols)
               /\ Len(j) = 2 * Len(path) - 1
               /\ j[1] = path[1]
               /\ Len(path) > 1 => j[2] = "/"
               /\ Len(path) = 1 => j = path
               /\ Contains(j, "/") <=> Len(path) > 1
               /\ ~Contains(j, ":") /\ ~Contains(j, "@")
<1> DEFINE j == Joined(path)
           n == 2 * Len(path) - 1
<1>1. Len(path) \in Nat /\ Len(path) >= 1 /\ n \in Nat /\ n >= 1
  OBVIOUS
<1>2. \A i \in 1 .. n : (i + 1) \div 2 \in 1 .. Len(path)
  BY <1>1
<1>3. \A i \in 1 .. Len(path) : path[i] \in Names
  OBVIOUS
<1>4. j = [i \in 1 .. n |-> IF i % 2 = 1 THEN path[(i + 1) \div 2] ELSE "/"]
  BY DEF Joined
<1>5. \A i \in 1 .. n : j[i] = IF i % 2 = 1 THEN path[(i + 1) \div 2] ELSE "/"
  BY <1>4
<1> HIDE DEF j, n
<1>6. j \in [1 .. n -> Symbols]
  <2>1. "/" \in Symbols /\ Names \subseteq Symbols
    BY SymbolsAre
  <2>2. \A i \in 1 .. n : j[i] \in Symbols
    BY <1>2, <1>3, <1>5, <2>1
  <2> QED BY <1>4, <2>2
<1>7. j \in Seq(Symbols) /\ Len(j) = n
  BY <1>1, <1>6
<1>8. j[1] = path[1]
  BY <1>1, <1>5
<1>9. Len(path) > 1 => j[2] = "/"
  <2>1. Len(path) > 1 => 2 \in 1 .. n
    BY <1>1 DEF n
  <2> QED BY <2>1, <1>5
<1>10. Len(path) = 1 => j = path
  <2> SUFFICES ASSUME Len(path) = 1 PROVE j = path
    OBVIOUS
  <2>1. path \in Seq(Symbols) /\ Len(j) = 1
    BY <1>7, SymbolsAre DEF n
  <2> QED BY <2>1, <1>7, <1>8, SeqEqual
<1>11. Contains(j, "/") <=> Len(path) > 1
  <2>1. Len(path) > 1 => Contains(j, "/")
    BY <1>1, <1>7, <1>9 DEF Contains, n
  <2>2. ASSUME Len(path) = 1, NEW i \in 1 .. n PROVE j[i] # "/"
    BY <2>2, <1>3, <1>8, SymbolsAre DEF n
  <2>3. Len(path) = 1 => ~Contains(j, "/")
    BY <2>2, <1>7 DEF Contains
  <2>4. Len(path) = 1 \/ Len(path) > 1
    BY <1>1
  <2> HIDE DEF j
  <2> QED BY <2>1, <2>3, <2>4
<1>12. ASSUME NEW i \in 1 .. n PROVE j[i] \notin {":", "@"}
  BY <1>2, <1>3, <1>5, SymbolsAre
<1> QED BY <1>7, <1>8, <1>9, <1>10, <1>11, <1>12 DEF Contains, j, n

LEMMA OptionalIs ==
    ASSUME NEW separator \in Separators, NEW s \in Seq(Names)
    PROVE  LET o == Optional(separator, s)
           IN  /\ o \in Seq(Symbols)
               /\ \A x \in Separators : x # separator => ~Contains(o, x)
               /\ s = <<>> => o = <<>>
               /\ s # <<>> => o = <<separator>> \o s
<1>1. s \in Seq(Symbols)
  BY SymbolsAre
<1>2. separator \in Symbols
  BY SymbolsAre
<1>3. <<separator>> \in Seq(Symbols)
  BY <1>2
<1>4. ASSUME NEW x \in Separators PROVE ~Contains(s, x)
  BY <1>4, HostsAssumption DEF Contains
<1>5. ASSUME NEW x, x # separator PROVE ~Contains(<<separator>>, x)
  BY <1>5 DEF Contains
<1>6. ASSUME NEW x \in Separators, x # separator
      PROVE  ~Contains(<<separator>> \o s, x)
  <2>1. Contains(<<separator>> \o s, x) <=> Contains(<<separator>>, x) \/ Contains(s, x)
    BY <1>1, <1>3, ContainsConcat
  <2> QED BY <1>4, <1>5, <1>6, <2>1
<1>7. CASE s = <<>>
  BY <1>7 DEF Optional, Contains
<1>8. CASE s # <<>>
  BY <1>1, <1>3, <1>6, <1>8 DEF Optional
<1> QED BY <1>7, <1>8

(* The text in front of the path, and the tag and digest behind it. *)
HostPart(img) == IF img.host = <<>> THEN <<>> ELSE img.host \o <<"/">>
TagPart(img) == Optional(":", img.tag)
DigestPart(img) == Optional("@", img.digest)

LEMMA PartsAre ==
    ASSUME NEW img, WellFormed(img)
    PROVE  /\ img.host \in Seq(Symbols) /\ img.path \in Seq(Names)
           /\ img.path # <<>> /\ Len(img.path) \in Nat
           /\ Len(img.path) > 1 <=> Len(img.path) # 1
           /\ img.tag \in Seq(Names) /\ img.digest \in Seq(Names)
           /\ HostPart(img) \in Seq(Symbols) /\ Joined(img.path) \in Seq(Symbols)
           /\ TagPart(img) \in Seq(Symbols) /\ DigestPart(img) \in Seq(Symbols)
           /\ ~Contains(img.host, "/") /\ ~Contains(HostPart(img), "@")
           /\ ~Contains(TagPart(img), "/") /\ ~Contains(DigestPart(img), "/")
           /\ ~Contains(TagPart(img), "@") /\ ~Contains(DigestPart(img), ":")
<1>1. /\ img.host \in Seq(Names \cup {":"})
      /\ img.path \in Seq(Names) /\ img.path # <<>>
      /\ img.tag \in Seq(Names) /\ img.digest \in Seq(Names)
  BY DEF WellFormed
<1>2. Len(img.path) \in Nat /\ (Len(img.path) > 1 <=> Len(img.path) # 1)
  <2> DEFINE p == img.path
  <2>1. p \in Seq(Names) /\ p # <<>>
    BY <1>1
  <2> HIDE DEF p
  <2>2. Len(p) \in Nat /\ Len(p) # 0
    BY <2>1
  <2> DEFINE n == Len(p)
  <2> HIDE DEF n
  <2>3. n \in Nat /\ n # 0 => (n > 1 <=> n # 1)
    OBVIOUS
  <2> QED BY <2>2, <2>3 DEF p, n
<1>3. img.host \in Seq(Symbols)
  BY <1>1, SymbolsAre
<1>4. <<"/">> \in Seq(Symbols)
  BY SymbolsAre
<1>5. ~Contains(img.host, "/") /\ ~Contains(img.host, "@")
  <2>1. \A i \in 1 .. Len(img.host) : img.host[i] \in Names \cup {":"}
    BY <1>1
  <2>2. \A x \in Names \cup {":"} : x # "/" /\ x # "@"
    BY SymbolsAre
  <2> QED BY <2>1, <2>2 DEF Contains
<1>6. ~Contains(<<"/">>, "@") /\ ~Contains(<<>>, "@")
  BY DEF Contains
<1>7. HostPart(img) \in Seq(Symbols)
  BY <1>3, <1>4 DEF HostPart
<1>8. ~Contains(HostPart(img), "@")
  <2>1. Contains(img.host \o <<"/">>, "@")
            <=> Contains(img.host, "@") \/ Contains(<<"/">>, "@")
    BY <1>3, <1>4, ContainsConcat
  <2> QED BY <2>1, <1>5, <1>6 DEF HostPart
<1>9. Joined(img.path) \in Seq(Symbols)
  BY <1>1, JoinedIs
<1>10. /\ TagPart(img) \in Seq(Symbols)
       /\ ~Contains(TagPart(img), "/") /\ ~Contains(TagPart(img), "@")
  <2>1. {"/", ":", "@"} = Separators
    BY DEF Separators
  <2> QED BY <2>1, <1>1, OptionalIs DEF TagPart
<1>11. /\ DigestPart(img) \in Seq(Symbols)
       /\ ~Contains(DigestPart(img), "/") /\ ~Contains(DigestPart(img), ":")
  <2>1. {"/", ":", "@"} = Separators
    BY DEF Separators
  <2> QED BY <2>1, <1>1, OptionalIs DEF DigestPart
<1> QED
  BY <1>1, <1>2, <1>3, <1>5, <1>7, <1>8, <1>9, <1>10, <1>11

LEMMA TextIs ==
    ASSUME NEW img, WellFormed(img)
    PROVE  /\ Text(img) = HostPart(img)
                  \o (Joined(img.path) \o (TagPart(img) \o DigestPart(img)))
           /\ Text(img) = (HostPart(img) \o (Joined(img.path) \o TagPart(img)))
                  \o DigestPart(img)
<1> DEFINE f == HostPart(img)  j == Joined(img.path)
           t == TagPart(img)  d == DigestPart(img)
<1>1. Text(img) = ((f \o j) \o t) \o d
  BY DEF Text, HostPart, TagPart, DigestPart
<1>2. f \in Seq(Symbols) /\ j \in Seq(Symbols) /\ t \in Seq(Symbols) /\ d \in Seq(Symbols)
  BY PartsAre
<1> HIDE DEF f, j, t, d
<1>3. (f \o j) \o t = f \o (j \o t) /\ j \o t \in Seq(Symbols)
  BY <1>2, ConcatAssociative
<1>4. (f \o (j \o t)) \o d = f \o ((j \o t) \o d)
  BY <1>2, <1>3, ConcatAssociative
<1>5. (j \o t) \o d = j \o (t \o d)
  BY <1>2, ConcatAssociative
<1> QED BY <1>1, <1>3, <1>4, <1>5 DEF f, j, t, d

(* Cutting the digest off, as the router and the ECR provider do. *)
LEMMA CutDigest ==
    ASSUME NEW img, WellFormed(img)
    PROVE  LET at == First(Text(img), "@")
           IN  (IF at = 0 THEN Text(img) ELSE Before(Text(img), at))
                   = HostPart(img) \o (Joined(img.path) \o TagPart(img))
<1> DEFINE f == HostPart(img)  j == Joined(img.path)  t == TagPart(img)
           s == f \o (j \o t)
<1>1. /\ f \in Seq(Symbols) /\ j \in Seq(Symbols) /\ t \in Seq(Symbols)
      /\ ~Contains(f, "@") /\ ~Contains(t, "@")
      /\ img.digest \in Seq(Names)
  BY PartsAre
<1>2. ~Contains(j, "@")
  BY PartsAre, JoinedIs
<1>3. Text(img) = s \o DigestPart(img)
  BY TextIs
<1> HIDE DEF f, j, t
<1>4. j \o t \in Seq(Symbols) /\ s \in Seq(Symbols)
  BY <1>1
<1>5. ~Contains(j \o t, "@")
  BY <1>1, <1>2, ContainsConcat
<1>6. ~Contains(s, "@")
  <2>1. Contains(s, "@") <=> Contains(f, "@") \/ Contains(j \o t, "@")
    BY <1>1, <1>4, ContainsConcat
  <2> QED BY <1>1, <1>5, <2>1
<1> HIDE DEF s
<1>7. CASE img.digest = <<>>
  <2>1. Text(img) = s
    BY <1>3, <1>4, <1>7, ConcatEmptySeq DEF DigestPart, Optional
  <2>2. First(Text(img), "@") = 0
    BY <1>6, <2>1, AbsentIs
  <2> QED BY <2>1, <2>2 DEF s, f, j, t
<1>8. CASE img.digest # <<>>
  <2> DEFINE c == "@"  d == img.digest
  <2>1. Text(img) = Parted(s, c, d)
    BY <1>3, <1>8 DEF DigestPart, Optional, Parted
  <2>2. d \in Seq(Symbols) /\ c \in Symbols
    BY <1>1, SymbolsAre
  <2>3. ~Contains(s, c) /\ s \in Seq(Symbols)
    BY <1>4, <1>6
  <2> HIDE DEF c, d
  <2>4. First(Text(img), c) # 0 /\ Before(Text(img), First(Text(img), c)) = s
    BY <2>1, <2>2, <2>3, CutFirst
  <2> QED BY <2>4 DEF s, f, j, t, c
<1> QED BY <1>7, <1>8

(* What stands before the first slash is the host, or else taken for none. *)
LEMMA Candidate ==
    ASSUME NEW img, WellFormed(img),
           NEW z \in Seq(Symbols), ~Contains(z, "/")
    PROVE  LET s == HostPart(img) \o (Joined(img.path) \o z)
               slash == First(s, "/")
               candidate == Before(s, slash)
           IN  /\ slash \in Nat
               /\ img.host # <<>> =>
                      /\ slash # 0 /\ candidate = img.host
                      /\ After(s, slash) = Joined(img.path) \o z
               /\ img.host = <<>> =>
                      /\ s = Joined(img.path) \o z
                      /\ IF Len(img.path) > 1
                         THEN slash # 0 /\ candidate = <<img.path[1]>>
                         ELSE slash = 0 /\ candidate = <<>>
<1> DEFINE c == "/"  h == img.host  j == Joined(img.path)
           s == HostPart(img) \o (j \o z)
<1>1. /\ h \in Seq(Symbols) /\ j \in Seq(Symbols) /\ ~Contains(h, c)
      /\ img.path \in Seq(Names) /\ Len(img.path) \in Nat /\ img.path # <<>>
      /\ Len(img.path) > 1 <=> Len(img.path) # 1
  BY PartsAre
<1>2. c \in Symbols
  BY SymbolsAre
<1>3. /\ Len(j) = 2 * Len(img.path) - 1 /\ j[1] = img.path[1]
      /\ Len(img.path) > 1 => j[2] = c
      /\ Contains(j, c) <=> Len(img.path) > 1
  BY <1>1, JoinedIs
<1>4. s = (IF h = <<>> THEN <<>> ELSE h \o <<c>>) \o (j \o z)
  BY DEF HostPart
<1>5. img.path[1] \in Symbols /\ img.path[1] # c
  BY <1>1, SymbolsAre
<1>6. ~Contains(z, c)
  OBVIOUS
<1> HIDE DEF c, h, j, s
<1>7. j \o z \in Seq(Symbols) /\ Len(j \o z) = Len(j) + Len(z)
  BY <1>1
<1>8. CASE h # <<>>
  <2> DEFINE y == j \o z
  <2>1. s = Parted(h, c, y)
    BY <1>1, <1>2, <1>4, <1>7, <1>8, PartedIs
  <2>2. y \in Seq(Symbols)
    BY <1>7
  <2> HIDE DEF y
  <2>3. /\ First(s, c) \in Nat \ {0} /\ Before(s, First(s, c)) = h
         /\ After(s, First(s, c)) = y
    BY <1>1, <1>2, <2>1, <2>2, CutFirst
  <2> QED BY <1>8, <2>3 DEF c, h, j, s, y
<1>9. CASE h = <<>> /\ Len(img.path) > 1
  <2>1. s = j \o z
    BY <1>4, <1>7, <1>9
  <2> DEFINE a == <<img.path[1]>>  b == SubSeq(s, 3, Len(s))
  <2>2. Len(j) \in Nat /\ Len(j) >= 3 /\ Len(z) \in Nat
    BY <1>1, <1>3, <1>9
  <2>3. s \in Seq(Symbols) /\ Len(s) >= 3 /\ s[1] = img.path[1] /\ s[2] = c
    BY <1>1, <1>3, <1>7, <1>9, <2>1, <2>2
  <2>4. b \in Seq(Symbols) /\ Len(b) = Len(s) - 2
         /\ \A i \in 1 .. Len(b) : b[i] = s[i + 2]
    BY <2>3
  <2>5. a \in Seq(Symbols) /\ Len(a) = 1 /\ a[1] = s[1] /\ ~Contains(a, c)
    BY <1>5, <2>3 DEF Contains
  <2> HIDE DEF a, b
  <2>6. s = Parted(a, c, b)
    <3>1. Len(s) = Len(a) + 1 + Len(b)
      BY <2>3, <2>4, <2>5
    <3>2. \A i \in 1 .. Len(a) : s[i] = a[i]
      <4>1. \A i \in 1 .. Len(a) : i = 1
        BY <2>5
      <4> QED BY <2>5, <4>1
    <3>3. s[Len(a) + 1] = c
      BY <2>3, <2>5
    <3>4. \A i \in 1 .. Len(b) : s[Len(a) + 1 + i] = b[i]
      <4>1. \A i \in 1 .. Len(b) : Len(a) + 1 + i = i + 2
        BY <2>5
      <4> QED BY <2>4, <4>1
    <3>5. /\ a \in Seq(Symbols) /\ b \in Seq(Symbols) /\ c \in Symbols
          /\ s \in Seq(Symbols)
      BY <1>2, <2>3, <2>4, <2>5
    <3> QED BY <3>1, <3>2, <3>3, <3>4, <3>5, PartedEqual
  <2>7. First(s, c) \in Nat \ {0} /\ Before(s, First(s, c)) = a
    BY <1>2, <2>4, <2>5, <2>6, CutFirst
  <2> QED BY <1>9, <2>1, <2>7 DEF a, c, h, j, s
<1>10. CASE h = <<>> /\ ~(Len(img.path) > 1)
  <2>1. s = j \o z
    BY <1>4, <1>7, <1>10
  <2>2. ~Contains(j \o z, c)
    <3>1. Contains(j \o z, c) <=> Contains(j, c) \/ Contains(z, c)
      BY <1>1, ContainsConcat
    <3> QED BY <1>3, <1>6, <1>10, <3>1
  <2>3. First(s, c) = 0
    BY <2>1, <2>2, AbsentIs
  <2>4. Before(s, 0) = <<>>
    BY SubSeqEmpty DEF Before
  <2> QED BY <1>10, <2>1, <2>3, <2>4 DEF c, h, j, s
<1> QED BY <1>8, <1>9, <1>10 DEF c, h, j, s

(* What is taken for a host is one, but for a bare "localhost". *)
LEMMA CandidateIsHost ==
    ASSUME NEW img, WellFormed(img), ~BareLocalhost(img),
           NEW z \in Seq(Symbols), ~Contains(z, "/")
    PROVE  LET s == HostPart(img) \o (Joined(img.path) \o z)
               candidate == Before(s, First(s, "/"))
           IN  IF img.host = <<>> THEN ~HostLike(candidate)
               ELSE candidate = img.host /\ HostLike(candidate)
<1> DEFINE s == HostPart(img) \o (Joined(img.path) \o z)
           candidate == Before(s, First(s, "/"))
<1>1. /\ img.host # <<>> => candidate = img.host
      /\ img.host = <<>> => candidate = IF Len(img.path) > 1
                                       THEN <<img.path[1]>> ELSE <<>>
  <2> HIDE DEF s
  <2>1. IF img.host # <<>> THEN candidate = img.host
        ELSE IF Len(img.path) > 1 THEN candidate = <<img.path[1]>>
        ELSE candidate = <<>>
    BY Candidate DEF s
  <2> QED BY <2>1
<1> HIDE DEF candidate
<1>2. CASE img.host # <<>>
  <2>1. \/ Len(img.host) = 1 /\ img.host[1] \in Dotted \cup {"localhost"}
        \/ Len(img.host) = 3 /\ img.host[2] = ":"
    BY <1>2 DEF WellFormed
  <2>2. img.host \in Seq(Symbols)
    BY PartsAre
  <2>3. CASE Len(img.host) = 1
    <3>1. img.host = <<img.host[1]>>
      BY <2>2, <2>3
    <3>2. img.host[1] # "localhost"
      BY <3>1 DEF BareLocalhost
    <3>3. 1 \in DOMAIN img.host /\ img.host[1] \in Dotted
      BY <2>1, <2>2, <2>3, <3>2
    <3> QED BY <1>1, <1>2, <3>3 DEF HostLike, candidate
  <2>4. CASE Len(img.host) = 3
    <3>1. Contains(img.host, ":")
      BY <2>1, <2>2, <2>4 DEF Contains
    <3> QED BY <1>1, <1>2, <3>1 DEF HostLike, candidate
  <2> QED BY <2>1, <2>3, <2>4
<1>3. CASE img.host = <<>> /\ Len(img.path) > 1
  <2>1. img.path[1] \in Names /\ img.path[1] \notin Dotted
    BY <1>3, PartsAre DEF WellFormed
  <2>2. img.path[1] # ":"
    BY <2>1, SymbolsAre
  <2>3. ~HostLike(<<img.path[1]>>)
    BY <2>1, <2>2 DEF HostLike, Contains
  <2> QED BY <1>1, <1>3, <2>3 DEF candidate
<1>4. CASE img.host = <<>> /\ ~(Len(img.path) > 1)
  <2>1. ~HostLike(<<>>)
    BY DEF HostLike, Contains
  <2> QED BY <1>1, <1>4, <2>1 DEF candidate
<1> QED BY <1>2, <1>3, <1>4 DEF candidate

-----------------------------------------------------------------------------
(* The router. *)

(* The router reads the host that the daemon pulls from, of every reference   *)
(* but those to a bare "localhost". (registryHost, router.go:76-94.)          *)
THEOREM RouterReadsHosts ==
    \A img : WellFormed(img) /\ ~BareLocalhost(img)
        => RegistryHost(Text(img)) = img.host
<1> SUFFICES ASSUME NEW img, WellFormed(img), ~BareLocalhost(img)
             PROVE  RegistryHost(Text(img)) = img.host
  OBVIOUS
<1> DEFINE at == First(Text(img), "@")
           rest == IF at = 0 THEN Text(img) ELSE Before(Text(img), at)
           candidate == Before(rest, First(rest, "/"))
<1>1. rest = HostPart(img) \o (Joined(img.path) \o TagPart(img))
  BY CutDigest
<1>2. TagPart(img) \in Seq(Symbols) /\ ~Contains(TagPart(img), "/")
  BY PartsAre
<1>3. RegistryHost(Text(img)) = IF HostLike(candidate) THEN candidate ELSE <<>>
  BY DEF RegistryHost
<1> HIDE DEF rest
<1>4. IF img.host = <<>> THEN ~HostLike(candidate)
      ELSE candidate = img.host /\ HostLike(candidate)
  BY <1>1, <1>2, CandidateIsHost
<1> HIDE DEF candidate
<1> QED BY <1>3, <1>4

-----------------------------------------------------------------------------
(* The providers. *)

LEMMA SplitRefGives ==
    ASSUME NEW host, NEW rest
    PROVE  LET r == SplitRef(host, rest)
           IN  r = Reading(host, r.path, r.ref)
<1> DEFINE at == First(rest, "@")  colon == Final(rest, ":")
<1>1. CASE at # 0
  BY <1>1 DEF SplitRef, Reading
<1>2. CASE at = 0 /\ colon # 0
  BY <1>2 DEF SplitRef, Reading
<1>3. CASE at = 0 /\ colon = 0
  BY <1>3 DEF SplitRef, Reading
<1> QED BY <1>1, <1>2, <1>3

(* A tag or a digest is split off where it begins. *)
LEMMA SplitRefReads ==
    ASSUME NEW img, WellFormed(img), img.tag = <<>> \/ img.digest = <<>>,
           NEW path \in Seq(Symbols), ~Contains(path, ":"), ~Contains(path, "@"),
           NEW host
    PROVE  SplitRef(host, path \o (TagPart(img) \o DigestPart(img)))
               = Reading(host, path, RefOf(img))
<1> DEFINE t == TagPart(img)  d == DigestPart(img)  rest == path \o (t \o d)
           at == First(rest, "@")  colon == Final(rest, ":")
<1>1. img.tag \in Seq(Symbols) /\ img.digest \in Seq(Symbols)
  BY PartsAre, SymbolsAre
<1>2. ":" \in Symbols /\ "@" \in Symbols
  BY SymbolsAre
<1>3. SplitRef(host, rest) =
          IF at # 0 THEN Reading(host, Before(rest, at), After(rest, at))
          ELSE IF colon # 0 THEN Reading(host, Before(rest, colon), After(rest, colon))
          ELSE Reading(host, rest, <<"latest">>)
  BY DEF SplitRef
<1>4. CASE img.digest # <<>>
  <2>1. t = <<>> /\ d = <<"@">> \o img.digest
    BY <1>4 DEF TagPart, DigestPart, Optional
  <2>2. rest = Parted(path, "@", img.digest)
    BY <1>1, <1>2, <2>1, ConcatEmptySeq DEF Parted
  <2> HIDE DEF rest
  <2>3. at # 0 /\ Before(rest, at) = path /\ After(rest, at) = img.digest
    BY <1>1, <1>2, <2>2, CutFirst
  <2>4. RefOf(img) = img.digest
    BY <1>4 DEF RefOf
  <2> HIDE DEF at, colon
  <2> QED BY <1>3, <2>3, <2>4 DEF rest
<1>5. CASE img.digest = <<>> /\ img.tag # <<>>
  <2>1. t = <<":">> \o img.tag /\ d = <<>>
    BY <1>5 DEF TagPart, DigestPart, Optional
  <2>2. t \in Seq(Symbols) /\ ~Contains(t, "@")
    BY PartsAre
  <2>3. rest = path \o t
    BY <2>1, <2>2
  <2>4. rest = Parted(path, ":", img.tag)
    BY <2>1, <2>3 DEF Parted
  <2>5. ~Contains(path \o t, "@")
    <3>1. Contains(path \o t, "@") <=> Contains(path, "@") \/ Contains(t, "@")
      BY <2>2, ContainsConcat
    <3> QED BY <2>2, <3>1
  <2>6. ~Contains(img.tag, ":")
    <3>1. \A i \in 1 .. Len(img.tag) : img.tag[i] # ":"
      BY PartsAre, SymbolsAre
    <3> QED BY <3>1 DEF Contains
  <2> HIDE DEF rest
  <2>7. at = 0
    BY <2>3, <2>5, AbsentIs
  <2>8. colon # 0 /\ Before(rest, colon) = path /\ After(rest, colon) = img.tag
    BY <1>1, <1>2, <2>4, <2>6, CutFinal
  <2>9. RefOf(img) = img.tag
    BY <1>5 DEF RefOf
  <2> HIDE DEF at, colon
  <2> QED BY <1>3, <2>7, <2>8, <2>9 DEF rest
<1>6. CASE img.digest = <<>> /\ img.tag = <<>>
  <2>1. t = <<>> /\ d = <<>>
    BY <1>6 DEF TagPart, DigestPart, Optional
  <2>2. rest = path
    BY <2>1
  <2> HIDE DEF rest
  <2>3. at = 0 /\ colon = 0
    BY <2>2, AbsentIs
  <2>4. RefOf(img) = <<"latest">>
    BY <1>6 DEF RefOf
  <2> HIDE DEF at, colon
  <2> QED BY <1>3, <2>2, <2>3, <2>4 DEF rest
<1> QED BY <1>4, <1>5, <1>6

LEMMA LibraryPath ==
    ASSUME NEW path \in Seq(Names), Len(path) = 1
    PROVE  LET named == <<"library">> \o path
           IN  /\ named \in Seq(Names) /\ named # <<>>
               /\ Joined(named) = <<"library", "/">> \o Joined(path)
<1> DEFINE l == "library"  c == "/"
           named == <<l>> \o path  j == Joined(named)  w == <<l, c>> \o path
<1>1. l \in Names /\ l \in Symbols /\ c \in Symbols
  BY HostsAssumption, SymbolsAre
<1> HIDE DEF l, c
<1>2. named \in Seq(Names) /\ Len(named) = 2 /\ named[1] = l /\ named[2] = path[1]
  <2> DEFINE a == <<l>>
  <2>1. a \in Seq(Names) /\ Len(a) = 1 /\ a[1] = l
    BY <1>1
  <2> HIDE DEF a
  <2>2. a \o path \in Seq(Names) /\ Len(a \o path) = 2
        /\ (a \o path)[1] = l /\ (a \o path)[2] = path[1]
    <3>1. 1 <= Len(a) /\ ~(2 <= Len(a)) /\ 2 - Len(a) = 1
      BY <2>1
    <3> QED BY <2>1, <3>1, ConcatProperties
  <2> QED BY <2>2 DEF a
<1>3. path \in Seq(Symbols) /\ Len(path) = 1
  BY SymbolsAre
<1>10. named # <<>> /\ path # <<>>
  BY <1>2, <1>3
<1>4. /\ w \in Seq(Symbols) /\ Len(w) = 3
      /\ w[1] = l /\ w[2] = c /\ w[3] = path[1]
  <2> DEFINE a == <<l, c>>
  <2>1. a \in Seq(Symbols) /\ Len(a) = 2 /\ a[1] = l /\ a[2] = c
    BY <1>1
  <2> HIDE DEF a
  <2>2. a \o path \in Seq(Symbols) /\ Len(a \o path) = 3
        /\ (a \o path)[1] = l /\ (a \o path)[2] = c /\ (a \o path)[3] = path[1]
    <3>1. 1 <= Len(a) /\ 2 <= Len(a) /\ ~(3 <= Len(a)) /\ 3 - Len(a) = 1
      BY <2>1
    <3>2. a \o path \in Seq(Symbols) /\ Len(a \o path) = 3
      BY <1>3, <2>1, ConcatProperties
    <3>3. \A i \in 1 .. Len(a) + Len(path) :
              (a \o path)[i] = IF i <= Len(a) THEN a[i] ELSE path[i - Len(a)]
      BY <1>3, <2>1, ConcatProperties
    <3>4. {1, 2, 3} \subseteq 1 .. Len(a) + Len(path)
      BY <1>3, <2>1
    <3> HIDE DEF w
    <3>5. /\ (a \o path)[1] = a[1] /\ (a \o path)[2] = a[2]
          /\ (a \o path)[3] = path[3 - Len(a)]
      BY <3>1, <3>3, <3>4, Zenon
    <3> QED BY <2>1, <3>1, <3>2, <3>5
  <2> QED BY <2>2 DEF a
<1> HIDE DEF named
<1>5. j \in Seq(Symbols) /\ Len(j) = 3 /\ j[1] = l /\ j[2] = c
  <2>1. Len(named) > 1 /\ 2 * Len(named) - 1 = 3
    BY <1>2
  <2> QED BY <1>2, <1>10, <2>1, JoinedIs DEF c
<1>6. j[3] = path[1]
  <2>1. 3 \in 1 .. 2 * Len(named) - 1 /\ 3 % 2 = 1 /\ (3 + 1) \div 2 = 2
    BY <1>2
  <2> QED BY <1>2, <2>1 DEF Joined
<1> HIDE DEF w, j
<1>7. \A i \in 1 .. 3 : j[i] = w[i]
  <2>1. \A i \in 1 .. 3 : i = 1 \/ i = 2 \/ i = 3
    OBVIOUS
  <2> QED BY <1>4, <1>5, <1>6, <2>1
<1>8. j = w
  BY <1>4, <1>5, <1>7, SeqEqual
<1>9. Joined(path) = path
  BY <1>10, JoinedIs
<1> QED BY <1>2, <1>8, <1>9, <1>10 DEF named, w, j, l, c

(* Behind the slash after the host stands the path. *)
LEMMA RestIs ==
    ASSUME NEW img, WellFormed(img), ~BareLocalhost(img)
    PROVE  LET text == Text(img)
               slash == First(text, "/")
               candidate == Before(text, slash)
           IN  /\ IF img.host = <<>> THEN ~HostLike(candidate)
                  ELSE candidate = img.host /\ HostLike(candidate) /\ slash # 0
               /\ (IF HostLike(candidate) THEN After(text, slash) ELSE text)
                      = Joined(img.path) \o (TagPart(img) \o DigestPart(img))
<1> DEFINE z == TagPart(img) \o DigestPart(img)
           s == HostPart(img) \o (Joined(img.path) \o z)
           slash == First(s, "/")
           candidate == Before(s, slash)
<1>1. Text(img) = s
  BY TextIs
<1>2. /\ TagPart(img) \in Seq(Symbols) /\ DigestPart(img) \in Seq(Symbols)
      /\ ~Contains(TagPart(img), "/") /\ ~Contains(DigestPart(img), "/")
  BY PartsAre
<1>3. z \in Seq(Symbols) /\ ~Contains(z, "/")
  BY <1>2, ContainsConcat
<1> HIDE DEF z
<1>4. IF img.host = <<>> THEN ~HostLike(candidate)
      ELSE candidate = img.host /\ HostLike(candidate)
  BY <1>3, CandidateIsHost
<1>5. IF img.host = <<>> THEN s = Joined(img.path) \o z
      ELSE slash # 0 /\ After(s, slash) = Joined(img.path) \o z
  BY <1>3, Candidate
<1> HIDE DEF s
<1> QED BY <1>1, <1>4, <1>5 DEF z

(* What Docker Hub's parser makes of a reference without a tag and a digest. *)
LEMMA HubReads ==
    ASSUME NEW img, WellFormed(img), Own("hub", img), ~Misread("hub", img)
    PROVE  DockerHubParseRef(Text(img))
               = Reading(HostOf(img), PathOf(img), RefOf(img))
<1> DEFINE text == Text(img)
           slash == First(text, "/")
           candidate == Before(text, slash)
           rest == IF HostLike(candidate) THEN After(text, slash) ELSE text
           named == IF Contains(rest, "/") THEN rest ELSE <<"library", "/">> \o rest
           j == Joined(img.path)
           z == TagPart(img) \o DigestPart(img)
<1>1. /\ ~BareLocalhost(img) /\ (img.tag = <<>> \/ img.digest = <<>>)
      /\ Len(img.path) > 1 \/ img.host # <<"registry-1.docker.io">>
  <2>1. Len(img.path) = 1 \/ Len(img.path) > 1
    BY PartsAre
  <2> QED BY <2>1 DEF Misread
<1>2. img.host \in HubHosts
  BY DEF Own
<1>3. /\ IF img.host = <<>> THEN ~HostLike(candidate)
         ELSE candidate = img.host /\ HostLike(candidate)
      /\ rest = j \o z
  BY <1>1, RestIs
<1>4. /\ img.path \in Seq(Names) /\ img.path # <<>> /\ Len(img.path) \in Nat
      /\ Len(img.path) > 1 <=> Len(img.path) # 1
      /\ TagPart(img) \in Seq(Symbols) /\ DigestPart(img) \in Seq(Symbols)
      /\ ~Contains(TagPart(img), "/") /\ ~Contains(DigestPart(img), "/")
  BY PartsAre
<1>5. z \in Seq(Symbols) /\ ~Contains(z, "/")
  BY <1>4, ContainsConcat
<1>6. j \in Seq(Symbols) /\ (Contains(j, "/") <=> Len(img.path) > 1)
  BY <1>4, JoinedIs
<1> HIDE DEF z, j
<1>7. Contains(j \o z, "/") <=> Len(img.path) > 1
  <2>1. Contains(j \o z, "/") <=> Contains(j, "/") \/ Contains(z, "/")
    BY <1>5, <1>6, ContainsConcat
  <2> QED BY <1>5, <1>6, <2>1
<1> HIDE DEF rest
<1>8. /\ PathOf(img) \in Seq(Symbols) /\ named = PathOf(img) \o z
      /\ ~Contains(PathOf(img), ":") /\ ~Contains(PathOf(img), "@")
  <2>1. CASE Len(img.path) > 1
    <3>1. PathOf(img) = j
      BY <1>4, <2>1 DEF PathOf, j
    <3>2. ~Contains(j, ":") /\ ~Contains(j, "@")
      BY <1>4, JoinedIs DEF j
    <3> QED BY <1>3, <1>6, <1>7, <2>1, <3>1, <3>2
  <2>2. CASE Len(img.path) = 1
    <3> DEFINE library == <<"library">> \o img.path  l == "library"  c == "/"
    <3>1. PathOf(img) = Joined(library)
      BY <1>1, <1>2, <2>2 DEF PathOf
    <3>2. library \in Seq(Names) /\ library # <<>> /\ Joined(library) = <<l, c>> \o j
      BY <1>4, <2>2, LibraryPath DEF j
    <3> HIDE DEF library
    <3>3. /\ Joined(library) \in Seq(Symbols)
          /\ ~Contains(Joined(library), ":") /\ ~Contains(Joined(library), "@")
      BY <3>2, JoinedIs
    <3>4. named = <<l, c>> \o (j \o z)
      BY <1>3, <1>7, <2>2
    <3>5. <<l, c>> \in Seq(Symbols)
      BY HostsAssumption, SymbolsAre
    <3> HIDE DEF named, l, c
    <3> DEFINE lc == <<l, c>>
    <3>6. lc \in Seq(Symbols)
      BY <3>5
    <3> HIDE DEF lc
    <3>7. lc \o (j \o z) = (lc \o j) \o z
      BY <1>5, <1>6, <3>6, ConcatAssociative
    <3> QED BY <3>1, <3>2, <3>3, <3>4, <3>7 DEF lc
  <2>3. Len(img.path) = 1 \/ Len(img.path) > 1
    BY <1>4
  <2> HIDE DEF named
  <2> QED BY <2>1, <2>2, <2>3
<1>9. HostOf(img) = <<"registry-1.docker.io">>
  BY <1>2 DEF HostOf
<1>10. SplitRef(<<"registry-1.docker.io">>, PathOf(img) \o z)
           = Reading(<<"registry-1.docker.io">>, PathOf(img), RefOf(img))
  BY <1>1, <1>8, SplitRefReads DEF z
<1>11. ~(HostLike(candidate) /\ candidate \notin HubPrefixes)
  BY <1>2, <1>3 DEF HubHosts, HubPrefixes
<1>12. DockerHubParseRef(text) =
           IF HostLike(candidate) /\ candidate \notin HubPrefixes
           THEN Verdict("unsupported")
           ELSE SplitRef(<<"registry-1.docker.io">>, named)
  BY DEF DockerHubParseRef, rest
<1> HIDE DEF candidate, named
<1> QED BY <1>8, <1>9, <1>10, <1>11, <1>12

(* Docker Hub leaves the images of the other registries alone. *)
LEMMA HubLeaves ==
    ASSUME NEW img, WellFormed(img), ~BareLocalhost(img)
    PROVE  DockerHubParseRef(Text(img)).verdict
               = IF Own("hub", img) THEN "read" ELSE "unsupported"
<1> DEFINE text == Text(img)
           slash == First(text, "/")
           candidate == Before(text, slash)
           rest == IF HostLike(candidate) THEN After(text, slash) ELSE text
           named == IF Contains(rest, "/") THEN rest ELSE <<"library", "/">> \o rest
<1>1. IF img.host = <<>> THEN ~HostLike(candidate)
      ELSE candidate = img.host /\ HostLike(candidate)
  BY RestIs
<1>2. DockerHubParseRef(text) =
          IF HostLike(candidate) /\ candidate \notin HubPrefixes
          THEN Verdict("unsupported")
          ELSE SplitRef(<<"registry-1.docker.io">>, named)
  BY DEF DockerHubParseRef
<1>3. SplitRef(<<"registry-1.docker.io">>, named).verdict = "read"
  BY SplitRefGives DEF Reading
<1>4. Own("hub", img) <=> img.host = <<>> \/ img.host \in HubPrefixes
  BY DEF Own, HubHosts, HubPrefixes
<1> HIDE DEF candidate, named
<1>5. HostLike(candidate) /\ candidate \notin HubPrefixes <=> ~Own("hub", img)
  <2>1. <<>> \notin HubPrefixes
    BY DEF HubPrefixes
  <2> QED BY <1>1, <1>4, <2>1
<1> QED BY <1>2, <1>3, <1>5 DEF Verdict

(* The text after an explicit host. *)
LEMMA TextAfterHost ==
    ASSUME NEW img, WellFormed(img), img.host # <<>>
    PROVE  LET rest == Joined(img.path) \o (TagPart(img) \o DigestPart(img))
           IN  rest \in Seq(Symbols) /\ Text(img) = Parted(img.host, "/", rest)
<1> DEFINE rest == Joined(img.path) \o (TagPart(img) \o DigestPart(img))
<1>1. /\ rest \in Seq(Symbols) /\ img.host \in Seq(Symbols) /\ "/" \in Symbols
  BY PartsAre, SymbolsAre
<1>2. Text(img) = HostPart(img) \o rest
  BY TextIs
<1> HIDE DEF rest
<1>3. Text(img) = img.host \o <<"/">> \o rest
  BY <1>2 DEF HostPart
<1> QED BY <1>1, <1>3, PartedIs DEF rest

LEMMA TextTyped ==
    ASSUME NEW img, WellFormed(img)
    PROVE  Text(img) \in Seq(Symbols)
<1> DEFINE f == HostPart(img)  j == Joined(img.path)
           t == TagPart(img)  d == DigestPart(img)
<1>1. /\ f \in Seq(Symbols) /\ j \in Seq(Symbols)
      /\ t \in Seq(Symbols) /\ d \in Seq(Symbols)
  BY PartsAre
<1>2. Text(img) = f \o (j \o (t \o d))
  BY TextIs
<1> HIDE DEF f, j, t, d
<1> QED BY <1>1, <1>2

LEMMA GhcrPrefix ==
    ASSUME NEW img, WellFormed(img), ~BareLocalhost(img)
    PROVE  /\ IsPrefix(<<"ghcr.io", "/">>, Text(img)) <=> img.host = <<"ghcr.io">>
           /\ img.host = <<"ghcr.io">> =>
                  After(Text(img), 2)
                      = Joined(img.path) \o (TagPart(img) \o DigestPart(img))
<1> DEFINE g == "ghcr.io"  c == "/"  text == Text(img)
           rest == Joined(img.path) \o (TagPart(img) \o DigestPart(img))
<1>1. g \in Symbols /\ c \in Symbols /\ g # c /\ g \in Dotted
  BY HostsAssumption, SymbolsAre
<1>2. img.host # <<>> => rest \in Seq(Symbols) /\ text = Parted(img.host, c, rest)
  BY TextAfterHost
<1>3. img.host \in Seq(Symbols)
  BY PartsAre
<1>4. text \in Seq(Symbols)
  BY TextTyped
<1>5. LET slash == First(text, c)  candidate == Before(text, slash)
      IN  IF img.host = <<>> THEN ~HostLike(candidate) ELSE candidate = img.host
  BY RestIs
<1> HIDE DEF g, c, text, rest
<1>6. ASSUME img.host = <<g>>
      PROVE  IsPrefix(<<g, c>>, text) /\ After(text, 2) = rest
  <2> DEFINE h == <<g>>  w == h \o <<c>> \o rest
  <2>1. h \in Seq(Symbols) /\ Len(h) = 1 /\ h[1] = g /\ rest \in Seq(Symbols)
    BY <1>1, <1>2, <1>6
  <2>2. text = Parted(h, c, rest)
    BY <1>2, <1>6
  <2> HIDE DEF h
  <2>3. text = w
    BY <1>1, <2>1, <2>2, PartedIs
  <2>4. /\ w \in Seq(Symbols) /\ Len(w) = Len(h) + 1 + Len(rest)
        /\ \A i \in 1 .. Len(h) : w[i] = h[i]
        /\ w[Len(h) + 1] = c /\ After(w, Len(h) + 1) = rest
    BY <1>1, <2>1, SplitAround
  <2> HIDE DEF w
  <2>5. Len(text) >= 2 /\ text[1] = g /\ text[2] = c /\ After(text, 2) = rest
    <3>1. Len(h) + 1 = 2 /\ 1 \in 1 .. Len(h) /\ Len(rest) \in Nat
      BY <2>1
    <3> QED BY <2>1, <2>3, <2>4, <3>1
  <2>6. SubSeq(text, 1, 2) = <<g, c>>
    <3> DEFINE u == SubSeq(text, 1, 2)  v == <<g, c>>
    <3>1. v \in Seq(Symbols) /\ Len(v) = 2 /\ v[1] = g /\ v[2] = c
      BY <1>1
    <3>2. u \in Seq(Symbols) /\ Len(u) = 2 /\ u[1] = g /\ u[2] = c
      BY <1>4, <2>5
    <3> HIDE DEF u, v
    <3>3. \A i \in 1 .. 2 : u[i] = v[i]
      <4>1. \A i \in 1 .. 2 : i = 1 \/ i = 2
        OBVIOUS
      <4> QED BY <3>1, <3>2, <4>1
    <3>4. u = v
      BY <3>1, <3>2, <3>3, SeqEqual
    <3> QED BY <3>4 DEF u, v
  <2> QED BY <2>5, <2>6 DEF IsPrefix
<1>7. ASSUME IsPrefix(<<g, c>>, text) PROVE img.host = <<g>>
  <2> DEFINE h == <<g>>  b == SubSeq(text, 3, Len(text))
  <2>1. Len(text) >= 2 /\ SubSeq(<<g, c>>, 1, 2) = SubSeq(text, 1, 2)
    BY <1>7 DEF IsPrefix
  <2>2. text[1] = g /\ text[2] = c
    BY <1>4, <2>1
  <2>3. h \in Seq(Symbols) /\ Len(h) = 1 /\ h[1] = g /\ ~Contains(h, c)
    BY <1>1 DEF Contains
  <2>4. HostLike(h)
    BY <1>1 DEF HostLike
  <2>5. b \in Seq(Symbols) /\ Len(b) = Len(text) - 2
        /\ \A i \in 1 .. Len(b) : b[i] = text[i + 2]
    <3>1. Len(text) \in Int /\ \A i \in 3 .. Len(text) : text[i] \in Symbols
      BY <1>4
    <3>2. /\ b \in Seq(Symbols)
          /\ Len(b) = IF 3 <= Len(text) THEN Len(text) - 3 + 1 ELSE 0
          /\ \A i \in 1 .. Len(text) - 3 + 1 : b[i] = text[3 + i - 1]
      BY <3>1, SubSeqProperties
    <3> HIDE DEF b
    <3>3. Len(b) = Len(text) - 2
      <4> DEFINE n == Len(text)
      <4>1. n \in Int /\ n >= 2 /\ Len(b) = IF 3 <= n THEN n - 3 + 1 ELSE 0
        BY <2>1, <3>1, <3>2
      <4> HIDE DEF n
      <4>2. Len(b) = n - 2
        BY <4>1
      <4> QED BY <4>2 DEF n
    <3>4. \A i \in 1 .. Len(b) : 3 + i - 1 = i + 2 /\ i \in 1 .. Len(text) - 3 + 1
      BY <3>1, <3>3
    <3> QED BY <3>2, <3>3, <3>4
  <2> HIDE DEF h, b
  <2>6. text = Parted(h, c, b)
    <3>1. Len(text) = Len(h) + 1 + Len(b)
      BY <1>4, <2>1, <2>3, <2>5
    <3>2. \A i \in 1 .. Len(h) : text[i] = h[i]
      <4>1. \A i \in 1 .. Len(h) : i = 1
        BY <2>3
      <4> QED BY <2>2, <2>3, <4>1
    <3>3. text[Len(h) + 1] = c
      BY <2>2, <2>3
    <3>4. \A i \in 1 .. Len(b) : text[Len(h) + 1 + i] = b[i]
      <4>1. \A i \in 1 .. Len(b) : Len(h) + 1 + i = i + 2
        BY <2>3
      <4> QED BY <2>5, <4>1
    <3> QED BY <1>1, <1>4, <2>3, <2>5, <3>1, <3>2, <3>3, <3>4, PartedEqual
  <2>7. Before(text, First(text, c)) = h
    BY <1>1, <2>3, <2>5, <2>6, CutFirst
  <2> QED BY <1>5, <2>4, <2>7 DEF h
<1> QED BY <1>6, <1>7 DEF g, c, text, rest

LEMMA GhcrReads ==
    ASSUME NEW img, WellFormed(img), Own("ghcr", img), ~Misread("ghcr", img)
    PROVE  GhcrParseRef(Text(img))
               = IF Len(img.path) = 1 THEN Verdict("invalid")
                 ELSE Reading(HostOf(img), PathOf(img), RefOf(img))
<1> DEFINE j == Joined(img.path)
           rest == j \o (TagPart(img) \o DigestPart(img))
           read == SplitRef(<<"ghcr.io">>, After(Text(img), 2))
<1>1. /\ ~BareLocalhost(img) /\ (img.tag = <<>> \/ img.digest = <<>>)
      /\ img.host = <<"ghcr.io">>
  BY DEF Misread, Own
<1>2. IsPrefix(<<"ghcr.io", "/">>, Text(img)) /\ After(Text(img), 2) = rest
  BY <1>1, GhcrPrefix
<1>3. /\ j \in Seq(Symbols) /\ ~Contains(j, ":") /\ ~Contains(j, "@")
      /\ Contains(j, "/") <=> Len(img.path) # 1
  BY PartsAre, JoinedIs
<1>4. read = Reading(<<"ghcr.io">>, j, RefOf(img))
  <2>1. SplitRef(<<"ghcr.io">>, rest) = Reading(<<"ghcr.io">>, j, RefOf(img))
    <3> HIDE DEF j
    <3> QED BY <1>1, <1>3, SplitRefReads
  <2> QED BY <1>2, <2>1
<1>5. img.host \notin HubHosts
  BY <1>1 DEF HubHosts
<1>6. HostOf(img) = <<"ghcr.io">> /\ PathOf(img) = j
  BY <1>1, <1>5 DEF HostOf, PathOf
<1>7. read.path = j
  BY <1>4 DEF Reading
<1> HIDE DEF read, j
<1>8. CASE Len(img.path) = 1
  BY <1>2, <1>3, <1>7, <1>8 DEF GhcrParseRef, read
<1>9. CASE Len(img.path) # 1
  <2>1. Contains(read.path, "/")
    BY <1>3, <1>7, <1>9
  <2>2. GhcrParseRef(Text(img)) = read
    BY <1>2, <2>1 DEF GhcrParseRef, read
  <2> QED BY <1>4, <1>6, <1>9, <2>2
<1> QED BY <1>8, <1>9

LEMMA GhcrLeaves ==
    ASSUME NEW img, WellFormed(img), ~BareLocalhost(img)
    PROVE  GhcrParseRef(Text(img)).verdict
               \in IF Own("ghcr", img) THEN {"read", "invalid"} ELSE {"unsupported"}
<1> DEFINE read == SplitRef(<<"ghcr.io">>, After(Text(img), 2))
           ours == IsPrefix(<<"ghcr.io", "/">>, Text(img))
<1>1. ours <=> Own("ghcr", img)
  BY GhcrPrefix DEF Own
<1>2. read.verdict = "read"
  BY SplitRefGives DEF Reading
<1>3. GhcrParseRef(Text(img)) =
          IF ~ours THEN Verdict("unsupported")
          ELSE IF ~Contains(read.path, "/") THEN Verdict("invalid") ELSE read
  BY DEF GhcrParseRef
<1> HIDE DEF read, ours
<1> QED BY <1>1, <1>2, <1>3 DEF Verdict

(* GCR's parser finds the host of every image of its own. *)
LEMMA GcrReads ==
    ASSUME NEW img, WellFormed(img), Own("gcr", img)
    PROVE  LET read == GcrParseFullRef(Text(img))
           IN  /\ read.verdict = "read" /\ read.host = img.host
               /\ ~Misread("gcr", img) =>
                      read = Reading(HostOf(img), PathOf(img), RefOf(img))
<1> DEFINE j == Joined(img.path)
           rest == j \o (TagPart(img) \o DigestPart(img))
           slash == First(Text(img), "/")
<1>1. Len(img.host) = 1 /\ img.host[1] \in GcrHosts
  BY DEF Own, GcrHost
<1>2. /\ img.host # <<>> /\ ~BareLocalhost(img) /\ img.host \notin HubHosts
  BY <1>1, HostsAssumption DEF BareLocalhost, HubHosts
<1>3. /\ Before(Text(img), slash) = img.host /\ slash # 0
      /\ After(Text(img), slash) = rest
  BY <1>2, RestIs
<1>4. GcrParseFullRef(Text(img)) = SplitRef(img.host, rest)
  BY <1>3 DEF GcrParseFullRef
<1>5. /\ j \in Seq(Symbols) /\ ~Contains(j, ":") /\ ~Contains(j, "@")
  BY PartsAre, JoinedIs
<1>6. HostOf(img) = img.host /\ PathOf(img) = j
  BY <1>2 DEF HostOf, PathOf
<1>7. SplitRef(img.host, rest).verdict = "read" /\ SplitRef(img.host, rest).host = img.host
  BY SplitRefGives DEF Reading
<1>8. ASSUME ~Misread("gcr", img)
      PROVE  SplitRef(img.host, rest) = Reading(img.host, j, RefOf(img))
  <2>1. img.tag = <<>> \/ img.digest = <<>>
    BY <1>8 DEF Misread
  <2> HIDE DEF j
  <2> QED BY <1>5, <2>1, SplitRefReads
<1> QED BY <1>4, <1>6, <1>7, <1>8

LEMMA EcrReads ==
    ASSUME NEW img, WellFormed(img), Own("ecr", img), ~Misread("ecr", img)
    PROVE  EcrParseRef(Text(img)) = Reading(HostOf(img), PathOf(img), RefOf(img))
<1> DEFINE text == Text(img)
           at == First(text, "@")
           rest == IF at = 0 THEN text ELSE Before(text, at)
           colon == Final(rest, ":")
           repo == IF colon = 0 THEN rest ELSE Before(rest, colon)
           h == img.host  j == Joined(img.path)  t == TagPart(img)  c == "/"
           named == h \o <<c>> \o j
<1>1. h = <<Account>> /\ img.digest = <<>> /\ ~(Len(img.path) > 1)
  BY DEF Misread
<1>2. h # <<>> /\ h \notin HubHosts
  BY <1>1, HostsAssumption DEF HubHosts
<1>3. /\ j \in Seq(Symbols) /\ ~Contains(j, "/") /\ ~Contains(j, ":")
      /\ h \in Seq(Symbols) /\ t \in Seq(Symbols)
  BY <1>1, PartsAre, JoinedIs
<1>4. ":" \in Symbols /\ c \in Symbols /\ c # ":"
  BY SymbolsAre
<1>5. rest = (h \o <<c>>) \o (j \o t)
  BY <1>2, CutDigest DEF HostPart
<1>6. EcrParseRef(text) = Reading(<<Account>>, After(repo, Final(repo, "/")),
                                IF colon = 0 THEN <<"latest">> ELSE After(rest, colon))
  BY DEF EcrParseRef
<1>7. HostOf(img) = <<Account>> /\ PathOf(img) = j
  BY <1>1, <1>2 DEF HostOf, PathOf
<1>8. ~Contains(h, ":")
  <2>1. Account # ":"
    BY HostsAssumption, SymbolsAre
  <2> QED BY <1>1, <2>1 DEF Contains
<1> HIDE DEF h, j, rest
<1> DEFINE hc == h \o <<c>>
<1>9. hc \in Seq(Symbols) /\ ~Contains(hc, ":")
  <2>1. <<c>> \in Seq(Symbols) /\ ~Contains(<<c>>, ":")
    BY <1>4 DEF Contains
  <2>2. Contains(hc, ":") <=> Contains(h, ":") \/ Contains(<<c>>, ":")
    BY <1>3, <2>1, ContainsConcat
  <2> QED BY <1>3, <1>8, <2>1, <2>2
<1>10. rest = hc \o (j \o t)
  BY <1>5
<1>11. rest = (hc \o j) \o t
  <2>1. hc \in Seq(Symbols) /\ j \in Seq(Symbols) /\ t \in Seq(Symbols)
    BY <1>3, <1>9
  <2> HIDE DEF hc, t
  <2>2. \A x, y, z \in Seq(Symbols) : x \o (y \o z) = (x \o y) \o z
    BY ConcatAssociative
  <2> QED BY <1>10, <2>1, <2>2
<1> HIDE DEF hc, c
<1>12. hc \o j \in Seq(Symbols) /\ ~Contains(hc \o j, ":")
  BY <1>3, <1>9, ContainsConcat
<1>13. /\ repo = hc \o j
       /\ (IF colon = 0 THEN <<"latest">> ELSE After(rest, colon)) = RefOf(img)
  <2> DEFINE m == hc \o j
  <2>1. m \in Seq(Symbols) /\ ~Contains(m, ":") /\ rest = m \o t
    BY <1>11, <1>12
  <2> HIDE DEF m
  <2>2. CASE img.tag = <<>>
    <3>1. rest = m
      BY <2>1, <2>2 DEF t, TagPart, Optional
    <3>2. colon = 0
      BY <2>1, <3>1, AbsentIs
    <3>3. RefOf(img) = <<"latest">>
      BY <1>1, <2>2 DEF RefOf
    <3> HIDE DEF colon
    <3> QED BY <3>1, <3>2, <3>3 DEF m
  <2>3. CASE img.tag # <<>>
    <3>1. rest = Parted(m, ":", img.tag)
      BY <2>1, <2>3 DEF t, TagPart, Optional, Parted
    <3>2. img.tag \in Seq(Symbols) /\ ~Contains(img.tag, ":")
      <4>1. img.tag \in Seq(Names)
        BY PartsAre
      <4>2. \A i \in 1 .. Len(img.tag) : img.tag[i] # ":"
        BY <4>1, SymbolsAre
      <4> QED BY <4>1, <4>2, SymbolsAre DEF Contains
    <3>3. colon # 0 /\ Before(rest, colon) = m /\ After(rest, colon) = img.tag
      BY <1>4, <2>1, <3>1, <3>2, CutFinal
    <3>4. RefOf(img) = img.tag
      BY <1>1, <2>3 DEF RefOf
    <3> HIDE DEF colon
    <3> QED BY <3>3, <3>4 DEF m
  <2> QED BY <2>2, <2>3
<1> HIDE DEF repo, colon
<1>14. After(repo, Final(repo, "/")) = j
  <2>1. repo = Parted(h, c, j)
    BY <1>3, <1>4, <1>13, PartedIs DEF hc
  <2>2. Final(repo, c) # 0 /\ After(repo, Final(repo, c)) = j
    BY <1>3, <1>4, <2>1, CutFinal DEF c
  <2> QED BY <2>2 DEF c
<1> QED BY <1>6, <1>7, <1>13, <1>14

(* Every provider reads in a reference to an image of its registry the host,  *)
(* the repository and the tag or digest that the daemon pulls, but for the    *)
(* references listed in Misread; GHCR refuses one without an owner.           *)
(* (dockerHubParseRef, ghcrParseRef, gcrParseFullRef, ecrParseRef.)           *)
THEOREM ProvidersRead ==
    ASSUME NEW p \in Providers, NEW img, WellFormed(img),
           Own(p, img), ~Misread(p, img)
    PROVE  ParseRef(p, Text(img)) = IF p = "ghcr" /\ Len(img.path) = 1
                                    THEN Verdict("invalid")
                                    ELSE Reading(HostOf(img), PathOf(img), RefOf(img))
<1>1. CASE p = "hub"
  BY <1>1, HubReads DEF ParseRef
<1>2. CASE p = "ghcr"
  BY <1>2, GhcrReads DEF ParseRef
<1>3. CASE p = "ecr"
  BY <1>3, EcrReads DEF ParseRef
<1>4. CASE p = "gcr"
  BY <1>4, GcrReads DEF ParseRef
<1> QED BY <1>1, <1>2, <1>3, <1>4 DEF Providers

(* No provider calls an image of its own registry unsupported, and Hub and    *)
(* GHCR read none but their own. (ErrUnsupportedImage, registry.go.)          *)
THEOREM ProvidersLeave ==
    ASSUME NEW p \in Providers, NEW img, WellFormed(img), ~BareLocalhost(img)
    PROVE  LET verdict == ParseRef(p, Text(img)).verdict
           IN  /\ Own(p, img) => verdict # "unsupported"
               /\ p \in {"hub", "ghcr"} /\ verdict = "read" => Own(p, img)
<1>1. CASE p = "hub"
  BY <1>1, HubLeaves DEF ParseRef
<1>2. CASE p = "ghcr"
  BY <1>2, GhcrLeaves DEF ParseRef
<1>3. CASE p = "ecr"
  BY <1>3 DEF ParseRef, EcrParseRef, Reading
<1>4. CASE p = "gcr"
  BY <1>4, GcrReads DEF ParseRef
<1> QED BY <1>1, <1>2, <1>3, <1>4 DEF Providers

=============================================================================
