------------------------ MODULE HttpConnectionProofs ------------------------
(***************************************************************************)
(* Theorems of HttpConnection, for requests of any length that come in any *)
(* portions.                                                               *)
(***************************************************************************)
EXTENDS HttpConnection, SequenceTheorems, WellFoundedInduction, TLAPS

\* A set of naturals that is not empty has a least element: what replaces
\* induction here.
LEMMA Least ==
  ASSUME NEW T, T \subseteq Nat, T # {}
  PROVE  \E n \in T : \A m \in T : n <= m
<1> DEFINE R == {p \in Nat \X Nat : p[1] < p[2]}
<1>1. IsWellFoundedOn(R, Nat)
  BY NatLessThanWellFounded DEF OpToRel
<1>2. \E n \in T : \A m \in T : <<m, n>> \notin R
  <2> HIDE DEF R
  <2> QED
    BY <1>1, WFMin
<1>3. \E n \in T : \A m \in T : ~(m < n)
  BY <1>2
<1> QED
  BY <1>3

\* What is true of zero and with each number of the next is true up to n.
LEMMA Induct ==
  ASSUME NEW n \in Nat, NEW True \in SUBSET (0..n), 0 \in True,
         \A m \in 0..n-1 : m \in True => m + 1 \in True
  PROVE  True = 0..n
<1> DEFINE Rest == (0..n) \ True
<1> SUFFICES ASSUME Rest # {} PROVE FALSE
  OBVIOUS
<1>1. Rest \subseteq Nat
  OBVIOUS
<1>2. PICK m \in Rest : \A k \in Rest : m <= k
  <2> HIDE DEF Rest
  <2> QED
    BY <1>1, Least
<1>3. m \in 1..n /\ m - 1 \notin Rest
  BY <1>2
<1>4. m - 1 \in True
  BY <1>3
<1> QED
  BY <1>3, <1>4

\* The recursion of FlattenSeq has a solution: the sequences put together so far.
LEMMA FlattenRecursion ==
  ASSUME NEW n \in Nat, NEW ss
  PROVE  \E f : f = [i \in 1..n |-> IF i = 1 THEN ss[i] ELSE f[i-1] \o ss[i]]
<1> DEFINE Step(f, i) == IF i = 1 THEN ss[i] ELSE f[i-1] \o ss[i]
           Solved(m) == \E f : f = [i \in 1..m |-> Step(f, i)]
           T == {m \in 0..n : Solved(m)}
<1>1. Solved(0)
  <2>1. \A f : [i \in 1..0 |-> 0] = [i \in 1..0 |-> Step(f, i)]
    BY 1..0 = {}
  <2> QED
    BY <2>1
<1>2. ASSUME NEW m \in 0..n-1, Solved(m)
      PROVE  Solved(m + 1)
  <2>1. PICK f : f = [i \in 1..m |-> Step(f, i)]
    BY <1>2
  <2> DEFINE g == [i \in 1..m+1 |-> IF i <= m THEN f[i] ELSE Step(f, i)]
  <2>2. \A i \in 1..m : f[i] = Step(f, i)
    BY <2>1
  <2>3. ASSUME NEW i \in 1..m+1
        PROVE  g[i] = Step(g, i)
    <3>1. CASE i <= m
      BY <2>2, <3>1
    <3>2. CASE i = m + 1
      BY <3>2
    <3> QED
      BY <3>1, <3>2
  <2>4. g = [i \in 1..m+1 |-> Step(g, i)]
    BY <2>3
  <2> QED
    BY <2>4
<1>3. T = 0..n
  <2> HIDE DEF Solved
  <2>1. T \in SUBSET (0..n) /\ 0 \in T
    BY <1>1
  <2>2. \A m \in 0..n-1 : m \in T => m + 1 \in T
    BY <1>2
  <2> HIDE DEF T
  <2> QED
    BY <2>1, <2>2, Induct
<1>4. n \in T
  <2> HIDE DEF T
  <2> QED
    BY <1>3
<1> QED
  BY <1>4

\* f holds the sequences put together so far.
Grown(f, ss, n) == f = [i \in 1..n |-> IF i = 1 THEN ss[i] ELSE f[i-1] \o ss[i]]

\* Flattening is the last of them.
LEMMA FlattenIs ==
  ASSUME NEW ss, Len(ss) \in Nat, Len(ss) # 0
  PROVE  \E f : Grown(f, ss, Len(ss)) /\ FlattenSeq(ss) = f[Len(ss)]
<1> DEFINE flatten == CHOOSE f : f = [i \in 1..Len(ss) |-> IF i = 1 THEN ss[i] ELSE f[i-1] \o ss[i]]
<1>1. flatten = [i \in 1..Len(ss) |-> IF i = 1 THEN ss[i] ELSE flatten[i-1] \o ss[i]]
  <2>1. \E f : f = [i \in 1..Len(ss) |-> IF i = 1 THEN ss[i] ELSE f[i-1] \o ss[i]]
    BY FlattenRecursion
  <2> QED
    BY <2>1, Zenon
<1>2. FlattenSeq(ss) = flatten[Len(ss)]
  BY Zenon DEF FlattenSeq
<1> QED
  BY <1>1, <1>2, Zenon DEF Grown

\* Where each sequence begins in the flattened one.
Laid(at, ss, flat) ==
  /\ at \in [1..Len(ss) + 1 -> Nat]
  /\ at[1] = 0 /\ at[Len(ss) + 1] = Len(flat)
  /\ \A i \in 1..Len(ss) :
       /\ at[i + 1] = at[i] + Len(ss[i]) /\ at[i + 1] <= Len(flat)
       /\ \A k \in 1..Len(ss[i]) : flat[at[i] + k] = ss[i][k]

LEMMA FlattenSteps ==
  ASSUME NEW n \in Nat \ {0}, NEW ss, NEW f, Grown(f, ss, n)
  PROVE  f[1] = ss[1] /\ \A m \in 1..n-1 : f[m + 1] = f[m] \o ss[m + 1]
<1>1. \A i \in 1..n : f[i] = IF i = 1 THEN ss[i] ELSE f[i-1] \o ss[i]
  BY DEF Grown
<1>2. f[1] = ss[1]
  BY <1>1
<1>3. ASSUME NEW m \in 1..n-1 PROVE f[m + 1] = f[m] \o ss[m + 1]
  <2>1. m + 1 \in 1..n /\ m + 1 # 1 /\ (m + 1) - 1 = m
    OBVIOUS
  <2>2. f[m + 1] = f[(m + 1) - 1] \o ss[m + 1]
    BY <1>1, <2>1
  <2> QED
    BY <2>1, <2>2
<1> QED
  BY <1>2, <1>3

LEMMA FlattenParts ==
  ASSUME NEW S, NEW n \in Nat \ {0}, NEW ss, \A i \in 1..n : ss[i] \in Seq(S), Len(ss) = n,
         NEW f, f[1] = ss[1], \A m \in 1..n-1 : f[m + 1] = f[m] \o ss[m + 1]
  PROVE  f[n] \in Seq(S) /\ \E at : Laid(at, ss, f[n])
<1>0. \A i \in 1..n : ss[i] \in Seq(S) /\ Len(ss[i]) \in Nat
  OBVIOUS
<1>3. \A m \in 1..n : f[m] \in Seq(S)
  <2> DEFINE T == {m \in 0..n-1 : f[m + 1] \in Seq(S)}
  <2>1. 0 \in T
    BY <1>0
  <2>2. \A m \in 0..n-2 : m \in T => m + 1 \in T
    <3> SUFFICES ASSUME NEW m \in 0..n-2, f[m + 1] \in Seq(S)
                 PROVE  f[m + 2] \in Seq(S)
      OBVIOUS
    <3>1. m + 1 \in 1..n-1 /\ m + 2 \in 1..n /\ (m + 1) + 1 = m + 2
      OBVIOUS
    <3>2. f[(m + 1) + 1] = f[m + 1] \o ss[(m + 1) + 1]
      BY <3>1
    <3>3. f[m + 2] = f[m + 1] \o ss[m + 2]
      BY <3>1, <3>2
    <3>4. ss[m + 2] \in Seq(S)
      BY <3>1
    <3> QED
      BY <3>3, <3>4
  <2>3. T = 0..n-1
    <3>1. T \in SUBSET (0..n-1) /\ n - 1 \in Nat
      BY <1>0
    <3> HIDE DEF T
    <3> QED
      BY <2>1, <2>2, <3>1, Induct
  <2>4. ASSUME NEW m \in 1..n PROVE f[m] \in Seq(S)
    <3>1. m - 1 \in 0..n-1 /\ (m - 1) + 1 = m
      OBVIOUS
    <3>2. m - 1 \in T
      <4> HIDE DEF T
      <4> QED
        BY <2>3, <3>1
    <3> QED
      BY <3>1, <3>2
  <2> QED
    BY <2>4
<1>4. \A m \in 1..n : Len(f[m]) \in Nat
  BY <1>3
<1>5. \A m \in 1..n-1 :
        /\ Len(f[m + 1]) = Len(f[m]) + Len(ss[m + 1])
        /\ \A k \in 1..Len(f[m]) : f[m + 1][k] = f[m][k]
        /\ \A k \in 1..Len(ss[m + 1]) : f[m + 1][Len(f[m]) + k] = ss[m + 1][k]
  <2> SUFFICES ASSUME NEW m \in 1..n-1
               PROVE  /\ Len(f[m + 1]) = Len(f[m]) + Len(ss[m + 1])
                      /\ \A k \in 1..Len(f[m]) : f[m + 1][k] = f[m][k]
                      /\ \A k \in 1..Len(ss[m + 1]) : f[m + 1][Len(f[m]) + k] = ss[m + 1][k]
    OBVIOUS
  <2>1. m \in 1..n /\ m + 1 \in 1..n
    OBVIOUS
  <2>2. f[m] \in Seq(S)
    BY <1>3, <2>1
  <2>3. ss[m + 1] \in Seq(S)
    BY <2>1
  <2>4. f[m + 1] = f[m] \o ss[m + 1]
    OBVIOUS
  <2>5. ASSUME NEW s \in Seq(S), NEW t \in Seq(S)
        PROVE  /\ Len(s \o t) = Len(s) + Len(t)
               /\ \A k \in 1..Len(s) : (s \o t)[k] = s[k]
               /\ \A k \in 1..Len(t) : (s \o t)[Len(s) + k] = t[k]
    OBVIOUS
  <2>6. /\ Len(f[m] \o ss[m + 1]) = Len(f[m]) + Len(ss[m + 1])
        /\ \A k \in 1..Len(f[m]) : (f[m] \o ss[m + 1])[k] = f[m][k]
        /\ \A k \in 1..Len(ss[m + 1]) : (f[m] \o ss[m + 1])[Len(f[m]) + k] = ss[m + 1][k]
    BY <2>2, <2>3, <2>5, Zenon
  <2> QED
    BY <2>4, <2>6, Zenon
<1> DEFINE at == [i \in 1..n+1 |-> IF i = 1 THEN 0 ELSE Len(f[i - 1])]
<1>6. at \in [1..n+1 -> Nat] /\ at[1] = 0
  <2> SUFFICES ASSUME NEW i \in 1..n+1 PROVE (IF i = 1 THEN 0 ELSE Len(f[i - 1])) \in Nat
    OBVIOUS
  <2>1. CASE i > 1
    <3>1. i - 1 \in 1..n
      BY <2>1
    <3> QED
      BY <1>4, <3>1
  <2> QED
    BY <2>1
<1>7. \A m \in 1..n : at[m + 1] = Len(f[m])
  <2> SUFFICES ASSUME NEW m \in 1..n PROVE at[m + 1] = Len(f[m])
    OBVIOUS
  <2>1. m + 1 \in 1..n+1 /\ m + 1 # 1 /\ (m + 1) - 1 = m
    OBVIOUS
  <2> QED
    BY <2>1
<1> HIDE DEF at
<1>8. \A i \in 1..n : at[i + 1] = at[i] + Len(ss[i])
  <2> SUFFICES ASSUME NEW i \in 1..n PROVE at[i + 1] = at[i] + Len(ss[i])
    OBVIOUS
  <2>1. CASE i = 1
    BY <1>0, <1>6, <1>7, <2>1
  <2>2. CASE i > 1
    <3>1. i - 1 \in 1..n-1 /\ i - 1 \in 1..n /\ (i - 1) + 1 = i
      BY <2>2
    <3>2. Len(f[(i - 1) + 1]) = Len(f[i - 1]) + Len(ss[(i - 1) + 1])
      BY <1>5, <3>1
    <3>3. at[(i - 1) + 1] = Len(f[i - 1])
      BY <1>7, <3>1
    <3> QED
      BY <1>7, <3>1, <3>2, <3>3
  <2> QED
    BY <2>1, <2>2
<1> DEFINE Good(m) == \A i \in 1..m :
             /\ at[i + 1] <= Len(f[m])
             /\ \A k \in 1..Len(ss[i]) : f[m][at[i] + k] = ss[i][k]
<1>9. Good(n)
  <2> DEFINE T == {m \in 0..n-1 : Good(m + 1)}
  <2>1. Good(1)
    BY <1>0, <1>6, <1>7
  <2>2. ASSUME NEW m \in 1..n-1, Good(m) PROVE Good(m + 1)
    <3> SUFFICES ASSUME NEW i \in 1..m+1
                 PROVE  /\ at[i + 1] <= Len(f[m + 1])
                        /\ \A k \in 1..Len(ss[i]) : f[m + 1][at[i] + k] = ss[i][k]
      OBVIOUS
    <3>0. m \in 1..n /\ m + 1 \in 1..n /\ i \in 1..n
      OBVIOUS
    <3>1. /\ Len(f[m]) \in Nat /\ Len(f[m + 1]) \in Nat
          /\ Len(ss[i]) \in Nat /\ Len(ss[m + 1]) \in Nat
      BY <1>0, <1>4, <3>0
    <3>2. Len(f[m + 1]) = Len(f[m]) + Len(ss[m + 1])
      BY <1>5
    <3>3. at[i] \in Nat /\ at[i + 1] = at[i] + Len(ss[i])
      BY <1>6, <1>8, <3>0
    <3>4. CASE i = m + 1
      <4>1. at[i] = Len(f[m])
        BY <1>7, <3>0, <3>4
      <4>2. \A k \in 1..Len(ss[m + 1]) : f[m + 1][Len(f[m]) + k] = ss[m + 1][k]
        BY <1>5
      <4> QED
        BY <3>1, <3>2, <3>3, <3>4, <4>1, <4>2
    <3>5. CASE i <= m
      <4>1. i \in 1..m
        BY <3>5
      <4>2. at[i + 1] <= Len(f[m])
        BY <2>2, <4>1
      <4>3. \A k \in 1..Len(ss[i]) : f[m][at[i] + k] = ss[i][k]
        BY <2>2, <4>1
      <4>4. \A k \in 1..Len(f[m]) : f[m + 1][k] = f[m][k]
        BY <1>5
      <4>5. PICK a \in Nat, l \in Nat, e \in Nat, w \in Nat :
               a = at[i] /\ l = Len(ss[i]) /\ e = Len(f[m]) /\ w = Len(ss[m + 1])
        BY <3>1, <3>3
      <4> HIDE <2>2
      <4>6. a + l <= e
        BY <3>3, <4>2, <4>5
      <4>7. at[i + 1] <= Len(f[m + 1])
        <5>1. Len(f[m + 1]) = e + w
          BY <3>2, <4>5
        <5>2. at[i + 1] = a + l
          BY <3>3, <4>5
        <5>3. a + l <= e + w
          BY <4>6
        <5> QED
          BY <5>1, <5>2, <5>3
      <4>8. ASSUME NEW k \in 1..l PROVE f[m + 1][a + k] = ss[i][k]
        <5>1. a + k \in 1..e
          BY <4>6
        <5>2. f[m + 1][a + k] = f[m][a + k]
          BY <4>4, <4>5, <5>1
        <5> QED
          BY <4>3, <4>5, <5>2
      <4> QED
        BY <4>5, <4>7, <4>8
    <3> QED
      BY <3>4, <3>5
  <2> HIDE DEF Good
  <2>3. 0 \in T
    BY <1>0, <2>1
  <2>4. \A m \in 0..n-2 : m \in T => m + 1 \in T
    <3> SUFFICES ASSUME NEW m \in 0..n-2, Good(m + 1)
                 PROVE  Good(m + 2)
      OBVIOUS
    <3>1. m + 1 \in 1..n-1 /\ (m + 1) + 1 = m + 2
      BY <1>0
    <3> QED
      BY <2>2, <3>1
  <2>5. T = 0..n-1
    <3>1. T \in SUBSET (0..n-1) /\ n - 1 \in Nat
      BY <1>0
    <3> HIDE DEF T
    <3> QED
      BY <2>3, <2>4, <3>1, Induct
  <2>6. n - 1 \in T /\ (n - 1) + 1 = n
    <3> HIDE DEF T
    <3> QED
      BY <2>5
  <2> QED
    BY <2>6
<1>10. Laid(at, ss, f[n])
  BY <1>0, <1>6, <1>7, <1>8, <1>9 DEF Laid
<1> QED
  BY <1>3, <1>10

LEMMA Flattened ==
  ASSUME NEW S, NEW ss \in Seq(Seq(S))
  PROVE  FlattenSeq(ss) \in Seq(S) /\ \E at : Laid(at, ss, FlattenSeq(ss))
<1>0. Len(ss) \in Nat /\ \A i \in 1..Len(ss) : ss[i] \in Seq(S)
  OBVIOUS
<1>1. CASE Len(ss) = 0
  <2>1. FlattenSeq(ss) = ss /\ ss = <<>>
    BY <1>1 DEF FlattenSeq
  <2>2. Laid([i \in 1..1 |-> 0], ss, FlattenSeq(ss))
    BY <1>1, <2>1 DEF Laid
  <2> QED
    BY <2>1, <2>2
<1>2. CASE Len(ss) # 0
  <2>1. \E f : Grown(f, ss, Len(ss)) /\ FlattenSeq(ss) = f[Len(ss)]
    BY <1>0, <1>2, FlattenIs, Zenon
  <2>2. PICK n \in Nat \ {0} : n = Len(ss)
    BY <1>0, <1>2
  <2>3. PICK f : Grown(f, ss, n) /\ FlattenSeq(ss) = f[n]
    BY <2>1, <2>2, Zenon
  <2>4. f[1] = ss[1] /\ \A m \in 1..n-1 : f[m + 1] = f[m] \o ss[m + 1]
    BY <2>3, FlattenSteps, Zenon
  <2>5. \A i \in 1..n : ss[i] \in Seq(S)
    BY <1>0, <2>2
  <2>6. f[n] \in Seq(S) /\ \E at : Laid(at, ss, f[n])
    BY <2>2, <2>4, <2>5, FlattenParts
  <2> QED
    BY <2>3, <2>6
<1> QED
  BY <1>0, <1>1, <1>2

-----------------------------------------------------------------------------
(***************************************************************************)
(* The inductive invariant.  What the connection is in the middle of       *)
(* decides where the bytes in recv_mbuf are in what the client sends.      *)
(***************************************************************************)

\* All that the client sends.
Sent(r) == HttpHead(r) \o Body(r)

\* After how many bytes of a part its data begins.
Lead(p) == IF p.typed THEN 14 ELSE 11

\* After how many bytes of a request each of its parts begins, and after the
\* last of them the line that ends it.
PartsLaid(at, r) ==
  LET sent == Sent(r)
      n == Len(r.parts)
  IN  /\ at \in [1..n + 1 -> Nat]
      /\ at[1] = r.head
      /\ at[n + 1] + 8 = Len(sent)
      /\ \A i \in 1..n + 1 :
           /\ sent[at[i] + 1] = "-" /\ sent[at[i] + 2] = "-"
           /\ sent[at[i] + 3] = "b1" /\ sent[at[i] + 4] = "b2"
      /\ \A i \in 1..n :
           LET p == r.parts[i]
           IN  /\ at[i + 1] = at[i] + Lead(p) + 2 + Len(p.data)
               /\ at[i + 1] + 8 <= Len(sent)
               /\ sent[at[i] + 5] = "\r" /\ sent[at[i] + 6] = "\n"
               /\ sent[at[i] + 7] = p.name
               /\ sent[at[i] + 8] = "\r" /\ sent[at[i] + 9] = "\n"
               /\ p.typed => /\ sent[at[i] + 10] = "type"
                             /\ sent[at[i] + 11] = "\r" /\ sent[at[i] + 12] = "\n"
               /\ sent[at[i] + Lead(p) - 1] = "\r" /\ sent[at[i] + Lead(p)] = "\n"
               /\ \A k \in 1..Len(p.data) : sent[at[i] + Lead(p) + k] = p.data[k]
               /\ sent[at[i + 1] - 1] = "\r" /\ sent[at[i + 1]] = "\n"
      /\ sent[at[n + 1] + 5] = "-" /\ sent[at[n + 1] + 6] = "-"
      /\ sent[at[n + 1] + 7] = "\r" /\ sent[at[n + 1] + 8] = "\n"

Starts(r) == CHOOSE at : PartsLaid(at, r)

\* recv_mbuf holds what was received but for the first b bytes.
HeldFrom(b) == b \in 0..pos /\ recv_mbuf = SubSeq(Stream, b + 1, pos)

\* The request is waited for.  Nobody has closed the connection while its client
\* is there, but for one whose head is too long.
Gathers ==
  /\ mp = Boundless /\ seen = NothingSeen /\ form = NoForm /\ ~astray
  /\ send_mbuf = 0 /\ answers = 0 /\ rcvd = pos
  /\ recv_mbuf = SubSeq(Stream, 1, pos)
  /\ pc \in {"poll", "parse"}
  /\ pc = "parse" => flags = {}
  /\ peer = "open" => "SEND_AND_CLOSE" \notin flags
  /\ peer = "open" /\ "CLOSE_IMMEDIATELY" \in flags => pos < request.head

\* The request was handled whole.
Handled ==
  /\ ~mp.boundary
  /\ recv_mbuf = <<>> /\ pos = Len(Stream)
  /\ pc = "poll"

Refused == IF request.allowed THEN 0 ELSE 1

Parts == Len(request.parts)

\* The handler was told of the part, and has got this much of it, but for a part
\* that was begun too early.
Told == seen.got = SubSeq(request.parts[seen.part].data, 1, Len(seen.got))
ToldWhole ==
  seen.phase = "part" /\ ~astray => seen.part > 0 /\ seen.got = request.parts[seen.part].data

\* The boundary before the next part is yet to be passed: that of the first comes
\* with its dashes.
AtBoundary ==
  /\ seen.phase \in {"between", "part"} /\ ToldWhole
  /\ HeldFrom(IF seen.part = 0 THEN Starts(request)[1] ELSE Starts(request)[Begun] + 2)

\* Where an upload is.
Place ==
  \/ mp.state = "WAITING_FOR_BOUNDARY" /\ AtBoundary
  \/ /\ mp.state = "GOT_BOUNDARY" /\ AtBoundary
     /\ Begun <= Parts
     /\ Starts(request)[Begun] + 8 <= pos
  \/ /\ mp.state = "WAITING_FOR_CHUNK" /\ astray
     /\ seen.phase = "part"
     /\ \E b \in {Starts(request)[seen.part], Starts(request)[seen.part] + 2} : HeldFrom(b)
     /\ Starts(request)[seen.part] + 8 <= pos
  \/ /\ mp.state = "WAITING_FOR_CHUNK" /\ ~astray
     /\ seen.phase = "part" /\ seen.part > 0
     /\ Len(seen.got) \in 0..Len(request.parts[seen.part].data) /\ Told
     /\ HeldFrom(Starts(request)[seen.part] + Lead(request.parts[seen.part]) + Len(seen.got))
  \/ /\ mp.state = "FINALIZE" /\ ~astray
     /\ seen.phase \in {"between", "part"} /\ ToldWhole
     /\ seen.part = Parts /\ pos = Len(Stream) /\ recv_mbuf = <<>>

\* The parts of an upload are passed on.
InParts ==
  /\ request.kind = "upload" /\ form = NoForm
  /\ pc \in {"poll", "multipart"}
  /\ rcvd = pos
  /\ send_mbuf + answers = Refused
  /\ mp = [state |-> mp.state, boundary |-> TRUE, processing_part |-> seen.part]
  /\ seen = [phase |-> seen.phase, part |-> seen.part, name |-> seen.name, got |-> seen.got]
  /\ seen.part \in 0..Parts /\ (astray => seen.part > 0)
  /\ Place

\* The connection is gone in the middle of an upload.
Lost ==
  /\ request.kind = "upload" /\ form = NoForm
  /\ pc = "lost" /\ seen.phase = "lost"
  /\ seen = [phase |-> seen.phase, part |-> seen.part, name |-> seen.name, got |-> seen.got]
  /\ send_mbuf + answers = Refused

IInv ==
  /\ TypeOK /\ AnsweredOnce /\ FormIsWhole /\ FieldsAreRead
  /\ Gathers \/ Handled \/ InParts \/ Lost \/ pc \in {"closed", "restarted"}

-----------------------------------------------------------------------------
\* The bytes of a request.

Bytes == STRING \cup {"-", "\r", "\n", "b1", "b2", "head", "end", "&", "=", "ssid", "pwd",
                      "%", "2", "6", "B", "5", "3", "D", "+", "type"}

\* A part of a sequence.
LEMMA Window ==
  ASSUME NEW S, NEW s \in Seq(S), NEW b \in Nat, NEW e \in Nat, b <= e, e <= Len(s)
  PROVE  /\ SubSeq(s, b + 1, e) \in Seq(S)
         /\ Len(SubSeq(s, b + 1, e)) = e - b
         /\ \A i \in 1..e - b : SubSeq(s, b + 1, e)[i] = s[b + i]
<1>1. /\ SubSeq(s, b + 1, e) \in Seq(S)
      /\ Len(SubSeq(s, b + 1, e)) = e - b
  BY SubSeqProperties
<1>2. ASSUME NEW i \in 1..e - b PROVE SubSeq(s, b + 1, e)[i] = s[b + i]
  <2>1. SubSeq(s, b + 1, e)[i] = s[b + 1 + i - 1]
    BY SubSeqProperties
  <2>2. b + 1 + i - 1 = b + i
    OBVIOUS
  <2> QED
    BY <2>1, <2>2
<1> QED
  BY <1>1, <1>2

\* A part of a part of it,
LEMMA WindowIn ==
  ASSUME NEW S, NEW s \in Seq(S), NEW b \in Nat, NEW e \in Nat, b <= e, e <= Len(s),
         NEW m \in 0..e - b, NEW n \in m..e - b
  PROVE  SubSeq(SubSeq(s, b + 1, e), m + 1, n) = SubSeq(s, b + m + 1, b + n)
<1> DEFINE w == SubSeq(s, b + 1, e)
<1>1. w \in Seq(S) /\ Len(w) = e - b /\ \A i \in 1..e - b : w[i] = s[b + i]
  BY Window
<1> HIDE DEF w
<1>2. /\ SubSeq(w, m + 1, n) \in Seq(S) /\ Len(SubSeq(w, m + 1, n)) = n - m
      /\ \A i \in 1..n - m : SubSeq(w, m + 1, n)[i] = w[m + i]
  BY <1>1, Window
<1>3. b + m \in Nat /\ b + n \in Nat /\ b + m <= b + n /\ b + n <= Len(s) /\ (b + n) - (b + m) = n - m
  OBVIOUS
<1>4. /\ SubSeq(s, (b + m) + 1, b + n) \in Seq(S)
      /\ Len(SubSeq(s, (b + m) + 1, b + n)) = n - m
      /\ \A i \in 1..n - m : SubSeq(s, (b + m) + 1, b + n)[i] = s[(b + m) + i]
  <2>1. /\ SubSeq(s, (b + m) + 1, b + n) \in Seq(S)
        /\ Len(SubSeq(s, (b + m) + 1, b + n)) = (b + n) - (b + m)
        /\ \A i \in 1..(b + n) - (b + m) : SubSeq(s, (b + m) + 1, b + n)[i] = s[(b + m) + i]
    BY <1>3, Window
  <2> QED
    BY <1>3, <2>1
<1>5. \A i \in 1..n - m : SubSeq(w, m + 1, n)[i] = SubSeq(s, (b + m) + 1, b + n)[i]
  <2> SUFFICES ASSUME NEW i \in 1..n - m
               PROVE  SubSeq(w, m + 1, n)[i] = SubSeq(s, (b + m) + 1, b + n)[i]
    OBVIOUS
  <2>1. SubSeq(w, m + 1, n)[i] = w[m + i]
    BY <1>2
  <2>2. m + i \in 1..e - b /\ b + (m + i) = (b + m) + i
    OBVIOUS
  <2>3. w[m + i] = s[b + (m + i)]
    BY <1>1, <2>2
  <2>4. SubSeq(s, (b + m) + 1, b + n)[i] = s[(b + m) + i]
    BY <1>4
  <2> QED
    BY <2>1, <2>2, <2>3, <2>4
<1>6. SubSeq(w, m + 1, n) = SubSeq(s, (b + m) + 1, b + n)
  BY <1>2, <1>4, <1>5, SeqEqual
<1> QED
  BY <1>6 DEF w

\* and two that follow one another.
LEMMA WindowMore ==
  ASSUME NEW S, NEW s \in Seq(S), NEW b \in Nat, NEW e \in Nat, NEW n \in Nat,
         b <= e, e + n <= Len(s)
  PROVE  SubSeq(s, b + 1, e) \o SubSeq(s, e + 1, e + n) = SubSeq(s, b + 1, e + n)
BY ConcatAdjacentSubSeq

\* q is s and then t.
Joins(q, s, t, m) ==
  /\ q \in Seq(Bytes) /\ Len(q) = m + Len(t)
  /\ \A i \in 1..m : q[i] = s[i]
  /\ \A k \in 1..Len(t) : q[m + k] = t[k]

LEMMA Joined ==
  ASSUME NEW s \in Seq(Bytes), NEW t \in Seq(Bytes), NEW m, Len(s) = m
  PROVE  Joins(s \o t, s, t, m)
<1>1. /\ s \o t \in Seq(Bytes) /\ Len(s \o t) = Len(s) + Len(t)
      /\ \A i \in 1..Len(s) : (s \o t)[i] = s[i]
      /\ \A k \in 1..Len(t) : (s \o t)[Len(s) + k] = t[k]
  OBVIOUS
<1> QED
  BY <1>1, Zenon DEF Joins

LEMMA Two ==
  ASSUME NEW S, NEW a \in S, NEW b \in S
  PROVE  <<a, b>> \in Seq(S) /\ Len(<<a, b>>) = 2 /\ <<a, b>>[1] = a /\ <<a, b>>[2] = b
OBVIOUS

LEMMA Pairs ==
  /\ Dashes \in Seq(Bytes) /\ Len(Dashes) = 2 /\ Dashes[1] = "-" /\ Dashes[2] = "-"
  /\ Boundary \in Seq(Bytes) /\ Len(Boundary) = 2 /\ Boundary[1] = "b1" /\ Boundary[2] = "b2"
  /\ CRLF \in Seq(Bytes) /\ Len(CRLF) = 2 /\ CRLF[1] = "\r" /\ CRLF[2] = "\n"
<1>1. Dashes \in Seq(Bytes) /\ Len(Dashes) = 2 /\ Dashes[1] = "-" /\ Dashes[2] = "-"
  BY Two DEF Dashes, Bytes
<1>2. Boundary \in Seq(Bytes) /\ Len(Boundary) = 2 /\ Boundary[1] = "b1" /\ Boundary[2] = "b2"
  BY Two DEF Boundary, Bytes
<1>3. CRLF \in Seq(Bytes) /\ Len(CRLF) = 2 /\ CRLF[1] = "\r" /\ CRLF[2] = "\n"
  BY Two DEF CRLF, Bytes
<1> QED
  BY <1>1, <1>2, <1>3

\* q is f, of length m, and the line after the last part.
Ended(q, f, m) ==
  /\ q \in Seq(Bytes) /\ Len(q) = m + 8
  /\ \A i \in 1..m : q[i] = f[i]
  /\ q[m + 1] = "-" /\ q[m + 2] = "-" /\ q[m + 3] = "b1" /\ q[m + 4] = "b2"
  /\ q[m + 5] = "-" /\ q[m + 6] = "-" /\ q[m + 7] = "\r" /\ q[m + 8] = "\n"

LEMMA EndIs ==
  ASSUME NEW f \in Seq(Bytes), NEW m \in Nat, Len(f) = m,
         NEW q, q = f \o Dashes \o Boundary \o Dashes \o CRLF
  PROVE  Ended(q, f, m)
<1> DEFINE q2 == f \o Dashes
           q4 == q2 \o Boundary
           q6 == q4 \o Dashes
           q8 == q6 \o CRLF
<1>0. q = q8
  OBVIOUS
<1>1. Joins(q2, f, Dashes, m)
  BY Pairs, Joined, Zenon
<1> HIDE DEF q2
<1>2. PICK m2 \in Nat : m2 = m + 2
  OBVIOUS
<1>3. /\ q2 \in Seq(Bytes) /\ Len(q2) = m2 /\ q2[m + 1] = "-" /\ q2[m + 2] = "-"
      /\ \A i \in 1..m : q2[i] = f[i]
  BY <1>1, <1>2, Pairs DEF Joins
<1>4. Joins(q4, q2, Boundary, m2)
  BY <1>3, Pairs, Joined, Zenon
<1> HIDE DEF q4
<1>5. PICK m4 \in Nat : m4 = m + 4
  OBVIOUS
<1>6. /\ q4 \in Seq(Bytes) /\ Len(q4) = m4 /\ q4[m2 + 1] = "b1" /\ q4[m2 + 2] = "b2"
      /\ \A i \in 1..m2 : q4[i] = q2[i]
  BY <1>2, <1>4, <1>5, Pairs DEF Joins
<1>7. Joins(q6, q4, Dashes, m4)
  BY <1>6, Pairs, Joined, Zenon
<1> HIDE DEF q6
<1>8. PICK m6 \in Nat : m6 = m + 6
  OBVIOUS
<1>9. /\ q6 \in Seq(Bytes) /\ Len(q6) = m6 /\ q6[m4 + 1] = "-" /\ q6[m4 + 2] = "-"
      /\ \A i \in 1..m4 : q6[i] = q4[i]
  BY <1>5, <1>7, <1>8, Pairs DEF Joins
<1>10. Joins(q8, q6, CRLF, m6)
  BY <1>9, Pairs, Joined, Zenon
<1> HIDE DEF q8
<1>11. /\ q8 \in Seq(Bytes) /\ Len(q8) = m6 + 2 /\ q8[m6 + 1] = "\r" /\ q8[m6 + 2] = "\n"
       /\ \A i \in 1..m6 : q8[i] = q6[i]
  BY <1>10, Pairs DEF Joins
<1>12. ASSUME NEW i \in 1..m2 PROVE q8[i] = q2[i]
  <2>1. i \in 1..m4 /\ i \in 1..m6
    BY <1>2, <1>5, <1>8
  <2> QED
    BY <1>6, <1>9, <1>11, <2>1
<1>13. q8[m + 5] = "-" /\ q8[m + 6] = "-"
  <2>1. m + 5 = m4 + 1 /\ m + 6 = m4 + 2 /\ m + 5 \in 1..m6 /\ m + 6 \in 1..m6
    BY <1>5, <1>8
  <2> QED
    BY <1>9, <1>11, <2>1
<1>14. q8[m + 3] = "b1" /\ q8[m + 4] = "b2"
  <2>1. /\ m + 3 = m2 + 1 /\ m + 4 = m2 + 2 /\ m + 3 \in 1..m6 /\ m + 4 \in 1..m6
        /\ m + 3 \in 1..m4 /\ m + 4 \in 1..m4
    BY <1>2, <1>5, <1>8
  <2> QED
    BY <1>6, <1>9, <1>11, <2>1
<1>15. q8[m + 1] = "-" /\ q8[m + 2] = "-"
  <2>1. m + 1 \in 1..m2 /\ m + 2 \in 1..m2
    BY <1>2
  <2> QED
    BY <1>3, <1>12, <2>1
<1>16. \A i \in 1..m : q8[i] = f[i]
  BY <1>2, <1>3, <1>12
<1>17. Len(q8) = m + 8 /\ q8[m + 7] = "\r" /\ q8[m + 8] = "\n"
  <2>1. m6 + 1 = m + 7 /\ m6 + 2 = m + 8
    BY <1>8
  <2> QED
    BY <1>11, <2>1
<1> QED
  BY <1>0, <1>11, <1>13, <1>14, <1>15, <1>16, <1>17 DEF Ended

\* What a part begins with, and what follows its boundary.
LEMMA LeadIs ==
  ASSUME NEW p \in PartRecords
  PROVE  /\ p.typed \in BOOLEAN /\ p.typed => Lead(p) = 14
         /\ ~p.typed => Lead(p) = 11
         /\ Lead(p) \in {11, 14}
BY DEF PartRecords, Lead

IsHead(q, p) ==
  /\ q \in Seq(Bytes) /\ Len(q) = Lead(p) - 8
  /\ q[1] = p.name /\ q[2] = "\r" /\ q[3] = "\n"
  /\ p.typed => q[4] = "type" /\ q[5] = "\r" /\ q[6] = "\n"

LEMMA PartHeadIs ==
  ASSUME NEW p \in PartRecords
  PROVE  IsHead(PartHead(p), p)
<1>1. p.name \in Bytes /\ "type" \in Bytes
  <2>1. p.name \in STRING
    BY DEF PartRecords
  <2>2. STRING \subseteq Bytes /\ "type" \in Bytes
    BY Zenon DEF Bytes
  <2> QED
    BY <2>1, <2>2
<1> DEFINE n == <<p.name>> \o CRLF
           t == <<"type">> \o CRLF
<1>2. /\ <<p.name>> \in Seq(Bytes) /\ Len(<<p.name>>) = 1 /\ <<p.name>>[1] = p.name
      /\ <<"type">> \in Seq(Bytes) /\ Len(<<"type">>) = 1 /\ <<"type">>[1] = "type"
  BY <1>1
<1>3. Joins(n, <<p.name>>, CRLF, 1) /\ Joins(t, <<"type">>, CRLF, 1)
  BY <1>2, Pairs, Joined, Zenon
<1> HIDE DEF n, t
<1>4. /\ n \in Seq(Bytes) /\ Len(n) = 3 /\ n[1] = p.name /\ n[2] = "\r" /\ n[3] = "\n"
      /\ t \in Seq(Bytes) /\ Len(t) = 3 /\ t[1] = "type" /\ t[2] = "\r" /\ t[3] = "\n"
  BY <1>2, <1>3, Pairs DEF Joins
<1>5. PartHead(p) = n \o (IF p.typed THEN t ELSE <<>>)
  BY DEF PartHead, n, t
<1>6. CASE p.typed
  <2>1. PartHead(p) = n \o t
    BY <1>5, <1>6
  <2>2. Joins(n \o t, n, t, 3)
    BY <1>4, Joined, Zenon
  <2> DEFINE q == n \o t
  <2> HIDE DEF q
  <2>3. /\ q \in Seq(Bytes) /\ Len(q) = 6
        /\ q[1] = p.name /\ q[2] = "\r" /\ q[3] = "\n"
        /\ q[4] = "type" /\ q[5] = "\r" /\ q[6] = "\n"
    BY <1>4, <2>2 DEF Joins, q
  <2>4. Lead(p) = 14
    BY <1>6 DEF Lead
  <2> QED
    BY <2>1, <2>3, <2>4 DEF q, IsHead
<1>7. CASE ~p.typed
  <2>1. PartHead(p) = n
    BY <1>4, <1>5, <1>7
  <2>2. Lead(p) = 11
    BY <1>7 DEF Lead
  <2> QED
    BY <1>4, <1>7, <2>1, <2>2 DEF IsHead
<1> QED
  BY <1>6, <1>7

\* q is the part p.
IsPart(q, p) ==
  /\ q \in Seq(Bytes)
  /\ Len(p.data) \in Nat /\ Len(q) = Lead(p) + 2 + Len(p.data)
  /\ q[1] = "-" /\ q[2] = "-" /\ q[3] = "b1" /\ q[4] = "b2"
  /\ q[5] = "\r" /\ q[6] = "\n" /\ q[7] = p.name
  /\ q[8] = "\r" /\ q[9] = "\n"
  /\ p.typed => q[10] = "type" /\ q[11] = "\r" /\ q[12] = "\n"
  /\ q[Lead(p) - 1] = "\r" /\ q[Lead(p)] = "\n"
  /\ \A k \in 1..Len(p.data) : q[Lead(p) + k] = p.data[k]
  /\ q[Lead(p) + 1 + Len(p.data)] = "\r" /\ q[Lead(p) + 2 + Len(p.data)] = "\n"

LEMMA PartIs ==
  ASSUME NEW p \in PartRecords
  PROVE  IsPart(Part(p), p)
<1> DEFINE q == Part(p)
           head == PartHead(p)
<1>1. p.data \in Seq(Bytes) /\ Len(p.data) \in Nat
  <2>1. p.data \in Seq(STRING)
    BY DEF PartRecords
  <2> QED
    BY <2>1, SeqMonotonic DEF Bytes
<1>2. PICK g \in {11, 14} : g = Lead(p)
  BY LeadIs
<1>3. p.typed => g = 14
  BY <1>2, LeadIs
<1> DEFINE q4 == Dashes \o Boundary
           q6 == q4 \o CRLF
           qh == q6 \o head
           qg == qh \o CRLF
           qd == qg \o p.data
<1>5. /\ head \in Seq(Bytes) /\ Len(head) = g - 8
      /\ head[1] = p.name /\ head[2] = "\r" /\ head[3] = "\n"
      /\ p.typed => head[4] = "type" /\ head[5] = "\r" /\ head[6] = "\n"
  BY <1>2, PartHeadIs DEF IsHead
<1>6. q = qd \o CRLF
  BY DEF Part
<1> HIDE DEF head
<1>7. Joins(q4, Dashes, Boundary, 2)
  BY Pairs, Joined, Zenon
<1> HIDE DEF q4
<1>7a. /\ q4 \in Seq(Bytes) /\ Len(q4) = 4
       /\ q4[1] = "-" /\ q4[2] = "-" /\ q4[3] = "b1" /\ q4[4] = "b2"
  BY <1>7, Pairs DEF Joins
<1>8. Joins(q6, q4, CRLF, 4)
  BY <1>7a, Pairs, Joined, Zenon
<1> HIDE DEF q6
<1>8a. /\ q6 \in Seq(Bytes) /\ Len(q6) = 6 /\ q6[5] = "\r" /\ q6[6] = "\n"
       /\ \A i \in 1..4 : q6[i] = q4[i]
  BY <1>8, Pairs DEF Joins
<1>9. Joins(qh, q6, head, 6)
  BY <1>5, <1>8a, Joined, Zenon
<1> HIDE DEF qh
<1>9a. /\ qh \in Seq(Bytes) /\ Len(qh) = g - 2
       /\ \A i \in 1..6 : qh[i] = q6[i]
       /\ qh[7] = p.name /\ qh[8] = "\r" /\ qh[9] = "\n"
       /\ p.typed => qh[10] = "type" /\ qh[11] = "\r" /\ qh[12] = "\n"
  <2>1. \A k \in 1..g - 8 : qh[6 + k] = head[k]
    BY <1>5, <1>9 DEF Joins
  <2>2. qh[7] = p.name /\ qh[8] = "\r" /\ qh[9] = "\n"
    <3>1. qh[6 + 1] = head[1] /\ qh[6 + 2] = head[2] /\ qh[6 + 3] = head[3]
      BY <2>1
    <3> QED
      BY <1>5, <3>1
  <2>3. ASSUME p.typed PROVE qh[10] = "type" /\ qh[11] = "\r" /\ qh[12] = "\n"
    <3>1. qh[6 + 4] = head[4] /\ qh[6 + 5] = head[5] /\ qh[6 + 6] = head[6]
      BY <1>3, <2>1, <2>3
    <3> QED
      BY <1>5, <2>3, <3>1
  <2> QED
    BY <1>5, <1>9, <2>2, <2>3 DEF Joins
<1>10. PICK h \in {9, 12} : h = g - 2
  OBVIOUS
<1>11. Joins(qg, qh, CRLF, h)
  BY <1>9a, <1>10, Pairs, Joined, Zenon
<1> HIDE DEF qg
<1>11a. /\ qg \in Seq(Bytes) /\ Len(qg) = g /\ qg[g - 1] = "\r" /\ qg[g] = "\n"
        /\ \A i \in 1..h : qg[i] = qh[i]
  <2>1. qg[h + 1] = CRLF[1] /\ qg[h + 2] = CRLF[2] /\ h + 1 = g - 1 /\ h + 2 = g
    BY <1>10, <1>11, Pairs DEF Joins
  <2> QED
    BY <1>10, <1>11, Pairs, <2>1 DEF Joins
<1>12. Joins(qd, qg, p.data, g)
  BY <1>1, <1>11a, Joined, Zenon
<1> HIDE DEF qd, q
<1>13. PICK m \in Nat : m = g + Len(p.data)
  BY <1>1
<1>14a. qd \in Seq(Bytes) /\ Len(qd) = m
  BY <1>12, <1>13 DEF Joins
<1>14. Joins(q, qd, CRLF, m)
  BY <1>6, <1>14a, Pairs, Joined, Zenon
<1>15. /\ Len(q) = g + 2 + Len(p.data)
       /\ q[g + 1 + Len(p.data)] = "\r" /\ q[g + 2 + Len(p.data)] = "\n"
  <2>1. q[m + 1] = CRLF[1] /\ q[m + 2] = CRLF[2]
    BY <1>14, Pairs DEF Joins
  <2>2. m + 1 = g + 1 + Len(p.data) /\ m + 2 = g + 2 + Len(p.data)
    <3>1. PICK l \in Nat : l = Len(p.data)
      BY <1>1
    <3>2. m = g + l
      BY <1>13, <3>1
    <3>3. m + 1 = g + 1 + l /\ m + 2 = g + 2 + l
      BY <3>2
    <3> QED
      BY <3>1, <3>3
  <2> QED
    BY <1>1, <1>14, Pairs, <2>1, <2>2 DEF Joins
<1>16. \A k \in 1..Len(p.data) : q[g + k] = p.data[k]
  <2> SUFFICES ASSUME NEW k \in 1..Len(p.data) PROVE q[g + k] = p.data[k]
    OBVIOUS
  <2>1. g + k \in 1..m
    BY <1>1, <1>13
  <2> QED
    BY <1>12, <1>14, <2>1 DEF Joins
<1>17. \A i \in 1..g : q[i] = qg[i]
  <2> SUFFICES ASSUME NEW i \in 1..g PROVE q[i] = qg[i]
    OBVIOUS
  <2>1. i \in 1..m
    BY <1>1, <1>13
  <2> QED
    BY <1>12, <1>14, <2>1 DEF Joins
<1>18. \A i \in 1..h : q[i] = qh[i]
  BY <1>10, <1>11a, <1>17
<1>19. /\ q[1] = "-" /\ q[2] = "-" /\ q[3] = "b1" /\ q[4] = "b2"
       /\ q[5] = "\r" /\ q[6] = "\n" /\ q[7] = p.name
       /\ q[8] = "\r" /\ q[9] = "\n"
  BY <1>7a, <1>8a, <1>9a, <1>18
<1>20. p.typed => q[10] = "type" /\ q[11] = "\r" /\ q[12] = "\n"
  BY <1>3, <1>9a, <1>10, <1>18
<1>21. q[g - 1] = "\r" /\ q[g] = "\n"
  BY <1>11a, <1>17
<1> QED
  BY <1>1, <1>2, <1>14, <1>15, <1>16, <1>19, <1>20, <1>21 DEF Joins, IsPart, q

\* The head ends with its only empty line.
LEMMA HeadIs ==
  ASSUME NEW r \in Requests
  PROVE  /\ r.head \in Nat \ {0}
         /\ HttpHead(r) \in Seq(Bytes) /\ Len(HttpHead(r)) = r.head
         /\ \A i \in 1..r.head : HttpHead(r)[i] = "end" <=> i = r.head
<1>1. r.head \in Nat \ {0}
  BY HttpAssumption
<1>2. PICK h \in Nat \ {0} : h = r.head
  BY <1>1
<1>3. HttpHead(r) = [i \in 1..h |-> IF i = h THEN "end" ELSE "head"]
  BY <1>2 DEF HttpHead
<1>4. [i \in 1..h |-> IF i = h THEN "end" ELSE "head"] \in [1..h -> Bytes]
  BY DEF Bytes
<1>5. HttpHead(r) \in Seq(Bytes) /\ Len(HttpHead(r)) = h
  BY <1>3, <1>4, IsASeq
<1>6. \A i \in 1..h : HttpHead(r)[i] = "end" <=> i = h
  BY <1>3
<1> QED
  BY <1>1, <1>2, <1>5, <1>6

LEMMA UploadIs ==
  ASSUME NEW r \in Requests, r.kind = "upload"
  PROVE  /\ r.allowed \in BOOLEAN
         /\ Len(r.parts) \in Nat /\ DOMAIN r.parts = 1..Len(r.parts)
         /\ \A i \in 1..Len(r.parts) :
              /\ r.parts[i] \in PartRecords /\ Free(r.parts[i].data)
              /\ r.parts[i].name # "\n"
              /\ r.parts[i].data \in Seq(STRING) /\ Len(r.parts[i].data) \in Nat
<1>1. /\ r.allowed \in BOOLEAN /\ r.parts \in Seq(PartRecords)
      /\ \A i \in DOMAIN r.parts : Free(r.parts[i].data)
  BY HttpAssumption
<1>2. Len(r.parts) \in Nat /\ DOMAIN r.parts = 1..Len(r.parts)
  BY <1>1
<1>3. \A i \in 1..Len(r.parts) : r.parts[i] \in PartRecords
  BY <1>1
<1>4. \A p \in PartRecords : p.name # "\n" /\ p.data \in Seq(STRING) /\ Len(p.data) \in Nat
  BY DEF PartRecords
<1> QED
  BY <1>1, <1>2, <1>3, <1>4

\* Every upload has its parts one after another.
LEMMA PartsAreLaid ==
  ASSUME NEW r \in Requests, r.kind = "upload"
  PROVE  Body(r) \in Seq(Bytes) /\ PartsLaid(Starts(r), r)
<1> DEFINE n == Len(r.parts)
           ss == [i \in DOMAIN r.parts |-> Part(r.parts[i])]
           body == MultipartBody(r.parts)
           h == r.head
           sent == Sent(r)
<1>1. n \in Nat /\ DOMAIN r.parts = 1..n /\ \A i \in 1..n : r.parts[i] \in PartRecords
  BY UploadIs
<1>2. \A i \in 1..n : IsPart(Part(r.parts[i]), r.parts[i])
  BY <1>1, PartIs, Zenon
<1>3. ss \in Seq(Seq(Bytes)) /\ Len(ss) = n /\ \A i \in 1..n : ss[i] = Part(r.parts[i])
  <2>1. ss = [i \in 1..n |-> Part(r.parts[i])]
    BY <1>1
  <2>2. [i \in 1..n |-> Part(r.parts[i])] \in [1..n -> Seq(Bytes)]
    BY <1>2 DEF IsPart
  <2>3. [i \in 1..n |-> Part(r.parts[i])] \in Seq(Seq(Bytes)) /\ Len([i \in 1..n |-> Part(r.parts[i])]) = n
    BY <1>1, <2>2, IsASeq
  <2> QED
    BY <2>1, <2>3
<1> DEFINE flat == FlattenSeq(ss)
<1>4. flat \in Seq(Bytes) /\ \E at : Laid(at, ss, flat)
  <2> HIDE DEF ss
  <2> QED
    BY <1>3, Flattened
<1>5. PICK a : Laid(a, ss, flat)
  BY <1>4
<1>6. body = flat \o Dashes \o Boundary \o Dashes \o CRLF
  BY DEF MultipartBody
<1> HIDE DEF ss, flat
<1>7. PICK m \in Nat : m = Len(flat)
  BY <1>4
<1>8a. Ended(body, flat, m)
  BY <1>4, <1>6, <1>7, EndIs, Zenon
<1> HIDE DEF body
<1>8. /\ body \in Seq(Bytes) /\ Len(body) = m + 8
      /\ \A i \in 1..m : body[i] = flat[i]
      /\ body[m + 1] = "-" /\ body[m + 2] = "-" /\ body[m + 3] = "b1" /\ body[m + 4] = "b2"
      /\ body[m + 5] = "-" /\ body[m + 6] = "-" /\ body[m + 7] = "\r" /\ body[m + 8] = "\n"
  BY <1>8a DEF Ended
<1>9. Body(r) = body
  BY DEF Body, body
<1> HIDE DEF n
<1>10. h \in Nat \ {0} /\ HttpHead(r) \in Seq(Bytes) /\ Len(HttpHead(r)) = h
  BY HeadIs
<1>11. Joins(sent, HttpHead(r), body, h)
  <2>1. sent = HttpHead(r) \o body
    BY <1>9 DEF Sent
  <2> HIDE DEF sent
  <2> QED
    BY <1>8, <1>10, <2>1, Joined, Zenon
<1> HIDE DEF sent, h
<1>13. sent \in Seq(Bytes) /\ Len(sent) = h + (m + 8) /\ \A k \in 1..m + 8 : sent[h + k] = body[k]
  BY <1>8, <1>11 DEF Joins
<1>14. /\ a \in [1..n + 1 -> Nat] /\ a[1] = 0 /\ a[n + 1] = m
       /\ \A i \in 1..n : /\ a[i + 1] = a[i] + Len(ss[i]) /\ a[i + 1] <= m
                          /\ \A k \in 1..Len(ss[i]) : flat[a[i] + k] = ss[i][k]
  BY <1>3, <1>5, <1>7 DEF Laid
<1> DEFINE at == [i \in 1..n + 1 |-> h + a[i]]
<1>15. at \in [1..n + 1 -> Nat] /\ \A i \in 1..n + 1 : at[i] = h + a[i]
  BY <1>10, <1>14
<1> HIDE DEF at
<1>16. ASSUME NEW i \in 1..n
       PROVE  /\ a[i] \in Nat /\ a[i + 1] = a[i] + Lead(r.parts[i]) + 2 + Len(r.parts[i].data)
              /\ Len(r.parts[i].data) \in Nat
              /\ \A j \in 1..Lead(r.parts[i]) + 2 + Len(r.parts[i].data) : sent[at[i] + j] = ss[i][j]
  <2>1. IsPart(ss[i], r.parts[i])
    BY <1>2, <1>3
  <2>2. Len(r.parts[i].data) \in Nat /\ Len(ss[i]) = Lead(r.parts[i]) + 2 + Len(r.parts[i].data)
    BY <2>1 DEF IsPart
  <2>3a. Lead(r.parts[i]) \in Nat
    BY <1>1, LeadIs
  <2>3. i \in 1..n + 1 /\ a[i] \in Nat
    BY <1>1, <1>14
  <2>4. a[i + 1] = a[i] + Len(ss[i]) /\ a[i + 1] <= m
    BY <1>14
  <2>5. ASSUME NEW j \in 1..Lead(r.parts[i]) + 2 + Len(r.parts[i].data) PROVE sent[at[i] + j] = ss[i][j]
    <3>1. j \in 1..Len(ss[i])
      BY <2>2
    <3>2. flat[a[i] + j] = ss[i][j]
      BY <1>14, <3>1
    <3>3. j \in Nat /\ 1 <= j /\ a[i] + j <= m
      BY <2>2, <2>3, <2>3a, <2>4, <3>1
    <3>4. a[i] + j \in 1..m /\ a[i] + j \in 1..m + 8
      BY <2>3, <3>3
    <3>5. body[a[i] + j] = flat[a[i] + j] /\ sent[h + (a[i] + j)] = body[a[i] + j]
      BY <1>8, <1>13, <3>4
    <3>6. at[i] + j = h + (a[i] + j)
      BY <1>10, <1>15, <2>3, <3>3
    <3> QED
      BY <3>2, <3>5, <3>6
  <2>6. a[i + 1] = a[i] + Lead(r.parts[i]) + 2 + Len(r.parts[i].data)
    <3>1. PICK l \in Nat : l = Len(r.parts[i].data)
      BY <2>2
    <3>2. a[i] + (Lead(r.parts[i]) + 2 + l) = a[i] + Lead(r.parts[i]) + 2 + l
      BY <2>3, <2>3a
    <3> QED
      BY <2>2, <2>4, <3>1, <3>2
  <2> QED
    BY <2>2, <2>3, <2>5, <2>6
<1>17. at[1] = h /\ at[n + 1] = h + m
  BY <1>1, <1>10, <1>14, <1>15
<1>18. ASSUME NEW i \in 1..n + 1
       PROVE  /\ sent[at[i] + 1] = "-" /\ sent[at[i] + 2] = "-"
              /\ sent[at[i] + 3] = "b1" /\ sent[at[i] + 4] = "b2"
  <2>1. CASE i = n + 1
    <3>1. \A k \in 1..4 : at[i] + k = h + (m + k) /\ m + k \in 1..m + 8
      BY <1>10, <1>17, <2>1
    <3>2. \A k \in 1..4 : sent[at[i] + k] = body[m + k]
      BY <1>13, <3>1
    <3> QED
      BY <1>8, <3>2
  <2>2. CASE i \in 1..n
    <3>1. PICK l \in Nat : l = Len(r.parts[i].data)
      BY <1>16, <2>2
    <3>2. \A j \in 1..Lead(r.parts[i]) + 2 + l : sent[at[i] + j] = ss[i][j]
      BY <1>16, <2>2, <3>1
    <3>2a. Lead(r.parts[i]) \in {11, 14}
      BY <1>1, <2>2, LeadIs
    <3>3. \A j \in 1..4 : sent[at[i] + j] = ss[i][j]
      BY <3>2, <3>2a
    <3>4. IsPart(ss[i], r.parts[i])
      BY <1>2, <1>3, <2>2
    <3>5. ss[i][1] = "-" /\ ss[i][2] = "-" /\ ss[i][3] = "b1" /\ ss[i][4] = "b2"
      BY <3>4 DEF IsPart
    <3> QED
      BY <3>3, <3>5
  <2> QED
    BY <1>1, <2>1, <2>2
<1>19. ASSUME NEW i \in 1..n
       PROVE  LET p == r.parts[i]
              IN  /\ at[i + 1] = at[i] + Lead(p) + 2 + Len(p.data)
                  /\ at[i + 1] + 8 <= Len(sent)
                  /\ sent[at[i] + 5] = "\r" /\ sent[at[i] + 6] = "\n"
                  /\ sent[at[i] + 7] = p.name
                  /\ sent[at[i] + 8] = "\r" /\ sent[at[i] + 9] = "\n"
                  /\ p.typed => /\ sent[at[i] + 10] = "type"
                                /\ sent[at[i] + 11] = "\r" /\ sent[at[i] + 12] = "\n"
                  /\ sent[at[i] + Lead(p) - 1] = "\r" /\ sent[at[i] + Lead(p)] = "\n"
                  /\ \A k \in 1..Len(p.data) : sent[at[i] + Lead(p) + k] = p.data[k]
                  /\ sent[at[i + 1] - 1] = "\r" /\ sent[at[i + 1]] = "\n"
  <2> DEFINE p == r.parts[i]
  <2>1. IsPart(ss[i], p)
    BY <1>2, <1>3
  <2>2. PICK l \in Nat : l = Len(p.data)
    BY <1>16
  <2>2a. PICK g \in {11, 14} : g = Lead(p)
    BY <1>1, LeadIs
  <2>2b. p.typed => g = 14
    BY <1>1, <2>2a, LeadIs
  <2>3. /\ a[i] \in Nat /\ a[i + 1] = a[i] + g + 2 + l
        /\ \A j \in 1..g + 2 + l : sent[at[i] + j] = ss[i][j]
    BY <1>16, <2>2, <2>2a
  <2>4. i \in 1..n + 1 /\ i + 1 \in 1..n + 1
    BY <1>1
  <2>5. at[i] \in Nat /\ at[i + 1] = at[i] + g + 2 + l
    <3>1. at[i] = h + a[i] /\ at[i + 1] = h + a[i + 1]
      BY <1>15, <2>4
    <3>2. PICK x \in Nat : x = a[i]
      BY <2>3
    <3>3. a[i + 1] = x + g + 2 + l
      BY <2>3, <3>2
    <3>4. at[i] = h + x /\ at[i + 1] = h + (x + g + 2 + l)
      BY <3>1, <3>2, <3>3
    <3>5. h \in Nat
      BY <1>10
    <3> QED
      BY <3>4, <3>5
  <2>6. at[i + 1] + 8 <= Len(sent)
    <3>1. a[i + 1] <= m /\ at[i + 1] = h + a[i + 1] /\ a[i + 1] \in Nat
      BY <1>14, <1>15, <2>4
    <3> QED
      BY <1>10, <1>13, <3>1
  <2>7. \A j \in 1..g : sent[at[i] + j] = ss[i][j]
    BY <2>3
  <2>8. \A k \in 1..l : sent[at[i] + g + k] = p.data[k]
    <3> SUFFICES ASSUME NEW k \in 1..l PROVE sent[at[i] + g + k] = p.data[k]
      OBVIOUS
    <3>1. g + k \in 1..g + 2 + l /\ at[i] + (g + k) = at[i] + g + k
      BY <2>5
    <3>2. ss[i][g + k] = p.data[k]
      BY <2>1, <2>2, <2>2a DEF IsPart
    <3> QED
      BY <2>3, <3>1, <3>2
  <2>9. sent[at[i + 1] - 1] = "\r" /\ sent[at[i + 1]] = "\n"
    <3>1. /\ g + 1 + l \in 1..g + 2 + l /\ at[i] + (g + 1 + l) = at[i + 1] - 1
          /\ g + 2 + l \in 1..g + 2 + l /\ at[i] + (g + 2 + l) = at[i + 1]
      BY <2>5
    <3>2. ss[i][g + 1 + l] = "\r" /\ ss[i][g + 2 + l] = "\n"
      BY <2>1, <2>2, <2>2a DEF IsPart
    <3>3. /\ sent[at[i] + (g + 1 + l)] = ss[i][g + 1 + l]
          /\ sent[at[i] + (g + 2 + l)] = ss[i][g + 2 + l]
      BY <2>3, <3>1
    <3> QED
      BY <3>1, <3>2, <3>3
  <2>10. /\ ss[i][5] = "\r" /\ ss[i][6] = "\n" /\ ss[i][7] = p.name
         /\ ss[i][8] = "\r" /\ ss[i][9] = "\n"
         /\ p.typed => ss[i][10] = "type" /\ ss[i][11] = "\r" /\ ss[i][12] = "\n"
         /\ ss[i][g - 1] = "\r" /\ ss[i][g] = "\n"
    BY <2>1, <2>2a DEF IsPart
  <2> HIDE DEF p
  <2>11. /\ sent[at[i] + 5] = "\r" /\ sent[at[i] + 6] = "\n"
         /\ sent[at[i] + 7] = p.name
         /\ sent[at[i] + 8] = "\r" /\ sent[at[i] + 9] = "\n"
    BY <2>7, <2>10
  <2>12. p.typed => /\ sent[at[i] + 10] = "type"
                    /\ sent[at[i] + 11] = "\r" /\ sent[at[i] + 12] = "\n"
    BY <2>2b, <2>7, <2>10
  <2>13. sent[at[i] + g - 1] = "\r" /\ sent[at[i] + g] = "\n"
    <3>1. at[i] + (g - 1) = at[i] + g - 1
      BY <2>5
    <3> QED
      BY <2>7, <2>10, <3>1
  <2>14. Lead(p) = g
    BY <2>2a
  <2> QED
    BY <2>2, <2>5, <2>6, <2>8, <2>9, <2>11, <2>12, <2>13, <2>14 DEF p
<1>20. /\ sent[at[n + 1] + 5] = "-" /\ sent[at[n + 1] + 6] = "-"
       /\ sent[at[n + 1] + 7] = "\r" /\ sent[at[n + 1] + 8] = "\n"
  <2>1. \A k \in 1..8 : at[n + 1] + k = h + (m + k) /\ m + k \in 1..m + 8
    BY <1>10, <1>17
  <2>2. \A k \in 1..8 : sent[at[n + 1] + k] = body[m + k]
    BY <1>13, <2>1
  <2> QED
    BY <1>8, <2>2
<1>21. at[n + 1] + 8 = Len(sent)
  BY <1>10, <1>13, <1>17
<1>22. PartsLaid(at, r)
  BY <1>15, <1>17, <1>18, <1>19, <1>20, <1>21, Zenon DEF PartsLaid, n, h, sent
<1>23. PartsLaid(Starts(r), r)
  BY <1>22, Zenon DEF Starts
<1> QED
  BY <1>8, <1>9, <1>23

\* What a value is written with: nothing that tells fields apart.
Plain == Bytes \ {"&", "ssid", "pwd"}

Written(value) == FlattenSeq([i \in DOMAIN value |-> Escape(value[i])])

LEMMA EscapeIs ==
  ASSUME NEW c \in Characters
  PROVE  Escape(c) \in Seq(Plain)
<1>1. /\ <<"+">> \in Seq(Plain)
      /\ <<"%", "2", "6">> \in Seq(Plain) /\ <<"%", "2", "B">> \in Seq(Plain)
      /\ <<"%", "2", "5">> \in Seq(Plain) /\ <<"%", "3", "D">> \in Seq(Plain)
  BY DEF Plain, Bytes
<1>2. CASE c \in {" ", "&", "+", "%", "="}
  BY <1>1, <1>2 DEF Escape
<1>3. CASE c \notin {" ", "&", "+", "%", "="}
  <2>1. c \in Plain
    BY <1>3 DEF Plain, Bytes, Characters
  <2>2. Escape(c) = <<c>>
    BY <1>3 DEF Escape
  <2> QED
    BY <2>1, <2>2
<1> QED
  BY <1>2, <1>3

\* A value is written with the escapes of its characters, one after another.
LEMMA WrittenIs ==
  ASSUME NEW value \in Seq(Characters)
  PROVE  /\ Len(value) \in Nat /\ Written(value) \in Seq(Plain)
         /\ \E at : Laid(at, [i \in DOMAIN value |-> Escape(value[i])], Written(value))
<1> DEFINE n == Len(value)
           ss == [i \in DOMAIN value |-> Escape(value[i])]
<1>1. n \in Nat /\ DOMAIN value = 1..n /\ \A i \in 1..n : value[i] \in Characters
  OBVIOUS
<1>2. \A i \in 1..n : Escape(value[i]) \in Seq(Plain)
  BY <1>1, EscapeIs
<1>3. ss \in Seq(Seq(Plain))
  <2>1. ss = [i \in 1..n |-> Escape(value[i])]
    BY <1>1
  <2>2. [i \in 1..n |-> Escape(value[i])] \in [1..n -> Seq(Plain)]
    BY <1>2
  <2>3. [i \in 1..n |-> Escape(value[i])] \in Seq(Seq(Plain))
    BY <1>1, <2>2, IsASeq
  <2> QED
    BY <2>1, <2>3
<1>4. FlattenSeq(ss) \in Seq(Plain) /\ \E at : Laid(at, ss, FlattenSeq(ss))
  <2> HIDE DEF ss
  <2> QED
    BY <1>3, Flattened
<1> QED
  BY <1>1, <1>4 DEF Written

\* q is the form in which the values are written e and f.
IsForm(q, e, f, l) ==
  /\ q \in Seq(Bytes) /\ Len(q) = 5 + l + Len(f)
  /\ q[1] = "ssid" /\ q[2] = "=" /\ \A k \in 1..l : q[2 + k] = e[k]
  /\ q[3 + l] = "&" /\ q[4 + l] = "pwd" /\ q[5 + l] = "="
  /\ \A k \in 1..Len(f) : q[5 + l + k] = f[k]

LEMMA FormLaid ==
  ASSUME NEW e \in Seq(Bytes), NEW f \in Seq(Bytes), NEW l \in Nat, Len(e) = l
  PROVE  IsForm((<<"ssid", "=">> \o e) \o <<"&">> \o (<<"pwd", "=">> \o f), e, f, l)
<1> DEFINE one == <<"ssid", "=">>
           amp == <<"&">>
           two == <<"pwd", "=">>
           a == one \o e
           b == a \o amp
           c == two \o f
           q == b \o c
<1>1. one \in Seq(Bytes) /\ Len(one) = 2 /\ one[1] = "ssid" /\ one[2] = "="
  BY Two DEF Bytes
<1>2. amp \in Seq(Bytes) /\ Len(amp) = 1 /\ amp[1] = "&"
  BY DEF Bytes
<1>3. two \in Seq(Bytes) /\ Len(two) = 2 /\ two[1] = "pwd" /\ two[2] = "="
  BY Two DEF Bytes
<1> HIDE DEF one, amp, two
<1>4. Joins(a, one, e, 2)
  BY <1>1, Joined, Zenon
<1> HIDE DEF a
<1>5. PICK m \in Nat : m = 2 + l
  OBVIOUS
<1>6. /\ a \in Seq(Bytes) /\ Len(a) = m /\ a[1] = "ssid" /\ a[2] = "="
      /\ \A k \in 1..l : a[2 + k] = e[k]
  BY <1>1, <1>4, <1>5 DEF Joins
<1>7. Joins(b, a, amp, m)
  BY <1>2, <1>6, Joined, Zenon
<1> HIDE DEF b
<1>8. PICK n \in Nat : n = 3 + l
  OBVIOUS
<1>9. b \in Seq(Bytes) /\ Len(b) = n /\ b[n] = "&" /\ \A i \in 1..m : b[i] = a[i]
  BY <1>2, <1>5, <1>7, <1>8 DEF Joins
<1>10. Joins(c, two, f, 2)
  BY <1>3, Joined, Zenon
<1> HIDE DEF c
<1>11. /\ c \in Seq(Bytes) /\ Len(c) = 2 + Len(f) /\ c[1] = "pwd" /\ c[2] = "="
       /\ \A k \in 1..Len(f) : c[2 + k] = f[k]
  BY <1>3, <1>10 DEF Joins
<1>12. Joins(q, b, c, n)
  BY <1>9, <1>11, Joined, Zenon
<1> HIDE DEF q
<1>13. /\ q \in Seq(Bytes) /\ Len(q) = n + (2 + Len(f))
       /\ \A i \in 1..n : q[i] = b[i]
       /\ \A k \in 1..2 + Len(f) : q[n + k] = c[k]
  BY <1>11, <1>12 DEF Joins
<1>14. q[1] = "ssid" /\ q[2] = "=" /\ q[3 + l] = "&"
  <2>1. 1 \in 1..m /\ 2 \in 1..m /\ 1 \in 1..n /\ 2 \in 1..n /\ n \in 1..n
    BY <1>5, <1>8
  <2> QED
    BY <1>6, <1>8, <1>9, <1>13, <2>1
<1>15. \A k \in 1..l : q[2 + k] = e[k]
  <2> SUFFICES ASSUME NEW k \in 1..l PROVE q[2 + k] = e[k]
    OBVIOUS
  <2>1. 2 + k \in 1..m /\ 2 + k \in 1..n
    BY <1>5, <1>8
  <2> QED
    BY <1>6, <1>9, <1>13, <2>1
<1>16. PICK d \in Nat : d = Len(f)
  OBVIOUS
<1>17. q[4 + l] = "pwd" /\ q[5 + l] = "="
  <2>1. 1 \in 1..2 + d /\ 2 \in 1..2 + d /\ n + 1 = 4 + l /\ n + 2 = 5 + l
    BY <1>8
  <2> QED
    BY <1>11, <1>13, <1>16, <2>1
<1>18. \A k \in 1..Len(f) : q[5 + l + k] = f[k]
  <2> SUFFICES ASSUME NEW k \in 1..d PROVE q[5 + l + k] = f[k]
    BY <1>16
  <2>1. 2 + k \in 1..2 + d /\ n + (2 + k) = 5 + l + k
    BY <1>8
  <2> QED
    BY <1>11, <1>13, <1>16, <2>1
<1>19. Len(q) = 5 + l + Len(f)
  BY <1>8, <1>13, <1>16
<1>20. IsForm(q, e, f, l)
  BY <1>13, <1>14, <1>15, <1>17, <1>18, <1>19 DEF IsForm
<1> QED
  BY <1>20 DEF q, a, b, c, one, two, amp

LEMMA FormBodyIs ==
  ASSUME NEW r \in Requests, r.kind = "form"
  PROVE  /\ r.fields.ssid \in Seq(Characters) /\ r.fields.pwd \in Seq(Characters)
         /\ Body(r) \in Seq(Bytes)
         /\ IsForm(Body(r), Written(r.fields.ssid), Written(r.fields.pwd),
                   Len(Written(r.fields.ssid)))
<1> DEFINE e == Written(r.fields.ssid)
           f == Written(r.fields.pwd)
<1>1. r.fields.ssid \in Seq(Characters) /\ r.fields.pwd \in Seq(Characters)
  <2>1. r.fields \in [ssid : Seq(Characters), pwd : Seq(Characters)]
    BY HttpAssumption
  <2> QED
    BY <2>1
<1>2. e \in Seq(Bytes) /\ f \in Seq(Bytes)
  <2>1. e \in Seq(Plain) /\ f \in Seq(Plain)
    BY <1>1, WrittenIs, Zenon
  <2> HIDE DEF e, f
  <2> QED
    BY <2>1, SeqMonotonic DEF Plain
<1>3. Body(r) = (<<"ssid", "=">> \o e) \o <<"&">> \o (<<"pwd", "=">> \o f)
  BY DEF Body, FormBody, Field, Written
<1> HIDE DEF e, f
<1>4. Len(e) \in Nat
  BY <1>2
<1>5. IsForm((<<"ssid", "=">> \o e) \o <<"&">> \o (<<"pwd", "=">> \o f), e, f, Len(e))
  BY <1>2, <1>4, FormLaid, Zenon
<1>6. IsForm(Body(r), e, f, Len(e))
  BY <1>3, <1>5, Zenon
<1> QED
  BY <1>1, <1>6 DEF IsForm, e, f

-----------------------------------------------------------------------------
\* What is found in the buffer.

LEMMA LeastIs ==
  ASSUME NEW T, T \subseteq Nat, NEW n \in T, \A m \in T : n <= m
  PROVE  Min(T) = n
<1>1. \A x \in T : (\A y \in T : x <= y) => x = n
  OBVIOUS
<1>2. \E x \in T : \A y \in T : x <= y
  OBVIOUS
<1>3. Min(T) \in T /\ \A y \in T : Min(T) <= y
  BY <1>2, Zenon DEF Min
<1> QED
  BY <1>1, <1>3

LEMMA OneAt ==
  ASSUME NEW w \in Seq(Bytes), NEW i \in 1..Len(w), NEW x \in Bytes
  PROVE  SubSeq(w, i, i) = <<x>> <=> w[i] = x
<1>1. PICK b \in Nat : b = i - 1
  OBVIOUS
<1>2. b + 1 = i /\ b <= i /\ i <= Len(w) /\ i \in Nat /\ i - b = 1 /\ 1 \in 1..i - b
  BY <1>1
<1>3. /\ SubSeq(w, b + 1, i) \in Seq(Bytes) /\ Len(SubSeq(w, b + 1, i)) = i - b
      /\ \A k \in 1..i - b : SubSeq(w, b + 1, i)[k] = w[b + k]
  BY <1>2, Window
<1> DEFINE u == SubSeq(w, i, i)
<1>4. u \in Seq(Bytes) /\ Len(u) = 1 /\ u[1] = w[i]
  BY <1>2, <1>3
<1> HIDE DEF u
<1>5. u = <<u[1]>>
  BY <1>4
<1>6. u = <<x>> <=> w[i] = x
  BY <1>4, <1>5
<1> QED
  BY <1>6 DEF u

LEMMA TwoAt ==
  ASSUME NEW w \in Seq(Bytes), NEW i \in 1..Len(w) - 1, NEW x \in Bytes, NEW y \in Bytes
  PROVE  SubSeq(w, i, i + 1) = <<x, y>> <=> w[i] = x /\ w[i + 1] = y
<1>1. PICK b \in Nat, e \in Nat : b = i - 1 /\ e = i + 1
  OBVIOUS
<1>2. b + 1 = i /\ b <= e /\ e <= Len(w) /\ e - b = 2 /\ b + 2 = i + 1
  BY <1>1
<1>3. /\ SubSeq(w, b + 1, e) \in Seq(Bytes) /\ Len(SubSeq(w, b + 1, e)) = e - b
      /\ \A k \in 1..e - b : SubSeq(w, b + 1, e)[k] = w[b + k]
  BY <1>2, Window
<1> DEFINE u == SubSeq(w, i, i + 1)
<1>4. u \in Seq(Bytes) /\ Len(u) = 2 /\ u[1] = w[i] /\ u[2] = w[i + 1]
  BY <1>1, <1>2, <1>3
<1> HIDE DEF u
<1>5. u = <<u[1], u[2]>>
  BY <1>4
<1>6. u = <<x, y>> <=> w[i] = x /\ w[i + 1] = y
  BY <1>4, <1>5
<1> QED
  BY <1>6 DEF u

LEMMA FourAt ==
  ASSUME NEW w \in Seq(Bytes), NEW i \in Nat \ {0}, i + 3 <= Len(w)
  PROVE  SubSeq(w, i, i + 3) = Dashes \o CRLF
           <=> w[i] = "-" /\ w[i + 1] = "-" /\ w[i + 2] = "\r" /\ w[i + 3] = "\n"
<1>1. PICK b \in Nat, e \in Nat : b = i - 1 /\ e = i + 3
  OBVIOUS
<1>2. b + 1 = i /\ b <= e /\ e <= Len(w) /\ e - b = 4 /\ b + 2 = i + 1 /\ b + 3 = i + 2 /\ b + 4 = i + 3
  BY <1>1
<1>3. /\ SubSeq(w, b + 1, e) \in Seq(Bytes) /\ Len(SubSeq(w, b + 1, e)) = e - b
      /\ \A k \in 1..e - b : SubSeq(w, b + 1, e)[k] = w[b + k]
  BY <1>2, Window
<1> DEFINE u == SubSeq(w, i, i + 3)
           v == Dashes \o CRLF
<1>4. /\ u \in Seq(Bytes) /\ Len(u) = 4
      /\ u[1] = w[i] /\ u[2] = w[i + 1] /\ u[3] = w[i + 2] /\ u[4] = w[i + 3]
  BY <1>1, <1>2, <1>3
<1>5. Joins(v, Dashes, CRLF, 2)
  BY Pairs, Joined, Zenon
<1> HIDE DEF u, v
<1>6. /\ v \in Seq(Bytes) /\ Len(v) = 4
      /\ v[1] = "-" /\ v[2] = "-" /\ v[3] = "\r" /\ v[4] = "\n"
  BY <1>5, Pairs DEF Joins
<1>7. (\A k \in 1..4 : u[k] = v[k]) => u = v
  BY <1>4, <1>6, SeqEqual
<1>8. u = v <=> u[1] = v[1] /\ u[2] = v[2] /\ u[3] = v[3] /\ u[4] = v[4]
  BY <1>7
<1>9. u = v <=> w[i] = "-" /\ w[i + 1] = "-" /\ w[i + 2] = "\r" /\ w[i + 3] = "\n"
  BY <1>4, <1>6, <1>8
<1> QED
  BY <1>9 DEF u, v

LEMMA SentIs ==
  ASSUME NEW r \in Requests
  PROVE  /\ Body(r) \in Seq(Bytes) /\ Len(Body(r)) \in Nat
         /\ r.head \in Nat \ {0}
         /\ Sent(r) \in Seq(Bytes) /\ Len(Sent(r)) = r.head + Len(Body(r))
         /\ \A i \in 1..r.head : Sent(r)[i] = "end" <=> i = r.head
         /\ \A k \in 1..Len(Body(r)) : Sent(r)[r.head + k] = Body(r)[k]
         /\ r.kind \notin {"upload", "form"} => Len(Body(r)) = 0
<1>1. r.kind \notin {"upload", "form"} => Body(r) = <<>>
  BY DEF Body
<1>2. Body(r) \in Seq(Bytes)
  <2>1. CASE r.kind = "upload"
    BY <2>1, PartsAreLaid
  <2>2. CASE r.kind = "form"
    BY <2>2, FormBodyIs
  <2>3. CASE r.kind \notin {"upload", "form"}
    <3>1. Body(r) = <<>> /\ <<>> \in Seq(Bytes)
      BY <1>1, <2>3
    <3> QED
      BY <3>1, Zenon
  <2> QED
    BY <2>1, <2>2, <2>3
<1>3. /\ r.head \in Nat \ {0}
      /\ HttpHead(r) \in Seq(Bytes) /\ Len(HttpHead(r)) = r.head
      /\ \A i \in 1..r.head : HttpHead(r)[i] = "end" <=> i = r.head
  BY HeadIs
<1>4. Joins(Sent(r), HttpHead(r), Body(r), r.head)
  BY <1>2, <1>3, Joined, Zenon DEF Sent
<1>5. /\ Sent(r) \in Seq(Bytes) /\ Len(Sent(r)) = r.head + Len(Body(r))
      /\ \A i \in 1..r.head : Sent(r)[i] = HttpHead(r)[i]
      /\ \A k \in 1..Len(Body(r)) : Sent(r)[r.head + k] = Body(r)[k]
  BY <1>4, Zenon DEF Joins
<1>6. \A i \in 1..r.head : Sent(r)[i] = "end" <=> i = r.head
  BY <1>3, <1>5
<1>7. r.kind \notin {"upload", "form"} => Len(Body(r)) = 0
  BY <1>1
<1>8. Len(Body(r)) \in Nat
  BY <1>2
<1> QED
  BY <1>2, <1>3, <1>5, <1>6, <1>7, <1>8

\* recv_mbuf holds those of the bytes sent that were received after the first b.
Holds(sent, b) ==
  /\ sent \in Seq(Bytes) /\ b \in Nat /\ pos \in Nat /\ b <= pos /\ pos <= Len(sent)
  /\ recv_mbuf = SubSeq(sent, b + 1, pos)

LEMMA HoldsIs ==
  ASSUME NEW sent, NEW b, Holds(sent, b)
  PROVE  /\ recv_mbuf \in Seq(Bytes) /\ Len(recv_mbuf) = pos - b
         /\ \A i \in 1..pos - b : recv_mbuf[i] = sent[b + i]
BY Window DEF Holds

\* The end of the head is found when it was received,
LEMMA HeadFound ==
  ASSUME NEW r \in Requests, Holds(Sent(r), 0)
  PROVE  req_len = IF r.head <= pos THEN r.head ELSE 0
<1> DEFINE h == r.head
           sent == Sent(r)
           places == {i \in 1..Len(recv_mbuf) - 1 + 1 : SubSeq(recv_mbuf, i, i + 1 - 1) = <<"end">>}
<1>1. /\ h \in Nat \ {0} /\ h <= Len(sent)
      /\ \A i \in 1..h : sent[i] = "end" <=> i = h
  BY SentIs
<1>2. /\ recv_mbuf \in Seq(Bytes) /\ Len(recv_mbuf) = pos
      /\ \A i \in 1..pos : recv_mbuf[i] = sent[i]
  <2>1. pos \in Nat
    BY DEF Holds
  <2> QED
    BY <2>1, HoldsIs
<1>3. pos \in Nat
  BY DEF Holds
<1> HIDE DEF h, sent
<1>4. \A i \in 1..pos : SubSeq(recv_mbuf, i, i + 1 - 1) = <<"end">> <=> sent[i] = "end"
  <2> SUFFICES ASSUME NEW i \in 1..pos
               PROVE  SubSeq(recv_mbuf, i, i + 1 - 1) = <<"end">> <=> sent[i] = "end"
    OBVIOUS
  <2>1. i + 1 - 1 = i /\ i \in 1..Len(recv_mbuf) /\ "end" \in Bytes
    BY <1>2, <1>3 DEF Bytes
  <2>2. SubSeq(recv_mbuf, i, i) = <<"end">> <=> recv_mbuf[i] = "end"
    BY <1>2, <2>1, OneAt, Zenon
  <2> QED
    BY <1>2, <2>1, <2>2
<1>5. places = {i \in 1..pos : sent[i] = "end"}
  BY <1>2, <1>3, <1>4
<1>6. req_len = IF places = {} THEN 0 ELSE Min(places)
  <2>1. Len(<<"end">>) = 1
    OBVIOUS
  <2> QED
    BY <2>1, Zenon DEF req_len, c_strnstr
<1> HIDE DEF places
<1>7. CASE h <= pos
  <2>1. h \in places /\ \A i \in places : h <= i
    BY <1>1, <1>3, <1>5, <1>7
  <2>2. places \subseteq Nat
    BY <1>5
  <2>3. Min(places) = h
    BY <2>1, <2>2, LeastIs
  <2> QED
    BY <1>6, <1>7, <2>1, <2>3 DEF h
<1>8. CASE pos < h
  <2>1. places = {}
    BY <1>1, <1>3, <1>5, <1>8
  <2> QED
    BY <1>1, <1>3, <1>6, <1>8, <2>1 DEF h
<1> QED
  BY <1>1, <1>3, <1>7, <1>8

\* and nothing in an empty buffer.
LEMMA NothingFound ==
  ASSUME recv_mbuf = <<>>
  PROVE  req_len = 0
<1>1. {i \in 1..Len(recv_mbuf) - 1 + 1 : SubSeq(recv_mbuf, i, i + 1 - 1) = <<"end">>} = {}
  BY Len(recv_mbuf) = 0
<1>2. Len(<<"end">>) = 1
  OBVIOUS
<1> QED
  BY <1>1, <1>2, Zenon DEF req_len, c_strnstr

\* The next boundary is found when both its bytes were received.
LEMMA BoundaryFound ==
  ASSUME NEW sent, NEW b, Holds(sent, b), NEW B \in Nat, b < B, B < Len(sent),
         sent[B] = "b1", sent[B + 1] = "b2",
         \A k \in b + 1..B - 1 : ~(sent[k] = "b1" /\ sent[k + 1] = "b2")
  PROVE  boundary = IF B < pos THEN B - b ELSE 0
<1> DEFINE places == {i \in 1..Len(recv_mbuf) - 2 + 1 : SubSeq(recv_mbuf, i, i + 2 - 1) = Boundary}
<1>1. b \in Nat /\ pos \in Nat /\ b <= pos /\ pos <= Len(sent)
  BY DEF Holds
<1>2. /\ recv_mbuf \in Seq(Bytes) /\ Len(recv_mbuf) = pos - b
      /\ \A i \in 1..pos - b : recv_mbuf[i] = sent[b + i]
  BY HoldsIs
<1>3. \A i \in 1..pos - b - 1 : SubSeq(recv_mbuf, i, i + 2 - 1) = Boundary
                                  <=> sent[b + i] = "b1" /\ sent[b + i + 1] = "b2"
  <2> SUFFICES ASSUME NEW i \in 1..pos - b - 1
               PROVE  SubSeq(recv_mbuf, i, i + 2 - 1) = Boundary
                        <=> sent[b + i] = "b1" /\ sent[b + i + 1] = "b2"
    OBVIOUS
  <2>1. /\ i \in 1..pos - b /\ i + 1 \in 1..pos - b /\ i + 2 - 1 = i + 1
        /\ i \in 1..Len(recv_mbuf) - 1 /\ b + (i + 1) = b + i + 1
    BY <1>1, <1>2
  <2>2. "b1" \in Bytes /\ "b2" \in Bytes
    BY DEF Bytes
  <2>3. SubSeq(recv_mbuf, i, i + 1) = <<"b1", "b2">> <=> recv_mbuf[i] = "b1" /\ recv_mbuf[i + 1] = "b2"
    BY <1>2, <2>1, <2>2, TwoAt
  <2>4. recv_mbuf[i] = sent[b + i] /\ recv_mbuf[i + 1] = sent[b + i + 1]
    BY <1>2, <2>1
  <2> QED
    BY <2>1, <2>3, <2>4 DEF Boundary
<1>4. boundary = IF places = {} THEN 0 ELSE Min(places)
  <2>1. Len(Boundary) = 2
    BY Pairs
  <2> QED
    BY <2>1, Zenon DEF boundary, c_strnstr
<1>5. places = {i \in 1..pos - b - 1 : sent[b + i] = "b1" /\ sent[b + i + 1] = "b2"}
  <2>1. Len(recv_mbuf) - 2 + 1 = pos - b - 1
    BY <1>1, <1>2
  <2> QED
    BY <1>3, <2>1
<1> HIDE DEF places
<1>6. ASSUME NEW i \in places PROVE B - b <= i
  <2> SUFFICES ASSUME i < B - b PROVE FALSE
    BY <1>1, <1>5
  <2>1. i \in Nat /\ 1 <= i /\ sent[b + i] = "b1" /\ sent[b + i + 1] = "b2"
    BY <1>5
  <2>2. b + i \in b + 1..B - 1
    BY <1>1, <2>1
  <2> QED
    BY <2>1, <2>2
<1>7. places \subseteq Nat
  BY <1>5
<1>8. CASE B < pos
  <2>1. B - b \in 1..pos - b - 1 /\ b + (B - b) = B
    BY <1>1, <1>8
  <2>2. B - b \in places
    BY <1>5, <2>1
  <2>3. Min(places) = B - b
    BY <1>6, <1>7, <2>2, LeastIs
  <2> QED
    BY <1>4, <1>8, <2>2, <2>3
<1>9. CASE ~(B < pos)
  <2>1. \A i \in places : i < B - b
    BY <1>1, <1>5, <1>9
  <2>2. places = {}
    BY <1>1, <1>6, <1>7, <2>1
  <2> QED
    BY <1>4, <1>9, <2>2
<1> QED
  BY <1>8, <1>9

\* There is an empty line at j, from i on.
EmptyAt(sent, i, j) ==
  /\ j = i \/ sent[j - 1] = "\n"
  /\ sent[j] = "\r" /\ sent[j + 1] = "\n"

\* The head of a part ends after its one line, or its two.
LEMMA EmptyLineFound ==
  ASSUME NEW sent, NEW b, Holds(sent, b), NEW B \in Nat, b < B, boundary = B - b,
         NEW g \in {11, 14}, B + g - 3 <= Len(sent), sent[B + 4] # "\n",
         sent[B + 5] = "\r", sent[B + 6] = "\n",
         g = 14 => sent[B + 7] = "type" /\ sent[B + 8] = "\r" /\ sent[B + 9] = "\n",
         sent[B + g - 4] = "\r", sent[B + g - 3] = "\n"
  PROVE  EmptyLine = IF B + g - 3 <= pos THEN B + g - 4 - b ELSE 0
<1> DEFINE first == boundary_end + 2
           lines == {i \in first..Len(recv_mbuf) - 1 :
                       /\ i = first \/ recv_mbuf[i - 1] = "\n"
                       /\ SubSeq(recv_mbuf, i, i + 1) = CRLF}
<1>1. b \in Nat /\ pos \in Nat /\ b <= pos /\ pos <= Len(sent)
  BY DEF Holds
<1>2. /\ recv_mbuf \in Seq(Bytes) /\ Len(recv_mbuf) = pos - b
      /\ \A i \in 1..pos - b : recv_mbuf[i] = sent[b + i]
  BY HoldsIs
<1>3. EmptyLine = IF lines = {} THEN 0 ELSE Min(lines)
  BY Zenon DEF EmptyLine
<1>4. first = B + 4 - b
  <2>1. Len(Boundary) = 2
    BY Pairs
  <2> QED
    BY <1>1, <2>1 DEF boundary_end
<1> HIDE DEF first
<1>5. ASSUME NEW i \in first..Len(recv_mbuf) - 1
      PROVE  i \in lines <=> EmptyAt(sent, B + 4, b + i)
  <2> HIDE DEF lines
  <2>1. /\ i \in 1..pos - b /\ i + 1 \in 1..pos - b /\ i - 1 \in 1..pos - b
        /\ i \in 1..Len(recv_mbuf) - 1
        /\ b + (i + 1) = b + i + 1 /\ b + (i - 1) = (b + i) - 1
        /\ i = first <=> b + i = B + 4
    BY <1>1, <1>2, <1>4
  <2>2. "\r" \in Bytes /\ "\n" \in Bytes
    BY DEF Bytes
  <2>3. recv_mbuf \in Seq(Bytes) /\ i \in 1..Len(recv_mbuf) - 1
    BY <1>2, <2>1
  <2>4. SubSeq(recv_mbuf, i, i + 1) = <<"\r", "\n">> <=> recv_mbuf[i] = "\r" /\ recv_mbuf[i + 1] = "\n"
    BY <2>2, <2>3, TwoAt
  <2>5. /\ recv_mbuf[i] = sent[b + i] /\ recv_mbuf[i + 1] = sent[b + i + 1]
        /\ recv_mbuf[i - 1] = sent[(b + i) - 1]
    BY <1>2, <2>1
  <2>6. i \in lines <=> /\ i = first \/ recv_mbuf[i - 1] = "\n"
                        /\ SubSeq(recv_mbuf, i, i + 1) = <<"\r", "\n">>
    BY DEF CRLF, lines
  <2>7. EmptyAt(sent, B + 4, b + i) <=>
          /\ i = first \/ recv_mbuf[i - 1] = "\n"
          /\ recv_mbuf[i] = "\r" /\ recv_mbuf[i + 1] = "\n"
    <3>1. EmptyAt(sent, B + 4, b + i) <=>
            /\ b + i = B + 4 \/ sent[(b + i) - 1] = "\n"
            /\ sent[b + i] = "\r" /\ sent[b + i + 1] = "\n"
      BY Zenon DEF EmptyAt
    <3>2. i = first <=> b + i = B + 4
      BY <2>1
    <3> QED
      BY <2>5, <3>1, <3>2, Zenon
  <2> QED
    BY <2>4, <2>6, <2>7, Zenon
<1>6. \A j \in B + 4..B + g - 5 : ~EmptyAt(sent, B + 4, j)
  <2>1. ~EmptyAt(sent, B + 4, B + 4) /\ ~EmptyAt(sent, B + 4, B + 5) /\ ~EmptyAt(sent, B + 4, B + 6)
    <3>1. (B + 5) - 1 = B + 4 /\ (B + 6) - 1 = B + 5 /\ B + 4 + 1 = B + 5 /\ B + 5 # B + 4 /\ B + 6 # B + 4
      OBVIOUS
    <3> QED
      BY <3>1 DEF EmptyAt
  <2>2. ASSUME g = 14
        PROVE  ~EmptyAt(sent, B + 4, B + 7) /\ ~EmptyAt(sent, B + 4, B + 8) /\ ~EmptyAt(sent, B + 4, B + 9)
    <3>1. (B + 8) - 1 = B + 7 /\ (B + 9) - 1 = B + 8 /\ B + 8 # B + 4 /\ B + 9 # B + 4
      OBVIOUS
    <3> QED
      BY <2>2, <3>1 DEF EmptyAt
  <2> SUFFICES ASSUME NEW j \in B + 4..B + g - 5
               PROVE  ~EmptyAt(sent, B + 4, j)
    OBVIOUS
  <2>3. CASE g = 11
    <3>1. j = B + 4 \/ j = B + 5 \/ j = B + 6
      BY <2>3
    <3> QED
      BY <2>1, <3>1
  <2>4. CASE g = 14
    <3>1. \/ j = B + 4 \/ j = B + 5 \/ j = B + 6
          \/ j = B + 7 \/ j = B + 8 \/ j = B + 9
      BY <2>4
    <3> QED
      BY <2>1, <2>2, <2>4, <3>1
  <2> QED
    BY <2>3, <2>4
<1>13. PICK E \in Nat : E = B + g - 4
  OBVIOUS
<1>7. EmptyAt(sent, B + 4, E)
  <2>1. E + 1 = B + g - 3 /\ (g = 11 => E - 1 = B + 6) /\ (g = 14 => E - 1 = B + 9)
    BY <1>13
  <2>2. sent[E - 1] = "\n"
    BY <2>1
  <2> QED
    BY <1>13, <2>1, <2>2 DEF EmptyAt
<1>8. \A i \in lines : i \in first..Len(recv_mbuf) - 1
  OBVIOUS
<1>9. lines \subseteq Nat
  BY <1>1, <1>4
<1> HIDE DEF lines
<1>10. ASSUME NEW i \in lines PROVE E - b <= i
  <2>1. EmptyAt(sent, B + 4, b + i) /\ i >= B + 4 - b /\ i \in Nat
    BY <1>1, <1>4, <1>5, <1>8, <1>9
  <2>2. b + i \notin B + 4..B + g - 5
    BY <1>6, <2>1
  <2> QED
    BY <1>1, <1>13, <2>1, <2>2
<1>11. CASE E + 1 <= pos
  <2>1. E - b \in first..Len(recv_mbuf) - 1 /\ b + (E - b) = E
    BY <1>1, <1>2, <1>4, <1>11, <1>13
  <2>2. E - b \in lines
    BY <1>5, <1>7, <2>1
  <2>3. Min(lines) = E - b
    BY <1>9, <1>10, <2>2, LeastIs
  <2>4. EmptyLine = E - b
    BY <1>3, <2>2, <2>3
  <2>5. B + g - 3 <= pos /\ B + g - 4 - b = E - b
    BY <1>1, <1>11, <1>13
  <2> QED
    BY <2>4, <2>5
<1>12. CASE ~(E + 1 <= pos)
  <2>1. \A i \in lines : i < E - b
    BY <1>1, <1>2, <1>8, <1>12
  <2>2. lines = {}
    BY <1>1, <1>9, <1>10, <1>13, <2>1
  <2> QED
    BY <1>3, <1>12, <1>13, <2>2
<1> QED
  BY <1>11, <1>12

-----------------------------------------------------------------------------
(***************************************************************************)
(* The steps.                                                              *)
(***************************************************************************)

\* TypeOK, with what is in the buffer said as above.
Typed ==
  /\ request \in Requests
  /\ \E b : Holds(Sent(request), b)
  /\ peer \in {"open", "shut", "reset"}
  /\ pc \in {"poll", "parse", "multipart", "lost", "closed", "restarted"}
  /\ astray \in BOOLEAN
  /\ rcvd \in {0, pos}
  /\ send_mbuf \in Nat /\ answers \in Nat
  /\ mp.state \in {"BEGIN", "WAITING_FOR_BOUNDARY", "WAITING_FOR_CHUNK",
                   "GOT_BOUNDARY", "FINALIZE", "FINISHED"}
  /\ mp.boundary \in BOOLEAN /\ mp.processing_part \in Nat
  /\ flags \subseteq {"SEND_AND_CLOSE", "CLOSE_IMMEDIATELY"}
  /\ seen.phase \in {"idle", "between", "part", "ended", "lost", "aborted"}

LEMMA StreamIs == Stream = Sent(request)
BY DEF Stream, Sent

LEMMA TypedIs == Typed <=> TypeOK
<1>1. ASSUME request \in Requests
      PROVE  (\E b : Holds(Sent(request), b)) <=>
               LET sent == Stream
               IN  /\ pos \in 0..Len(sent)
                   /\ \E n \in 0..pos : recv_mbuf = SubSeq(sent, n + 1, pos)
  <2> DEFINE sent == Sent(request)
  <2>1. sent \in Seq(Bytes) /\ Len(sent) \in Nat
    BY <1>1, SentIs
  <2>2. sent = Stream
    BY StreamIs
  <2> HIDE DEF sent
  <2>3. ASSUME NEW b, Holds(sent, b)
        PROVE  pos \in 0..Len(sent) /\ \E n \in 0..pos : recv_mbuf = SubSeq(sent, n + 1, pos)
    <3>1. b \in 0..pos /\ recv_mbuf = SubSeq(sent, b + 1, pos) /\ pos \in 0..Len(sent)
      BY <2>1, <2>3 DEF Holds
    <3> QED
      BY <3>1, Zenon
  <2>4. ASSUME pos \in 0..Len(sent), NEW n \in 0..pos, recv_mbuf = SubSeq(sent, n + 1, pos)
        PROVE  Holds(sent, n)
    BY <2>1, <2>4 DEF Holds
  <2>5. (\E b : Holds(sent, b)) <=>
          pos \in 0..Len(sent) /\ \E n \in 0..pos : recv_mbuf = SubSeq(sent, n + 1, pos)
    BY <2>3, <2>4, Zenon
  <2> QED
    BY <2>2, <2>5, Zenon DEF sent
<1> QED
  BY <1>1, Zenon DEF Typed, TypeOK

\* The value as far as its variable holds it.
Entered(value) == SubSeq(value, 1, Min({Len(value), FieldSize - 1}))

\* What FieldsAreRead says of a form f.
Read(f, whole, r) ==
  LET ReadOf(field, value) ==
        IF whole THEN field = [text |-> Entered(value), ended |-> TRUE]
                 ELSE IsPrefix(field.text, Entered(value))
  IN  f.handled => /\ ReadOf(f.ssid, r.fields.ssid)
                   /\ ReadOf(f.pwd, r.fields.pwd)

LEMMA ReadIs == FieldsAreRead <=> Read(form, pos = Len(Sent(request)), request)
BY StreamIs DEF FieldsAreRead, Read, Entered

\* A step that reads no form leaves the forms as they are.
LEMMA FormsKept ==
  ASSUME FormIsWhole, FieldsAreRead, form' = form, request' = request,
         form.handled => pos' = pos, peer' = "open" => peer = "open"
  PROVE  FormIsWhole' /\ FieldsAreRead'
<1>1. CASE ~form.handled
  <2>1. FormIsWhole'
    BY <1>1 DEF FormIsWhole
  <2>2. FieldsAreRead'
    BY <1>1, Zenon DEF FieldsAreRead
  <2> QED
    BY <2>1, <2>2
<1>2. CASE form.handled
  <2>1. Stream' = Stream
    BY StreamIs, Zenon DEF Stream
  <2>2. FormIsWhole'
    BY <1>2, <2>1 DEF FormIsWhole
  <2>3. Read(form, pos = Len(Sent(request)), request)
    BY ReadIs
  <2>4. Read(form', pos' = Len(Sent(request')), request')
    BY <1>2, <2>3
  <2>5. FieldsAreRead' <=> Read(form', pos' = Len(Sent(request')), request')
    <3>1. (FieldsAreRead <=> Read(form, pos = Len(Sent(request)), request))'
      BY ReadIs, PTL
    <3> QED
      BY <3>1
  <2> QED
    BY <2>2, <2>4, <2>5
<1> QED
  BY <1>1, <1>2

LEMMA Holding ==
  ASSUME IInv
  PROVE  /\ Typed /\ Stream = Sent(request)
         /\ Sent(request) \in Seq(Bytes) /\ Len(Sent(request)) \in Nat
         /\ pos \in Nat /\ pos <= Len(Sent(request))
<1>1. Typed
  BY TypedIs DEF IInv
<1>2. Sent(request) \in Seq(Bytes)
  BY <1>1, SentIs DEF Typed
<1>3. pos \in Nat /\ pos <= Len(Sent(request))
  BY <1>1 DEF Typed, Holds
<1> QED
  BY <1>1, <1>2, <1>3, StreamIs

\* More is received,
LEMMA HoldsMore ==
  ASSUME NEW sent, NEW b, Holds(sent, b), NEW n \in 1..Len(sent) - pos,
         recv_mbuf' = recv_mbuf \o SubSeq(sent, pos + 1, pos + n), pos' = pos + n
  PROVE  Holds(sent, b)'
<1>1. /\ sent \in Seq(Bytes) /\ b \in Nat /\ pos \in Nat /\ b <= pos /\ pos <= Len(sent)
      /\ recv_mbuf = SubSeq(sent, b + 1, pos)
  BY DEF Holds
<1>2. n \in Nat /\ pos + n <= Len(sent) /\ pos + n \in Nat /\ b <= pos + n
  BY <1>1
<1>3. SubSeq(sent, b + 1, pos) \o SubSeq(sent, pos + 1, pos + n) = SubSeq(sent, b + 1, pos + n)
  BY <1>1, <1>2, WindowMore
<1> QED
  BY <1>1, <1>2, <1>3 DEF Holds

\* the first n bytes are removed,
LEMMA HoldsLess ==
  ASSUME NEW sent, NEW b, Holds(sent, b), NEW n \in 0..pos - b, mbuf_remove(n), pos' = pos
  PROVE  Holds(sent, b + n)'
<1>1. /\ sent \in Seq(Bytes) /\ b \in Nat /\ pos \in Nat /\ b <= pos /\ pos <= Len(sent)
      /\ recv_mbuf = SubSeq(sent, b + 1, pos)
  BY DEF Holds
<1>2. Len(recv_mbuf) = pos - b /\ pos - b \in 0..pos - b /\ pos - b \in n..pos - b /\ b + (pos - b) = pos
  BY <1>1, HoldsIs
<1>3. SubSeq(SubSeq(sent, b + 1, pos), n + 1, pos - b) = SubSeq(sent, b + n + 1, b + (pos - b))
  BY <1>1, <1>2, WindowIn
<1>4. recv_mbuf' = SubSeq(sent, b + n + 1, pos)
  BY <1>1, <1>2, <1>3 DEF mbuf_remove
<1> QED
  BY <1>1, <1>4 DEF Holds

\* or none, when there are fewer,
LEMMA HoldsSame ==
  ASSUME NEW sent, NEW b, Holds(sent, b), NEW n \in Nat, n > Len(recv_mbuf), mbuf_remove(n), pos' = pos
  PROVE  Holds(sent, b)'
<1>1. Len(recv_mbuf) \in Nat
  BY HoldsIs DEF Holds
<1>2. recv_mbuf' = recv_mbuf
  BY <1>1 DEF mbuf_remove
<1> QED
  BY <1>2 DEF Holds

\* or all.
LEMMA HoldsNothing ==
  ASSUME NEW sent \in Seq(Bytes), NEW b \in Nat, b = pos, pos <= Len(sent),
         recv_mbuf' = <<>>, pos' = pos
  PROVE  Holds(sent, b)'
<1>1. SubSeq(sent, b + 1, b) = <<>>
  BY SubSeqEmpty
<1> QED
  BY <1>1 DEF Holds

\* What is held after the head is of the body.
LEMMA BodyHeld ==
  ASSUME NEW r \in Requests, Holds(Sent(r), 0), r.head <= pos
  PROVE  /\ pos - r.head \in 0..Len(Body(r))
         /\ SubSeq(recv_mbuf, r.head + 1, Len(recv_mbuf)) = SubSeq(Body(r), 1, pos - r.head)
<1> DEFINE h == r.head
           sent == Sent(r)
           body == Body(r)
           u == SubSeq(recv_mbuf, h + 1, Len(recv_mbuf))
           v == SubSeq(body, 1, pos - h)
<1>1. /\ body \in Seq(Bytes) /\ Len(body) \in Nat /\ h \in Nat \ {0}
      /\ sent \in Seq(Bytes) /\ Len(sent) = h + Len(body)
      /\ \A k \in 1..Len(body) : sent[h + k] = body[k]
  BY SentIs
<1>2. pos \in Nat /\ pos <= Len(sent) /\ recv_mbuf = SubSeq(sent, 0 + 1, pos)
  BY DEF Holds
<1>3. h <= pos
  OBVIOUS
<1> HIDE DEF h, sent, body
<1>4. pos - h \in 0..Len(body)
  BY <1>1, <1>2, <1>3
<1>5. Len(recv_mbuf) = pos
  BY <1>1, <1>2, Window
<1>6. SubSeq(SubSeq(sent, 0 + 1, pos), h + 1, pos) = SubSeq(sent, 0 + h + 1, 0 + pos)
  BY <1>1, <1>2, <1>3, WindowIn
<1>7. u = SubSeq(sent, h + 1, pos)
  BY <1>1, <1>2, <1>5, <1>6
<1>8. /\ u \in Seq(Bytes) /\ Len(u) = pos - h
      /\ \A i \in 1..pos - h : u[i] = sent[h + i]
  <2> HIDE DEF u
  <2> QED
    BY <1>1, <1>2, <1>3, <1>7, Window
<1>9. /\ v \in Seq(Bytes) /\ Len(v) = pos - h
      /\ \A i \in 1..pos - h : v[i] = body[i]
  <2>1. 0 \in Nat /\ pos - h \in Nat /\ pos - h <= Len(body) /\ 0 <= pos - h /\ pos - h - 0 = pos - h
    BY <1>1, <1>4
  <2>2. /\ SubSeq(body, 0 + 1, pos - h) \in Seq(Bytes)
        /\ Len(SubSeq(body, 0 + 1, pos - h)) = pos - h - 0
        /\ \A i \in 1..pos - h - 0 : SubSeq(body, 0 + 1, pos - h)[i] = body[0 + i]
    BY <1>1, <2>1, Window
  <2> QED
    BY <2>1, <2>2
<1> HIDE DEF u, v
<1>10. ASSUME NEW i \in 1..pos - h PROVE u[i] = v[i]
  <2>1. i \in 1..Len(body)
    BY <1>1, <1>2, <1>4
  <2>2. sent[h + i] = body[i]
    BY <1>1, <2>1
  <2> QED
    BY <1>8, <1>9, <2>2
<1>11. u = v
  BY <1>8, <1>9, <1>10, SeqEqual
<1> QED
  BY <1>4, <1>11 DEF u, v, h, body

\* What Gathers says, where it is.
LEMMA Gathering ==
  ASSUME IInv, Gathers
  PROVE  /\ Holds(Sent(request), 0)
         /\ request.head \in Nat \ {0}
         /\ req_len = IF request.head <= pos THEN request.head ELSE 0
         /\ mp = Boundless /\ ~mp.boundary /\ mp.state = "BEGIN"
<1>1. /\ Stream = Sent(request) /\ request \in Requests
      /\ Sent(request) \in Seq(Bytes) /\ pos \in Nat /\ pos <= Len(Sent(request))
  BY Holding DEF Typed
<1>2. recv_mbuf = SubSeq(Sent(request), 1, pos)
  BY <1>1 DEF Gathers
<1>3. Holds(Sent(request), 0)
  BY <1>1, <1>2 DEF Holds
<1>4. request.head \in Nat \ {0}
  BY <1>1, SentIs
<1>5. mp = Boundless /\ ~mp.boundary /\ mp.state = "BEGIN"
  BY DEF Gathers, Boundless
<1> QED
  BY <1>1, <1>3, <1>4, <1>5, HeadFound

-----------------------------------------------------------------------------
\* The reading of a form: the decoder undoes the escapes.

\* What the two digits of an escape stand for.
LEMMA HexIs ==
  /\ DOMAIN Hex = {<<"2", "6">>, <<"2", "B">>, <<"2", "5">>, <<"3", "D">>}
  /\ Hex[<<"2", "6">>] = "&" /\ Hex[<<"2", "B">>] = "+"
  /\ Hex[<<"2", "5">>] = "%" /\ Hex[<<"3", "D">>] = "="
<1>1. \A a, b, c, d \in STRING : <<a, b>> = <<c, d>> <=> a = c /\ b = d
  OBVIOUS
<1>2. /\ <<"2", "B">> # <<"2", "6">> /\ <<"2", "5">> # <<"2", "6">> /\ <<"3", "D">> # <<"2", "6">>
      /\ <<"2", "5">> # <<"2", "B">> /\ <<"3", "D">> # <<"2", "B">> /\ <<"3", "D">> # <<"2", "5">>
  OBVIOUS
<1> QED
  BY <1>2 DEF Hex

\* The character c is written between s and e.
EscapeAt(w, s, e, c) ==
  /\ s \in Nat /\ e \in Nat /\ e <= Len(w)
  /\ \/ e = s + 1 /\ w[e] # "%" /\ c = IF w[e] = "+" THEN " " ELSE w[e]
     \/ /\ e = s + 3 /\ w[s + 1] = "%"
        /\ <<w[s + 2], w[s + 3]>> \in DOMAIN Hex /\ c = Hex[<<w[s + 2], w[s + 3]>>]

\* Each character is written where at has it.
EscapesAt(at, value, w) ==
  /\ at[1] = 0 /\ at[Len(value) + 1] = Len(w)
  /\ \A i \in 1..Len(value) : EscapeAt(w, at[i], at[i + 1], value[i])

\* A character that is written in those bytes.
LEMMA EscapedAt ==
  ASSUME NEW w, Len(w) \in Nat, NEW s \in Nat, NEW e \in Nat, NEW c \in Characters,
         e = s + Len(Escape(c)), e <= Len(w),
         \A k \in 1..Len(Escape(c)) : w[s + k] = Escape(c)[k]
  PROVE  EscapeAt(w, s, e, c)
<1>1. ASSUME NEW a, NEW b, NEW d, Escape(c) = <<a, b, d>>
      PROVE  e = s + 3 /\ w[s + 1] = a /\ w[s + 2] = b /\ w[s + 3] = d
  <2>1. Len(<<a, b, d>>) = 3 /\ <<a, b, d>>[1] = a /\ <<a, b, d>>[2] = b /\ <<a, b, d>>[3] = d
    OBVIOUS
  <2> QED
    BY <1>1, <2>1
<1>2. ASSUME NEW a, Escape(c) = <<a>>
      PROVE  e = s + 1 /\ w[e] = a
  <2>1. Len(<<a>>) = 1 /\ <<a>>[1] = a
    OBVIOUS
  <2> QED
    BY <1>2, <2>1
<1>3. CASE c = " "
  <2>1. Escape(c) = <<"+">>
    BY <1>3 DEF Escape
  <2>2. e = s + 1 /\ w[e] = "+"
    BY <1>2, <2>1
  <2> QED
    BY <1>3, <2>2 DEF EscapeAt
<1>4. CASE c = "&"
  <2>1. Escape(c) = <<"%", "2", "6">>
    BY <1>4 DEF Escape
  <2>2. e = s + 3 /\ w[s + 1] = "%" /\ w[s + 2] = "2" /\ w[s + 3] = "6"
    BY <1>1, <2>1
  <2> QED
    BY <1>4, <2>2, HexIs DEF EscapeAt
<1>5. CASE c = "+"
  <2>1. Escape(c) = <<"%", "2", "B">>
    BY <1>5 DEF Escape
  <2>2. e = s + 3 /\ w[s + 1] = "%" /\ w[s + 2] = "2" /\ w[s + 3] = "B"
    BY <1>1, <2>1
  <2> QED
    BY <1>5, <2>2, HexIs DEF EscapeAt
<1>6. CASE c = "%"
  <2>1. Escape(c) = <<"%", "2", "5">>
    BY <1>6 DEF Escape
  <2>2. e = s + 3 /\ w[s + 1] = "%" /\ w[s + 2] = "2" /\ w[s + 3] = "5"
    BY <1>1, <2>1
  <2> QED
    BY <1>6, <2>2, HexIs DEF EscapeAt
<1>7. CASE c = "="
  <2>1. Escape(c) = <<"%", "3", "D">>
    BY <1>7 DEF Escape
  <2>2. e = s + 3 /\ w[s + 1] = "%" /\ w[s + 2] = "3" /\ w[s + 3] = "D"
    BY <1>1, <2>1
  <2> QED
    BY <1>7, <2>2, HexIs DEF EscapeAt
<1>8. CASE c \notin {" ", "&", "+", "%", "="}
  <2>1. Escape(c) = <<c>>
    BY <1>8 DEF Escape
  <2>2. e = s + 1 /\ w[e] = c
    BY <1>2, <2>1
  <2> QED
    BY <1>8, <2>2 DEF EscapeAt
<1> QED
  BY <1>3, <1>4, <1>5, <1>6, <1>7, <1>8

\* The characters of a value are written one after the other.
LEMMA EscapesAre ==
  ASSUME NEW value \in Seq(Characters)
  PROVE  \E at : EscapesAt(at, value, Written(value))
<1> DEFINE n == Len(value)
           ss == [i \in DOMAIN value |-> Escape(value[i])]
           w == Written(value)
<1>1. n \in Nat /\ DOMAIN value = 1..n /\ \A i \in 1..n : value[i] \in Characters
  OBVIOUS
<1>2. w \in Seq(Plain) /\ \E at : Laid(at, ss, w)
  BY WrittenIs
<1>3. Len(ss) = n /\ \A i \in 1..n : ss[i] = Escape(value[i])
  BY <1>1
<1> HIDE DEF ss, w
<1>4. PICK at : Laid(at, ss, w)
  BY <1>2
<1>5. /\ at \in [1..n + 1 -> Nat] /\ at[1] = 0 /\ at[n + 1] = Len(w)
      /\ \A i \in 1..n : /\ at[i + 1] = at[i] + Len(ss[i]) /\ at[i + 1] <= Len(w)
                        /\ \A k \in 1..Len(ss[i]) : w[at[i] + k] = ss[i][k]
  BY <1>3, <1>4 DEF Laid
<1>6. Len(w) \in Nat
  BY <1>2
<1>7. ASSUME NEW i \in 1..n PROVE EscapeAt(w, at[i], at[i + 1], value[i])
  <2>1. i \in 1..n + 1 /\ i + 1 \in 1..n + 1
    BY <1>1
  <2>2. at[i] \in Nat /\ at[i + 1] \in Nat /\ value[i] \in Characters
    BY <1>1, <1>5, <2>1
  <2>3. /\ at[i + 1] = at[i] + Len(Escape(value[i])) /\ at[i + 1] <= Len(w)
        /\ \A k \in 1..Len(Escape(value[i])) : w[at[i] + k] = Escape(value[i])[k]
    BY <1>3, <1>5
  <2> QED
    BY <1>6, <2>2, <2>3, EscapedAt
<1> QED
  BY <1>5, <1>7 DEF EscapesAt, w

\* A row of the table of mg_url_decode, from the row before it.
Row(src, from, r) ==
  [i \in 1..Len(src) + 1 |->
    IF r = 0 \/ i > Len(src) THEN Decoded ELSE decode_char(src, i, from[r - 1])]

Table(src, from, n) == from = [r \in 0..n |-> Row(src, from, r)]

\* The recursion of mg_url_decode has a solution.
LEMMA DecodeRecursion ==
  ASSUME NEW n \in Nat, NEW src
  PROVE  \E f : Table(src, f, n)
<1> DEFINE Solved(m) == \E f : Table(src, f, m)
           T == {m \in 0..n : Solved(m)}
<1>1. Solved(0)
  <2> DEFINE f == [r \in 0..0 |-> [i \in 1..Len(src) + 1 |-> Decoded]]
  <2>1. \A r \in 0..0 : r = 0
    OBVIOUS
  <2>2. f = [r \in 0..0 |-> Row(src, f, r)]
    BY <2>1 DEF Row
  <2> QED
    BY <2>2 DEF Table
<1>2. ASSUME NEW m \in 0..n-1, Solved(m)
      PROVE  Solved(m + 1)
  <2>1. PICK f : f = [r \in 0..m |-> Row(src, f, r)]
    BY <1>2 DEF Table
  <2> DEFINE g == [r \in 0..m+1 |-> IF r <= m THEN f[r] ELSE Row(src, f, r)]
  <2>2. \A r \in 0..m : f[r] = Row(src, f, r)
    BY <2>1
  <2>3. ASSUME NEW r \in 0..m+1
        PROVE  g[r] = Row(src, g, r)
    <3>1. Row(src, f, r) = Row(src, g, r)
      <4>1. CASE r = 0
        BY <4>1 DEF Row
      <4>2. CASE r # 0
        <5>1. r - 1 \in 0..m /\ r - 1 \in 0..m+1
          BY <4>2
        <5>2. g[r - 1] = f[r - 1]
          BY <5>1
        <5> HIDE DEF g
        <5> QED
          BY <5>2 DEF Row
      <4> QED
        BY <4>1, <4>2
    <3>2. g[r] = Row(src, f, r)
      <4>1. CASE r <= m
        <5>1. r \in 0..m
          BY <4>1
        <5> QED
          BY <2>2, <4>1, <5>1
      <4>2. CASE r = m + 1
        BY <4>2
      <4> QED
        BY <4>1, <4>2
    <3> QED
      BY <3>1, <3>2
  <2>4. g = [r \in 0..m+1 |-> Row(src, g, r)]
    BY <2>3
  <2> QED
    BY <2>4 DEF Table
<1>3. T = 0..n
  <2> HIDE DEF Solved
  <2>1. T \in SUBSET (0..n) /\ 0 \in T
    BY <1>1
  <2>2. \A m \in 0..n-1 : m \in T => m + 1 \in T
    BY <1>2
  <2> HIDE DEF T
  <2> QED
    BY <2>1, <2>2, Induct
<1>4. n \in T
  <2> HIDE DEF T
  <2> QED
    BY <1>3
<1> QED
  BY <1>4

\* mg_url_decode reads its result out of such a table.
LEMMA DecodeIs ==
  ASSUME NEW room \in Nat, NEW src
  PROVE  \E f : Table(src, f, room) /\ mg_url_decode(src, room) = f[room][1]
<1> DEFINE from == CHOOSE f : f = [r \in 0..room |->
             [i \in 1..Len(src) + 1 |->
               IF r = 0 \/ i > Len(src) THEN Decoded ELSE decode_char(src, i, f[r - 1])]]
<1>1. from = [r \in 0..room |->
             [i \in 1..Len(src) + 1 |->
               IF r = 0 \/ i > Len(src) THEN Decoded ELSE decode_char(src, i, from[r - 1])]]
  <2>1. \E f : f = [r \in 0..room |->
             [i \in 1..Len(src) + 1 |->
               IF r = 0 \/ i > Len(src) THEN Decoded ELSE decode_char(src, i, f[r - 1])]]
    <3>1. PICK f : Table(src, f, room)
      BY DecodeRecursion
    <3>2. f = [r \in 0..room |->
             [i \in 1..Len(src) + 1 |->
               IF r = 0 \/ i > Len(src) THEN Decoded ELSE decode_char(src, i, f[r - 1])]]
      BY <3>1, Zenon DEF Table, Row
    <3> QED
      BY <3>2, Zenon
  <2> QED
    BY <2>1, Zenon
<1>2. mg_url_decode(src, room) = from[room][1]
  BY Zenon DEF mg_url_decode
<1> QED
  BY <1>1, <1>2, Zenon DEF Table, Row

\* What has come of the bytes w, which may be cut off anywhere.
CutOff(src, w) ==
  /\ src \in Seq(Plain) /\ w \in Seq(Plain) /\ Len(src) <= Len(w)
  /\ \A i \in 1..Len(src) : src[i] = w[i]

\* One turn of the loop, at a character that is written between s and e.
Turn(src, s, e, c, rest) ==
  /\ e <= Len(src) => decode_char(src, s + 1, rest) = Then(c, rest[e + 1])
  /\ e > Len(src) => decode_char(src, s + 1, rest) = Malformed

\* The loop takes a character that is there whole, and fails at one that is cut.
LEMMA DecodeChar ==
  ASSUME NEW w, NEW src, CutOff(src, w),
         NEW s, NEW e, NEW c, EscapeAt(w, s, e, c), s < Len(src), NEW rest
  PROVE  Turn(src, s, e, c, rest)
<1>5. /\ src \in Seq(Plain) /\ w \in Seq(Plain) /\ Len(src) <= Len(w)
      /\ Len(src) \in Nat /\ Len(w) \in Nat
      /\ \A i \in 1..Len(src) : src[i] = w[i]
  BY DEF CutOff
<1>1. Len(src) \in Nat /\ Len(w) \in Nat /\ s \in Nat /\ e \in Nat
  BY <1>5, Zenon DEF EscapeAt
<1>2. s + 1 \in 1..Len(src) /\ src[s + 1] = w[s + 1]
  BY <1>1, <1>5
<1>3. CASE e = s + 1 /\ w[e] # "%" /\ c = IF w[e] = "+" THEN " " ELSE w[e]
  <2>1. decode_char(src, s + 1, rest) = Then(IF src[s + 1] = "+" THEN " " ELSE src[s + 1], rest[s + 1 + 1])
    BY <1>2, <1>3 DEF decode_char
  <2>4. e = s + 1
    BY <1>3
  <2>2. e <= Len(src) /\ ~(e > Len(src))
    BY <1>1, <2>4
  <2>3. decode_char(src, s + 1, rest) = Then(c, rest[e + 1])
    BY <1>2, <1>3, <2>1
  <2> QED
    BY <2>2, <2>3 DEF Turn
<1>4. CASE /\ e = s + 3 /\ w[s + 1] = "%"
           /\ <<w[s + 2], w[s + 3]>> \in DOMAIN Hex /\ c = Hex[<<w[s + 2], w[s + 3]>>]
  <2>1. s + 1 + 1 = s + 2 /\ s + 1 + 2 = s + 3 /\ s + 1 + 3 = e + 1
    BY <1>1, <1>4
  <2>2. decode_char(src, s + 1, rest) =
          IF s + 3 <= Len(src) /\ <<src[s + 2], src[s + 3]>> \in DOMAIN Hex
          THEN Then(Hex[<<src[s + 2], src[s + 3]>>], rest[e + 1])
          ELSE Malformed
    BY <1>2, <1>4, <2>1 DEF decode_char
  <2>3. CASE e <= Len(src)
    <3>1. s + 2 \in 1..Len(src) /\ s + 3 \in 1..Len(src)
      BY <1>1, <1>4, <2>3
    <3>2. src[s + 2] = w[s + 2] /\ src[s + 3] = w[s + 3]
      BY <1>5, <3>1
    <3> QED
      BY <1>1, <1>4, <2>2, <2>3, <3>2 DEF Turn
  <2>4. CASE e > Len(src)
    BY <1>1, <1>4, <2>2, <2>4 DEF Turn
  <2> QED
    BY <1>1, <2>3, <2>4
<1> QED
  BY <1>3, <1>4 DEF EscapeAt

\* x is what is decoded of the value from its k-th character on, into r places.
Reads(x, value, k, r, whole) ==
  \E j \in k - 1..Len(value), b \in BOOLEAN :
    /\ x = [text |-> SubSeq(value, k, j), ended |-> b]
    /\ j <= k - 1 + r
    /\ whole => b = TRUE /\ (j = Len(value) \/ j = k - 1 + r)

\* At the end, or without room, nothing is read,
LEMMA ReadsNothing ==
  ASSUME NEW value, NEW n \in Nat, Len(value) = n, NEW k \in 1..n + 1, NEW r \in Nat, NEW whole \in BOOLEAN,
         NEW b \in BOOLEAN,
         whole => b = TRUE /\ (k = n + 1 \/ r = 0)
  PROVE  Reads([text |-> <<>>, ended |-> b], value, k, r, whole)
<1>1. PICK j \in Nat : j = k - 1
  OBVIOUS
<1>2. SubSeq(value, k, j) = <<>>
  BY <1>1, SubSeqEmpty
<1>3. j \in k - 1..n /\ j <= k - 1 + r
  BY <1>1
<1>4. whole => b = TRUE /\ (j = n \/ j = k - 1 + r)
  BY <1>1
<1> QED
  BY <1>2, <1>3, <1>4 DEF Reads

\* and one character more than what is read after it.
LEMMA ReadsOne ==
  ASSUME NEW value \in Seq(Characters), NEW n \in Nat, Len(value) = n, NEW k \in 1..n, NEW r \in Nat,
         NEW whole, NEW rest, Reads(rest, value, k + 1, r, whole)
  PROVE  Reads(Then(value[k], rest), value, k, r + 1, whole)
<1>0. \E j \in (k + 1) - 1..Len(value), b \in BOOLEAN :
        /\ rest = [text |-> SubSeq(value, k + 1, j), ended |-> b]
        /\ j <= (k + 1) - 1 + r
        /\ whole => b = TRUE /\ (j = Len(value) \/ j = (k + 1) - 1 + r)
  BY Zenon DEF Reads
<1> DEFINE l == (k + 1) - 1
<1>1. PICK j \in l..Len(value), b \in BOOLEAN :
        /\ rest = [text |-> SubSeq(value, k + 1, j), ended |-> b]
        /\ j <= l + r
        /\ whole => b = TRUE /\ (j = Len(value) \/ j = l + r)
  BY <1>0, Zenon
<1>2. l = k /\ Len(value) = n
  OBVIOUS
<1> HIDE DEF l
<1>7. /\ j \in k..n /\ j <= k + r
      /\ whole => b = TRUE /\ (j = n \/ j = k + r)
  BY <1>1, <1>2
<1>8. (k - 1) + (r + 1) = k + r
  OBVIOUS
<1>3. SubSeq(value, k, j) = <<value[k]>> \o SubSeq(value, k + 1, j)
  BY <1>7, SubSeqRecursiveFirst
<1>4. Then(value[k], rest) = [text |-> SubSeq(value, k, j), ended |-> b]
  <2>1. \A t, u, x : /\ [[text |-> t, ended |-> u] EXCEPT !.text = x] = [text |-> x, ended |-> u]
                     /\ [text |-> t, ended |-> u].text = t
    OBVIOUS
  <2>2. Then(value[k], rest) = [rest EXCEPT !.text = <<value[k]>> \o rest.text]
    BY DEF Then
  <2>3. rest = [text |-> SubSeq(value, k + 1, j), ended |-> b]
    BY <1>1, Zenon
  <2>4. rest.text = SubSeq(value, k + 1, j)
    BY <2>1, <2>3, Zenon
  <2>5. Then(value[k], rest) =
          [[text |-> SubSeq(value, k + 1, j), ended |-> b] EXCEPT !.text = <<value[k]>> \o SubSeq(value, k + 1, j)]
    BY <2>2, <2>3, <2>4, Zenon
  <2>6. Then(value[k], rest) = [text |-> <<value[k]>> \o SubSeq(value, k + 1, j), ended |-> b]
    BY <2>1, <2>5, Zenon
  <2> QED
    BY <1>3, <2>6, Zenon
<1>5. j \in k - 1..Len(value) /\ j <= (k - 1) + (r + 1)
  BY <1>2, <1>7
<1>6. whole => b = TRUE /\ (j = Len(value) \/ j = (k - 1) + (r + 1))
  BY <1>2, <1>7, <1>8, Zenon
<1> QED
  BY <1>4, <1>5, <1>6, Zenon DEF Reads

\* A value that is written, and cut off after q bytes, is decoded up to there.
LEMMA DecodedIs ==
  ASSUME NEW value \in Seq(Characters), NEW q \in 0..Len(Written(value)), NEW room \in Nat
  PROVE  Reads(mg_url_decode(SubSeq(Written(value), 1, q), room), value, 1, room, q = Len(Written(value)))
<1> DEFINE w == Written(value)
           n == Len(value)
           src == SubSeq(w, 1, q)
           whole == q = Len(w)
<1>1. n \in Nat /\ w \in Seq(Plain) /\ Len(w) \in Nat
  BY WrittenIs
<1>2. PICK at : EscapesAt(at, value, w)
  BY EscapesAre
<1>3. q \in Nat /\ q <= Len(w)
  BY <1>1
<1>4. src \in Seq(Plain) /\ Len(src) = q /\ \A i \in 1..q : src[i] = w[i]
  <2> HIDE DEF w
  <2>1. /\ SubSeq(w, 0 + 1, q) \in Seq(Plain) /\ Len(SubSeq(w, 0 + 1, q)) = q - 0
        /\ \A i \in 1..q - 0 : SubSeq(w, 0 + 1, q)[i] = w[0 + i]
    BY <1>1, <1>3, Window
  <2> QED
    BY <1>3, <2>1
<1>14. whole \in BOOLEAN
  BY Zenon
<1> HIDE DEF w, src, n
<1>5. /\ at[1] = 0 /\ at[n + 1] = Len(w)
      /\ \A i \in 1..n : EscapeAt(w, at[i], at[i + 1], value[i])
  BY <1>2 DEF EscapesAt, n
<1>6. PICK f : Table(src, f, room) /\ mg_url_decode(src, room) = f[room][1]
  BY DecodeIs
<1>7. \A r \in 0..room : f[r] = Row(src, f, r)
  BY <1>6 DEF Table
<1>8. \A r \in 0..room : \A i \in 1..q + 1 :
        f[r][i] = IF r = 0 \/ i > q THEN Decoded ELSE decode_char(src, i, f[r - 1])
  BY <1>4, <1>7 DEF Row
<1>9. \A k \in 1..n + 1 : at[k] \in Nat
  <2> SUFFICES ASSUME NEW k \in 1..n + 1 PROVE at[k] \in Nat
    OBVIOUS
  <2>1. CASE k = n + 1
    BY <1>1, <1>5, <2>1
  <2>2. CASE k \in 1..n
    BY <1>5, <2>2 DEF EscapeAt
  <2> QED
    BY <1>1, <2>1, <2>2
<1>15. Len(value) = n
  BY DEF n
<1>16. whole <=> q = Len(w)
  OBVIOUS
<1> HIDE DEF whole
<1> DEFINE Good(r) == \A k \in 1..n + 1 : at[k] <= q => Reads(f[r][at[k] + 1], value, k, r, whole)
<1>10. Good(0)
  <2> SUFFICES ASSUME NEW k \in 1..n + 1, at[k] <= q
               PROVE  Reads(f[0][at[k] + 1], value, k, 0, whole)
    OBVIOUS
  <2>1. at[k] + 1 \in 1..q + 1
    BY <1>3, <1>9
  <2>2. f[0][at[k] + 1] = [text |-> <<>>, ended |-> TRUE]
    BY <1>8, <2>1 DEF Decoded
  <2> QED
    BY <1>1, <1>14, <1>15, <2>2, ReadsNothing
<1>11. ASSUME NEW r \in 0..room - 1, Good(r)
       PROVE  Good(r + 1)
  <2> SUFFICES ASSUME NEW k \in 1..n + 1, at[k] <= q
               PROVE  Reads(f[r + 1][at[k] + 1], value, k, r + 1, whole)
    OBVIOUS
  <2>1. PICK s \in Nat : s = at[k] /\ s <= q /\ s + 1 \in 1..q + 1
    BY <1>3, <1>9
  <2>2. r + 1 \in 0..room /\ r + 1 # 0 /\ (r + 1) - 1 = r /\ r + 1 \in Nat /\ r \in Nat
    OBVIOUS
  <2>3. f[r + 1][s + 1] = IF s + 1 > q THEN Decoded ELSE decode_char(src, s + 1, f[r])
    BY <1>8, <2>1, <2>2
  <2>4. CASE k = n + 1
    <3>1. s = Len(w) /\ s + 1 > q
      BY <1>1, <1>3, <1>5, <2>1, <2>4
    <3>2. f[r + 1][s + 1] = [text |-> <<>>, ended |-> TRUE]
      BY <2>3, <3>1 DEF Decoded
    <3> QED
      BY <1>1, <1>14, <1>15, <2>1, <2>2, <2>4, <3>2, ReadsNothing
  <2>5. CASE k # n + 1
    <3>1. k \in 1..n /\ k + 1 \in 1..n + 1
      BY <1>1, <2>5
    <3>2. PICK e : e = at[k + 1] /\ EscapeAt(w, s, e, value[k])
      BY <1>5, <2>1, <3>1
    <3>3. e \in Nat /\ e <= Len(w) /\ s < e
      <4>1. e \in Nat /\ e <= Len(w)
        BY <3>2, Zenon DEF EscapeAt
      <4>2. e = s + 1 \/ e = s + 3
        BY <3>2, Zenon DEF EscapeAt
      <4> QED
        BY <4>1, <4>2
    <3>4. CASE s = q
      <4>1. s + 1 > q /\ ~whole
        BY <1>1, <1>3, <1>16, <2>1, <3>3, <3>4
      <4>2. f[r + 1][s + 1] = [text |-> <<>>, ended |-> TRUE]
        BY <2>3, <4>1 DEF Decoded
      <4> QED
        BY <1>1, <1>14, <1>15, <2>1, <2>2, <4>1, <4>2, ReadsNothing
    <3>5. CASE s < q
      <4>1. ~(s + 1 > q)
        BY <1>3, <2>1, <3>5
      <4>2. f[r + 1][s + 1] = decode_char(src, s + 1, f[r])
        BY <2>3, <4>1
      <4>3. /\ e <= q => decode_char(src, s + 1, f[r]) = Then(value[k], f[r][e + 1])
            /\ e > q => decode_char(src, s + 1, f[r]) = Malformed
        <5>1. Len(src) = q /\ s < Len(src)
          BY <1>4, <3>5
        <5>2. CutOff(src, w)
          BY <1>1, <1>3, <1>4 DEF CutOff
        <5>3. Turn(src, s, e, value[k], f[r])
          BY <3>2, <5>1, <5>2, DecodeChar
        <5> QED
          BY <5>1, <5>3 DEF Turn
      <4>4. CASE e <= q
        <5>1. Reads(f[r][e + 1], value, k + 1, r, whole)
          BY <1>11, <3>1, <3>2, <4>4
        <5> QED
          BY <1>1, <2>1, <2>2, <3>1, <4>2, <4>3, <4>4, <5>1, <1>15, ReadsOne
      <4>5. CASE e > q
        <5>1. ~whole
          BY <1>1, <1>3, <1>16, <3>3, <4>5
        <5>2. f[r + 1][s + 1] = [text |-> <<>>, ended |-> FALSE]
          BY <4>2, <4>3, <4>5 DEF Malformed
        <5> QED
          BY <1>1, <1>14, <1>15, <2>1, <2>2, <5>1, <5>2, ReadsNothing
      <4> QED
        BY <1>3, <3>3, <4>4, <4>5
    <3> QED
      BY <1>3, <2>1, <3>4, <3>5
  <2> QED
    BY <2>4, <2>5
<1>12. Good(room)
  <2> DEFINE T == {r \in 0..room : Good(r)}
  <2> HIDE DEF Good
  <2>1. T \in SUBSET (0..room) /\ 0 \in T
    BY <1>10
  <2>2. \A r \in 0..room - 1 : r \in T => r + 1 \in T
    BY <1>11
  <2>3. T = 0..room
    <3> HIDE DEF T
    <3> QED
      BY <2>1, <2>2, Induct
  <2>4. room \in T
    <3> HIDE DEF T
    <3> QED
      BY <2>3
  <2> QED
    BY <2>4
<1>13. Reads(f[room][1], value, 1, room, whole)
  <2>1. 1 \in 1..n + 1 /\ at[1] <= q /\ at[1] + 1 = 1
    BY <1>1, <1>3, <1>5
  <2> QED
    BY <1>12, <2>1
<1> QED
  BY <1>6, <1>13, Zenon DEF src, w, whole

\* Nothing at all is ended before it is decoded.
Ends(d) == [d EXCEPT !.ended = d.ended \/ d.text = <<>>]

\* The field is at s, and nowhere else, and its value ends before t.
FieldAt(y, n, key, s, t) ==
  /\ n \in Nat /\ Len(y) = n
  /\ s \in 1..n - 1 /\ \A i \in 1..n - 1 : y[i] = key <=> i = s
  /\ y[s + 1] = "=" /\ (s = 1 \/ y[s - 1] = "&")
  /\ t \in s + 2..n + 1 /\ (\A i \in s + 2..t - 1 : y[i] # "&") /\ (t = n + 1 \/ y[t] = "&")

\* The value of a field that is there,
LEMMA VarAt ==
  ASSUME NEW y, NEW n, NEW key, NEW s, NEW t, FieldAt(y, n, key, s, t)
  PROVE  mg_get_http_var(y, key) = Ends(mg_url_decode(SubSeq(y, s + 2, t - 1), FieldSize - 1))
<1>0. /\ n \in Nat /\ Len(y) = n
      /\ s \in 1..n - 1 /\ \A i \in 1..n - 1 : y[i] = key <=> i = s
      /\ y[s + 1] = "=" /\ (s = 1 \/ y[s - 1] = "&")
      /\ t \in s + 2..n + 1 /\ (\A i \in s + 2..t - 1 : y[i] # "&") /\ (t = n + 1 \/ y[t] = "&")
  BY Zenon DEF FieldAt
<1> DEFINE d == mg_url_decode(SubSeq(y, s + 2, t - 1), FieldSize - 1)
           starts == {i \in 1..Len(y) - 1 :
                        y[i] = key /\ y[i + 1] = "=" /\ (i = 1 \/ y[i - 1] = "&")}
           from == Min(starts) + 2
           ends == {i \in from..Len(y) : y[i] = "&"} \cup {Len(y) + 1}
           c == mg_url_decode(SubSeq(y, from, Min(ends) - 1), FieldSize - 1)
<1>1. mg_get_http_var(y, key) =
        IF starts = {} THEN Decoded ELSE [c EXCEPT !.ended = c.ended \/ c.text = <<>>]
  BY DEF mg_get_http_var
<1>2. starts \subseteq Nat /\ s \in starts /\ \A i \in starts : s <= i
  BY <1>0
<1> HIDE DEF starts
<1>3. Min(starts) = s
  BY <1>2, LeastIs
<1>4. from = s + 2
  BY <1>0, <1>3
<1> HIDE DEF from
<1>5. ends \subseteq Nat /\ t \in ends /\ \A i \in ends : t <= i
  BY <1>0, <1>4
<1> HIDE DEF ends
<1>6. Min(ends) = t
  BY <1>5, LeastIs
<1>7. c = d
  BY <1>4, <1>6, Zenon
<1>8. starts # {}
  BY <1>2
<1> QED
  BY <1>1, <1>7, <1>8, Zenon DEF Ends

\* and of one that is not.
LEMMA VarMissing ==
  ASSUME NEW y, NEW n \in Nat, Len(y) = n, NEW key, \A i \in 1..n - 1 : y[i] # key
  PROVE  mg_get_http_var(y, key) = Decoded
<1>1. {i \in 1..Len(y) - 1 : y[i] = key /\ y[i + 1] = "=" /\ (i = 1 \/ y[i - 1] = "&")} = {}
  OBVIOUS
<1> QED
  BY <1>1 DEF mg_get_http_var

\* What handleConnectWifi has of a value that was typed.
Obtained(x, value, whole) ==
  /\ IsPrefix(x.text, Entered(value))
  /\ whole => x = [text |-> Entered(value), ended |-> TRUE]

\* What a variable holds of a value begins it.
LEMMA EnteredIs ==
  ASSUME NEW value \in Seq(Characters)
  PROVE  \E z \in 0..Len(value) :
           /\ Entered(value) = SubSeq(value, 1, z)
           /\ z <= FieldSize - 1 /\ (z = Len(value) \/ z = FieldSize - 1)
<1>1. Len(value) \in Nat /\ FieldSize - 1 \in Nat
  BY HttpAssumption
<1>2. PICK n \in Nat, room \in Nat : n = Len(value) /\ room = FieldSize - 1
  BY <1>1
<1>3. PICK z \in {n, room} : z <= n /\ z <= room
  OBVIOUS
<1> DEFINE T == {n, room}
<1>6. T \subseteq Nat /\ z \in T /\ \A m \in T : z <= m
  BY <1>3
<1>4. Min(T) = z
  <2> HIDE DEF T
  <2> QED
    BY <1>6, LeastIs
<1>5. Entered(value) = SubSeq(value, 1, z)
  BY <1>2, <1>4, Zenon DEF Entered
<1> QED
  BY <1>2, <1>3, <1>5

\* What begins a value is a prefix of what begins it for longer.
LEMMA PrefixOf ==
  ASSUME NEW value \in Seq(Characters), NEW z \in 0..Len(value), NEW j \in 0..z
  PROVE  IsPrefix(SubSeq(value, 1, j), SubSeq(value, 1, z))
<1>1. PICK n \in Nat : n = Len(value)
  OBVIOUS
<1>2. /\ SubSeq(value, 0 + 1, j) \in Seq(Characters) /\ Len(SubSeq(value, 0 + 1, j)) = j - 0
      /\ SubSeq(value, 0 + 1, z) \in Seq(Characters) /\ Len(SubSeq(value, 0 + 1, z)) = z - 0
  BY <1>1, Window
<1>3. /\ SubSeq(SubSeq(value, 0 + 1, z), 0 + 1, j) = SubSeq(value, 0 + 0 + 1, 0 + j)
      /\ SubSeq(SubSeq(value, 0 + 1, j), 0 + 1, j) = SubSeq(value, 0 + 0 + 1, 0 + j)
  BY <1>1, WindowIn
<1>4. 0 + 1 = 1 /\ 0 + 0 + 1 = 1 /\ 0 + j = j /\ j - 0 = j /\ z - 0 = z /\ j <= z
  OBVIOUS
<1>5. Len(SubSeq(value, 1, j)) = j /\ Len(SubSeq(value, 1, z)) = z
  BY <1>2, <1>4
<1>6. SubSeq(SubSeq(value, 1, z), 1, j) = SubSeq(SubSeq(value, 1, j), 1, j)
  BY <1>3, <1>4
<1> QED
  BY <1>4, <1>5, <1>6 DEF IsPrefix

\* Of what is decoded only the end can change.
LEMMA EndsIs ==
  ASSUME NEW t, NEW u, NEW d, d = [text |-> t, ended |-> u]
  PROVE  Ends(d) = [text |-> t, ended |-> (u \/ t = <<>>)]
<1>1. d.text = t /\ d.ended = u
  OBVIOUS
<1>2. \A v : [d EXCEPT !.ended = v] = [text |-> t, ended |-> v]
  OBVIOUS
<1>3. [d EXCEPT !.ended = (u \/ t = <<>>)] = [text |-> t, ended |-> (u \/ t = <<>>)]
  BY <1>2
<1> QED
  BY <1>1, <1>3 DEF Ends

\* What is decoded of a value is a part of what was typed, or all that fits.
LEMMA ReadsObtains ==
  ASSUME NEW value \in Seq(Characters), NEW whole \in BOOLEAN, NEW d,
         Reads(d, value, 1, FieldSize - 1, whole)
  PROVE  Obtained(Ends(d), value, whole)
<1>1. PICK z \in 0..Len(value) :
        /\ Entered(value) = SubSeq(value, 1, z)
        /\ z <= FieldSize - 1 /\ (z = Len(value) \/ z = FieldSize - 1)
  BY EnteredIs
<1>2. FieldSize - 1 \in Nat /\ Len(value) \in Nat
  BY HttpAssumption
<1>3. PICK room \in Nat : room = FieldSize - 1
  BY <1>2
<1>4. \E j \in 1 - 1..Len(value), b \in BOOLEAN :
        /\ d = [text |-> SubSeq(value, 1, j), ended |-> b]
        /\ j <= 1 - 1 + room
        /\ whole => b = TRUE /\ (j = Len(value) \/ j = 1 - 1 + room)
  BY <1>3, Zenon DEF Reads
<1>5. PICK j \in 1 - 1..Len(value), b \in BOOLEAN :
        /\ d = [text |-> SubSeq(value, 1, j), ended |-> b]
        /\ j <= 1 - 1 + room
        /\ whole => b = TRUE /\ (j = Len(value) \/ j = 1 - 1 + room)
  BY <1>4, Zenon
<1>6. j \in 0..z /\ (whole => j = z /\ b = TRUE)
  BY <1>1, <1>2, <1>3, <1>5
<1> DEFINE x == Ends(d)
<1>8. x = [text |-> SubSeq(value, 1, j), ended |-> (b \/ SubSeq(value, 1, j) = <<>>)]
  BY <1>5, EndsIs, Zenon
<1> HIDE DEF x
<1>9. x.text = SubSeq(value, 1, j)
  BY <1>8
<1>10. IsPrefix(x.text, Entered(value))
  BY <1>1, <1>6, <1>9, PrefixOf, Zenon
<1>11. ASSUME whole PROVE x = [text |-> Entered(value), ended |-> TRUE]
  <2>1. j = z /\ b = TRUE
    BY <1>6, <1>11
  <2>2. (b \/ SubSeq(value, 1, j) = <<>>) = TRUE
    BY <2>1, Zenon
  <2> QED
    BY <1>1, <1>8, <2>1, <2>2, Zenon
<1> QED
  BY <1>10, <1>11, Zenon DEF Obtained, x

\* Nothing is a prefix of what was typed.
LEMMA NothingObtained ==
  ASSUME NEW value \in Seq(Characters)
  PROVE  Obtained(Decoded, value, FALSE)
<1>1. PICK z \in 0..Len(value) : Entered(value) = SubSeq(value, 1, z)
  BY EnteredIs
<1>2. z \in Nat /\ 0 \in 0..z
  OBVIOUS
<1>3. IsPrefix(SubSeq(value, 1, 0), SubSeq(value, 1, z))
  BY <1>2, PrefixOf
<1>4. SubSeq(value, 1, 0) = <<>>
  BY SubSeqEmpty
<1>5. Decoded.text = <<>>
  BY DEF Decoded
<1> QED
  BY <1>1, <1>3, <1>4, <1>5, Zenon DEF Obtained

\* The same of a field, of which the buffer has the first q bytes.
LEMMA FieldRead ==
  ASSUME NEW value \in Seq(Characters), NEW q \in 0..Len(Written(value)),
         NEW y, NEW n, NEW key, NEW s, NEW t, FieldAt(y, n, key, s, t),
         SubSeq(y, s + 2, t - 1) = SubSeq(Written(value), 1, q)
  PROVE  Obtained(mg_get_http_var(y, key), value, q = Len(Written(value)))
<1> DEFINE d == mg_url_decode(SubSeq(y, s + 2, t - 1), FieldSize - 1)
<1>2. mg_get_http_var(y, key) = Ends(d)
  BY VarAt
<1>3. FieldSize - 1 \in Nat
  BY HttpAssumption
<1>4. PICK whole \in BOOLEAN : whole = (q = Len(Written(value)))
  OBVIOUS
<1>5. Reads(d, value, 1, FieldSize - 1, whole)
  <2>1. Reads(mg_url_decode(SubSeq(Written(value), 1, q), FieldSize - 1), value, 1, FieldSize - 1,
              q = Len(Written(value)))
    BY <1>3, DecodedIs, Zenon
  <2> QED
    BY <1>4, <2>1, Zenon
<1>6. Obtained(Ends(d), value, whole)
  BY <1>5, ReadsObtains, Zenon
<1> QED
  BY <1>2, <1>4, <1>6, Zenon

\* What is found of a field may be less than the whole of it.
LEMMA ObtainsLess ==
  ASSUME NEW x, NEW value, NEW whole, Obtained(x, value, whole), NEW part, part => whole
  PROVE  Obtained(x, value, part)
BY Zenon DEF Obtained

\* The names and the separator are where the form has them, and nowhere else.
LEMMA FormTokens ==
  ASSUME NEW e \in Seq(Plain), NEW f \in Seq(Plain), NEW l \in Nat, Len(e) = l,
         NEW B, IsForm(B, e, f, l), NEW i \in 1..Len(B)
  PROVE  (B[i] = "ssid" <=> i = 1) /\ (B[i] = "&" <=> i = 3 + l) /\ (B[i] = "pwd" <=> i = 4 + l)
<1>1. PICK d \in Nat : d = Len(f)
  OBVIOUS
<1>2. \A x \in Plain : x # "ssid" /\ x # "&" /\ x # "pwd"
  BY DEF Plain
<1>3. /\ Len(B) = 5 + l + d
      /\ B[1] = "ssid" /\ B[2] = "=" /\ \A k \in 1..l : B[2 + k] = e[k]
      /\ B[3 + l] = "&" /\ B[4 + l] = "pwd" /\ B[5 + l] = "="
      /\ \A k \in 1..d : B[5 + l + k] = f[k]
  BY <1>1 DEF IsForm
<1>4. \/ i = 1 \/ i = 2 \/ i - 2 \in 1..l \/ i = 3 + l \/ i = 4 + l \/ i = 5 + l
      \/ i - (5 + l) \in 1..d
  BY <1>3
<1>5. i # 0 /\ l >= 0
  OBVIOUS
<1>6. CASE i = 1
  BY <1>3, <1>6
<1>7. CASE i = 2
  BY <1>3, <1>7
<1>8. CASE i - 2 \in 1..l
  <2>1. PICK k \in 1..l : k = i - 2
    BY <1>8
  <2>2. i = 2 + k /\ i # 1 /\ i # 3 + l /\ i # 4 + l
    BY <2>1
  <2>3. B[i] = e[k] /\ e[k] \in Plain
    BY <1>3, <2>2
  <2> QED
    BY <1>2, <2>2, <2>3
<1>9. CASE i = 3 + l
  <2>1. i # 1 /\ i # 4 + l
    BY <1>9
  <2> QED
    BY <1>3, <1>9, <2>1
<1>10. CASE i = 4 + l
  <2>1. i # 1 /\ i # 3 + l
    BY <1>10
  <2> QED
    BY <1>3, <1>10, <2>1
<1>11. CASE i = 5 + l
  <2>1. i # 1 /\ i # 3 + l /\ i # 4 + l
    BY <1>11
  <2> QED
    BY <1>3, <1>11, <2>1
<1>12. CASE i - (5 + l) \in 1..d
  <2>1. PICK k \in 1..d : k = i - (5 + l)
    BY <1>12
  <2>2. i = 5 + l + k /\ i # 1 /\ i # 3 + l /\ i # 4 + l
    BY <2>1
  <2>3. B[i] = f[k] /\ f[k] \in Plain
    BY <1>1, <1>3, <2>2
  <2> QED
    BY <1>2, <2>2, <2>3
<1> QED
  BY <1>4, <1>6, <1>7, <1>8, <1>9, <1>10, <1>11, <1>12

\* y is the first m bytes of the form.
Begins(y, B, m) == Len(y) = m /\ (\A i \in 1..m : y[i] = B[i]) /\ y \in Seq(Bytes)

\* A stretch of it that holds what begins a value.
LEMMA Stretch ==
  ASSUME NEW y \in Seq(Bytes), NEW w \in Seq(Plain), NEW b \in Nat, NEW q \in 0..Len(w),
         b + q <= Len(y), \A k \in 1..q : y[b + k] = w[k]
  PROVE  SubSeq(y, b + 1, b + q) = SubSeq(w, 1, q)
<1>1. PICK n \in Nat : n = Len(w)
  OBVIOUS
<1>2. q \in Nat /\ q <= Len(w) /\ (b + q) - b = q /\ q - 0 = q /\ 0 + 1 = 1
  BY <1>1
<1>3. /\ SubSeq(y, b + 1, b + q) \in Seq(Bytes) /\ Len(SubSeq(y, b + 1, b + q)) = (b + q) - b
      /\ \A i \in 1..(b + q) - b : SubSeq(y, b + 1, b + q)[i] = y[b + i]
  <2>1. b + q \in Nat /\ b <= b + q
    BY <1>2
  <2> QED
    BY <2>1, Window
<1>4. /\ SubSeq(w, 0 + 1, q) \in Seq(Plain) /\ Len(SubSeq(w, 0 + 1, q)) = q - 0
      /\ \A i \in 1..q - 0 : SubSeq(w, 0 + 1, q)[i] = w[0 + i]
  BY <1>2, Window
<1>5. \A i \in 1..q : SubSeq(y, b + 1, b + q)[i] = SubSeq(w, 1, q)[i]
  <2> SUFFICES ASSUME NEW i \in 1..q PROVE SubSeq(y, b + 1, b + q)[i] = SubSeq(w, 1, q)[i]
    OBVIOUS
  <2>1. 0 + i = i
    OBVIOUS
  <2> QED
    BY <1>2, <1>3, <1>4, <2>1
<1>6. SubSeq(w, 1, q) \in Seq(Bytes)
  <2>1. SubSeq(w, 1, q) \in Seq(Plain)
    BY <1>2, <1>4
  <2> QED
    BY <2>1, SeqMonotonic DEF Plain
<1>7. Len(SubSeq(y, b + 1, b + q)) = q /\ Len(SubSeq(w, 1, q)) = q
  BY <1>2, <1>3, <1>4
<1> QED
  BY <1>3, <1>5, <1>6, <1>7, SeqEqual

\* The first field of a form, wherever the form is cut off,
LEMMA SsidRead ==
  ASSUME NEW value \in Seq(Characters), NEW e, e = Written(value), NEW f \in Seq(Plain), NEW l \in Nat, Len(e) = l,
         NEW B, IsForm(B, e, f, l), NEW m \in 0..Len(B), NEW y, Begins(y, B, m)
  PROVE  Obtained(mg_get_http_var(y, "ssid"), value, m = Len(B))
<1>1. e \in Seq(Plain)
  BY WrittenIs
<1>2. PICK d \in Nat : d = Len(f)
  OBVIOUS
<1>3. /\ Len(B) = 5 + l + d /\ B[1] = "ssid" /\ B[2] = "=" /\ B[3 + l] = "&"
      /\ \A k \in 1..l : B[2 + k] = e[k]
  BY <1>2 DEF IsForm
<1>4. Len(y) = m /\ (\A i \in 1..m : y[i] = B[i]) /\ y \in Seq(Bytes)
  BY DEF Begins
<1>5. \A i \in 1..m : (y[i] = "ssid" <=> i = 1) /\ (y[i] = "&" <=> i = 3 + l)
  <2> SUFFICES ASSUME NEW i \in 1..m PROVE (y[i] = "ssid" <=> i = 1) /\ (y[i] = "&" <=> i = 3 + l)
    OBVIOUS
  <2>1. i \in 1..Len(B)
    BY <1>3
  <2> QED
    BY <1>1, <1>4, <2>1, FormTokens
<1>6. CASE m < 2
  <2>1. \A i \in 1..m - 1 : y[i] # "ssid"
    BY <1>6
  <2>2. mg_get_http_var(y, "ssid") = Decoded
    BY <1>4, <2>1, VarMissing
  <2>3. ~(m = Len(B))
    BY <1>3, <1>6
  <2>4. Obtained(Decoded, value, FALSE)
    BY NothingObtained
  <2> QED
    BY <2>2, <2>3, <2>4, ObtainsLess, Zenon
<1>7. CASE m >= 2
  <2>1. PICK q \in 0..l : q + 2 <= m /\ (q + 2 = m \/ q = l)
    <3>1. CASE m - 2 \in 0..l
      <4> WITNESS m - 2 \in 0..l
      <4> QED
        BY <1>3
    <3>2. CASE m - 2 > l
      <4>1. l \in 0..l
        OBVIOUS
      <4> WITNESS l \in 0..l
      <4> QED
        BY <1>3, <3>2
    <3> QED
      BY <1>3, <1>7, <3>1, <3>2
  <2>2. q + 3 \in 1 + 2..m + 1 /\ (q + 3) - 1 = 2 + q /\ 2 + 1 = 1 + 2 /\ 1 \in 1..m - 1
    BY <1>7, <2>1
  <2>3. \A i \in 1..m - 1 : y[i] = "ssid" <=> i = 1
    BY <1>3, <1>5
  <2>4. y[1 + 1] = "="
    <3>1. 1 + 1 = 2 /\ 2 \in 1..m
      BY <1>3, <1>7
    <3> QED
      BY <1>3, <1>4, <3>1
  <2>5. \A i \in 1 + 2..(q + 3) - 1 : y[i] # "&"
    <3> SUFFICES ASSUME NEW i \in 1 + 2..(q + 3) - 1 PROVE y[i] # "&"
      OBVIOUS
    <3>1. i \in 1..m /\ i # 3 + l
      BY <2>1
    <3> QED
      BY <1>5, <3>1
  <2>6. q + 3 = m + 1 \/ y[q + 3] = "&"
    <3>1. CASE q + 2 = m
      BY <1>3, <3>1
    <3>2. CASE q + 2 # m
      <4>1. q + 3 \in 1..m /\ q + 3 = 3 + l
        BY <1>3, <2>1, <3>2
      <4> QED
        BY <1>5, <4>1
    <3> QED
      BY <3>1, <3>2
  <2>7. SubSeq(y, 1 + 2, (q + 3) - 1) = SubSeq(e, 1, q)
    <3>1. \A k \in 1..q : y[2 + k] = e[k]
      <4> SUFFICES ASSUME NEW k \in 1..q PROVE y[2 + k] = e[k]
        OBVIOUS
      <4>1. k \in 1..l /\ 2 + k \in 1..m
        BY <1>3, <2>1
      <4> QED
        BY <1>3, <1>4, <4>1
    <3>2. 2 + q <= Len(y) /\ q \in 0..Len(e)
      BY <1>3, <1>4, <2>1
    <3>3. SubSeq(y, 2 + 1, 2 + q) = SubSeq(e, 1, q)
      BY <1>1, <1>4, <3>1, <3>2, Stretch
    <3> QED
      BY <2>2, <3>3
  <2>8. m \in Nat
    BY <1>3
  <2>9. Obtained(mg_get_http_var(y, "ssid"), value, q = Len(Written(value)))
    <3>1. SubSeq(y, 1 + 2, (q + 3) - 1) = SubSeq(Written(value), 1, q)
      BY <2>7
    <3>2. q \in 0..Len(Written(value))
      OBVIOUS
    <3>3. FieldAt(y, m, "ssid", 1, q + 3)
      BY <1>4, <2>2, <2>3, <2>4, <2>5, <2>6, <2>8, Zenon DEF FieldAt
    <3> QED
      BY <3>1, <3>2, <3>3, FieldRead, Zenon
  <2>10. m = Len(B) => q = Len(Written(value))
    BY <1>3, <2>1
  <2> QED
    BY <2>9, <2>10, ObtainsLess, Zenon
<1> QED
  BY <1>3, <1>6, <1>7

\* and the second.
LEMMA PwdRead ==
  ASSUME NEW value \in Seq(Characters), NEW f, f = Written(value), NEW e \in Seq(Plain), NEW l \in Nat, Len(e) = l,
         NEW B, IsForm(B, e, f, l), NEW m \in 0..Len(B), NEW y, Begins(y, B, m)
  PROVE  Obtained(mg_get_http_var(y, "pwd"), value, m = Len(B))
<1>1. f \in Seq(Plain)
  BY WrittenIs
<1>2. PICK d \in Nat : d = Len(f)
  BY <1>1
<1>3. /\ Len(B) = 5 + l + d /\ B[3 + l] = "&" /\ B[4 + l] = "pwd" /\ B[5 + l] = "="
      /\ \A k \in 1..d : B[5 + l + k] = f[k]
  BY <1>2 DEF IsForm
<1>4. Len(y) = m /\ (\A i \in 1..m : y[i] = B[i]) /\ y \in Seq(Bytes)
  BY DEF Begins
<1>5. \A i \in 1..m : (y[i] = "pwd" <=> i = 4 + l) /\ (y[i] = "&" <=> i = 3 + l)
  <2> SUFFICES ASSUME NEW i \in 1..m PROVE (y[i] = "pwd" <=> i = 4 + l) /\ (y[i] = "&" <=> i = 3 + l)
    OBVIOUS
  <2>1. i \in 1..Len(B)
    BY <1>3
  <2> QED
    BY <1>1, <1>4, <2>1, FormTokens
<1>6. CASE m < 5 + l
  <2>1. \A i \in 1..m - 1 : y[i] # "pwd"
    <3> SUFFICES ASSUME NEW i \in 1..m - 1 PROVE y[i] # "pwd"
      OBVIOUS
    <3>1. i \in 1..m /\ i # 4 + l
      BY <1>3, <1>6
    <3> QED
      BY <1>5, <3>1
  <2>2. mg_get_http_var(y, "pwd") = Decoded
    BY <1>4, <2>1, VarMissing
  <2>3. ~(m = Len(B))
    BY <1>3, <1>6
  <2>4. Obtained(Decoded, value, FALSE)
    BY NothingObtained
  <2> QED
    BY <2>2, <2>3, <2>4, ObtainsLess, Zenon
<1>7. CASE m >= 5 + l
  <2>1. PICK q \in Nat : m = 5 + l + q
    <3>1. m - (5 + l) \in Nat /\ m = 5 + l + (m - (5 + l))
      BY <1>3, <1>7
    <3> QED
      BY <3>1
  <2>2. q \in 0..d /\ (m = Len(B) <=> q = d)
    BY <1>3, <2>1
  <2>3. PICK s \in Nat, b \in Nat : s = 4 + l /\ b = 5 + l
    OBVIOUS
  <2>4. s \in 1..m - 1 /\ m + 1 \in s + 2..m + 1 /\ (m + 1) - 1 = b + q /\ s + 2 = b + 1 /\ m \in Nat
    BY <2>1, <2>3
  <2>5. \A i \in 1..m - 1 : y[i] = "pwd" <=> i = s
    BY <1>5, <2>1, <2>3
  <2>6. y[s + 1] = "=" /\ y[s - 1] = "&"
    <3>1. s + 1 = 5 + l /\ s - 1 = 3 + l /\ s + 1 \in 1..m /\ s - 1 \in 1..m
      BY <2>1, <2>3
    <3> QED
      BY <1>3, <1>4, <3>1
  <2>7. \A i \in s + 2..(m + 1) - 1 : y[i] # "&"
    <3> SUFFICES ASSUME NEW i \in s + 2..(m + 1) - 1 PROVE y[i] # "&"
      OBVIOUS
    <3>1. i \in 1..m /\ i # 3 + l
      BY <2>1, <2>3
    <3> QED
      BY <1>5, <3>1
  <2>8. FieldAt(y, m, "pwd", s, m + 1)
    BY <1>4, <2>4, <2>5, <2>6, <2>7, Zenon DEF FieldAt
  <2>9. SubSeq(y, s + 2, (m + 1) - 1) = SubSeq(f, 1, q)
    <3>1. \A k \in 1..q : y[b + k] = f[k]
      <4> SUFFICES ASSUME NEW k \in 1..q PROVE y[b + k] = f[k]
        OBVIOUS
      <4>1. k \in 1..d /\ b + k \in 1..m /\ b + k = 5 + l + k
        BY <2>1, <2>2, <2>3
      <4> QED
        <5>1. y[b + k] = B[b + k]
          BY <1>4, <4>1
        <5>2. B[5 + l + k] = f[k]
          BY <1>3, <4>1
        <5> QED
          BY <4>1, <5>1, <5>2, Zenon
    <3>2. b + q <= Len(y) /\ q \in 0..Len(f)
      BY <1>2, <1>4, <2>1, <2>2, <2>3
    <3>3. SubSeq(y, b + 1, b + q) = SubSeq(f, 1, q)
      BY <1>1, <1>4, <3>1, <3>2, Stretch
    <3> QED
      BY <2>4, <3>3
  <2>10. Obtained(mg_get_http_var(y, "pwd"), value, q = Len(Written(value)))
    <3>1. SubSeq(y, s + 2, (m + 1) - 1) = SubSeq(Written(value), 1, q)
      BY <2>9
    <3>2. q \in 0..Len(Written(value))
      BY <1>2, <2>2
    <3> QED
      BY <2>8, <3>1, <3>2, FieldRead, Zenon
  <2>11. m = Len(B) => q = Len(Written(value))
    BY <1>2, <2>2
  <2> QED
    BY <2>10, <2>11, ObtainsLess, Zenon
<1> QED
  BY <1>3, <1>6, <1>7

LEMMA ReadObtained ==
  ASSUME NEW x, NEW z, NEW whole, NEW r,
         Obtained(x, r.fields.ssid, whole), Obtained(z, r.fields.pwd, whole),
         NEW f, f = [handled |-> TRUE, ssid |-> x, pwd |-> z]
  PROVE  Read(f, whole, r)
<1>1. f.ssid = x /\ f.pwd = z
  OBVIOUS
<1> QED
  BY <1>1, Zenon DEF Read, Obtained, Entered

\* A form is read as it should.
LEMMA FormRead ==
  ASSUME NEW r \in Requests, r.kind = "form", NEW m \in 0..Len(Body(r)),
         NEW f, f = [handled |-> TRUE, ssid |-> mg_get_http_var(SubSeq(Body(r), 1, m), "ssid"),
                     pwd |-> mg_get_http_var(SubSeq(Body(r), 1, m), "pwd")]
  PROVE  Read(f, m = Len(Body(r)), r)
<1> DEFINE B == Body(r)
           y == SubSeq(B, 1, m)
           u == Written(r.fields.ssid)
           w == Written(r.fields.pwd)
           l == Len(u)
<1>1. r.fields.ssid \in Seq(Characters) /\ r.fields.pwd \in Seq(Characters) /\ B \in Seq(Bytes)
      /\ IsForm(B, u, w, l)
  BY FormBodyIs
<1>2. u \in Seq(Plain) /\ w \in Seq(Plain)
  BY <1>1, WrittenIs
<1>3. l \in Nat
  BY <1>2
<1>4. Begins(y, B, m)
  <2> HIDE DEF B
  <2>1. m \in Nat /\ m <= Len(B) /\ m - 0 = m /\ 0 + 1 = 1 /\ \A i \in 1..m : 0 + i = i
    BY <1>1 DEF B
  <2>2. /\ SubSeq(B, 0 + 1, m) \in Seq(Bytes) /\ Len(SubSeq(B, 0 + 1, m)) = m - 0
        /\ \A i \in 1..m - 0 : SubSeq(B, 0 + 1, m)[i] = B[0 + i]
    BY <1>1, <2>1, Window
  <2> QED
    BY <2>1, <2>2 DEF Begins
<1> HIDE DEF B, y, u, w
<1>5. m \in 0..Len(B)
  BY DEF B
<1>6. Obtained(mg_get_http_var(y, "ssid"), r.fields.ssid, m = Len(B))
  <2>1. u = Written(r.fields.ssid)
    BY DEF u
  <2> QED
    BY <1>1, <1>2, <1>3, <1>4, <1>5, <2>1, SsidRead, Zenon
<1>7. Obtained(mg_get_http_var(y, "pwd"), r.fields.pwd, m = Len(B))
  <2>1. w = Written(r.fields.pwd)
    BY DEF w
  <2> QED
    BY <1>1, <1>2, <1>3, <1>4, <1>5, <2>1, PwdRead, Zenon
<1>8. f = [handled |-> TRUE, ssid |-> mg_get_http_var(y, "ssid"), pwd |-> mg_get_http_var(y, "pwd")]
  BY Zenon DEF y, B
<1>9. Read(f, m = Len(B), r)
  <2>1. PICK whole : whole = (m = Len(B))
    OBVIOUS
  <2>2. Obtained(mg_get_http_var(y, "ssid"), r.fields.ssid, whole)
    BY <1>6, <2>1, Zenon
  <2>3. Obtained(mg_get_http_var(y, "pwd"), r.fields.pwd, whole)
    BY <1>7, <2>1, Zenon
  <2>4. Read(f, whole, r)
    BY <1>8, <2>2, <2>3, ReadObtained
  <2> QED
    BY <2>1, <2>4, Zenon
<1> QED
  BY <1>9, Zenon DEF B

\* The form is handled, whole or when its client has gone.
LEMMA FormHandled ==
  ASSUME IInv, Gathers, request.kind = "form", req_len > 0,
         HttpRequest(SubSeq(recv_mbuf, req_len + 1, Len(recv_mbuf))),
         request' = request, pos' = pos, peer' = peer,
         peer = "open" => pos = Len(Stream)
  PROVE  FormIsWhole' /\ FieldsAreRead'
<1>1. /\ Holds(Sent(request), 0) /\ request.head \in Nat \ {0}
      /\ req_len = IF request.head <= pos THEN request.head ELSE 0
  BY Gathering
<1>2. /\ request \in Requests /\ Stream = Sent(request) /\ pos \in Nat /\ pos <= Len(Sent(request))
  BY Holding DEF Typed
<1>3. req_len = request.head /\ request.head <= pos
  BY <1>1
<1>4. Stream' = Stream
  BY Zenon DEF Stream
<1>5. FormIsWhole'
  BY <1>4 DEF FormIsWhole
<1> DEFINE m == pos - request.head
<1>6. /\ m \in 0..Len(Body(request))
      /\ SubSeq(recv_mbuf, req_len + 1, Len(recv_mbuf)) = SubSeq(Body(request), 1, m)
  BY <1>1, <1>2, <1>3, BodyHeld
<1>7. m = Len(Body(request)) <=> pos = Len(Sent(request))
  BY <1>1, <1>2, SentIs
<1> HIDE DEF m
<1>8. form' = [handled |-> TRUE, ssid |-> mg_get_http_var(SubSeq(Body(request), 1, m), "ssid"),
               pwd |-> mg_get_http_var(SubSeq(Body(request), 1, m), "pwd")]
  BY <1>6 DEF HttpRequest
<1>9. Read(form', m = Len(Body(request)), request)
  BY <1>2, <1>6, <1>8, FormRead, Zenon
<1>10. Read(form', pos' = Len(Sent(request')), request')
  <2>1. (m = Len(Body(request))) = (pos' = Len(Sent(request')))
    BY <1>7
  <2> QED
    BY <1>9, <2>1, Zenon
<1>11. (FieldsAreRead <=> Read(form, pos = Len(Sent(request)), request))'
  BY ReadIs, PTL
<1> QED
  BY <1>5, <1>10, <1>11

LEMMA StreamKept ==
  ASSUME request' = request
  PROVE  Stream' = Stream /\ Sent(request)' = Sent(request)
BY StreamIs, Zenon DEF Stream

LEMMA TypedPrime == Typed' => TypeOK'
<1>1. (Typed <=> TypeOK)'
  BY TypedIs, PTL
<1> QED
  BY <1>1

LEMMA HeldStill ==
  ASSUME NEW sent, NEW b, Sent(request) = sent, request' = request, Holds(sent, b)'
  PROVE  (\E c : Holds(Sent(request), c))'
<1>1. Holds(Sent(request), b)'
  BY StreamKept DEF Holds
<1> QED
  BY <1>1

\* Steps of a request that is waited for.
LEMMA GathersStep ==
  ASSUME IInv, Gathers, Next, ~ClientLeaves
  PROVE  IInv'
<1>0. PICK sent, h : sent = Sent(request) /\ h = request.head
  OBVIOUS
<1>1. /\ Holds(sent, 0) /\ h \in Nat \ {0} /\ req_len = IF h <= pos THEN h ELSE 0
      /\ mp = Boundless /\ ~mp.boundary /\ mp.state = "BEGIN"
  BY <1>0, Gathering
<1>2. /\ Typed /\ Stream = sent /\ sent \in Seq(Bytes) /\ Len(sent) \in Nat
      /\ pos \in Nat /\ pos <= Len(sent)
  BY <1>0, Holding
<1>3. FormIsWhole /\ FieldsAreRead
  BY DEF IInv
<1>4. ~form.handled /\ form = NoForm
  BY DEF Gathers, NoForm
<1>12. ASSUME /\ pos' = pos /\ recv_mbuf' = recv_mbuf /\ request' = request
              /\ form' = form /\ mp' = mp /\ seen' = seen /\ astray' = astray /\ rcvd' = rcvd /\ pc' = "poll"
              /\ send_mbuf' = send_mbuf /\ answers' = answers
              /\ peer' \in {"open", "shut", "reset"}
              /\ peer' = "open" => peer = "open"
              /\ flags' \subseteq {"SEND_AND_CLOSE", "CLOSE_IMMEDIATELY"}
              /\ peer' = "open" => "SEND_AND_CLOSE" \notin flags'
              /\ peer' = "open" /\ "CLOSE_IMMEDIATELY" \in flags' => pos < h
       PROVE  IInv'
  <2>1. (\E c : Holds(Sent(request), c))'
    <3>1. Holds(sent, 0)'
      BY <1>1, <1>12 DEF Holds
    <3> QED
      BY <1>0, <1>12, <3>1, HeldStill
  <2>2. Typed'
    BY <1>2, <1>12, <2>1  DEF Typed
  <2>3. FormIsWhole' /\ FieldsAreRead'
    BY <1>3, <1>12, FormsKept
  <2>4. Gathers'
    <3>1. recv_mbuf' = SubSeq(Stream', 1, pos')
      BY <1>12, StreamKept DEF Gathers
    <3> QED
      BY <1>0, <1>12, <3>1 DEF Gathers
  <2>5. AnsweredOnce'
    BY <2>4 DEF Gathers, AnsweredOnce
  <2> QED
    BY <2>2, <2>3, <2>4, <2>5, TypedPrime DEF IInv
<1>13. ASSUME /\ request' = request /\ pos' = pos /\ peer' = peer
              /\ mp' = mp /\ seen' = seen /\ astray' = astray /\ rcvd' = 0 /\ pc' = "poll"
              /\ recv_mbuf' = <<>> /\ pos = Len(sent)
              /\ send_mbuf' \in {0, 1} /\ answers' = 0
              /\ flags' \subseteq {"SEND_AND_CLOSE", "CLOSE_IMMEDIATELY"}
              /\ FormIsWhole' /\ FieldsAreRead'
       PROVE  IInv'
  <2>1. (\E c : Holds(Sent(request), c))'
    <3>1. PICK b \in Nat : b = pos
      BY <1>2
    <3>2. Holds(sent, b)'
      BY <1>2, <1>13, <3>1, HoldsNothing
    <3> QED
      BY <1>0, <1>13, <3>2, HeldStill
  <2>2. Typed'
    BY <1>2, <1>13, <2>1 DEF Typed
  <2>3. Handled'
    <3>1. pos' = Len(Stream')
      BY <1>2, <1>13, StreamKept
    <3> QED
      BY <1>1, <1>13, <3>1 DEF Handled
  <2>4. AnsweredOnce'
    <3>1. send_mbuf' = 0 \/ send_mbuf' = 1
      BY <1>13
    <3>2. answers' = 0
      BY <1>13
    <3>3. send_mbuf' + answers' <= 1 /\ send_mbuf' + answers' <= 2
      BY <3>1, <3>2
    <3> QED
      BY <3>3, Zenon DEF AnsweredOnce
  <2> QED
    BY <1>13, <2>2, <2>3, <2>4, TypedPrime DEF IInv
<1>5. CASE HeadIncomplete
  <2>1. /\ pos' = pos /\ recv_mbuf' = recv_mbuf /\ request' = request /\ peer' = peer
        /\ form' = form /\ mp' = mp /\ seen' = seen /\ astray' = astray /\ rcvd' = rcvd /\ pc' = "poll"
        /\ send_mbuf' = send_mbuf /\ answers' = answers
        /\ flags' \subseteq flags \cup {"CLOSE_IMMEDIATELY"} /\ req_len = 0
    BY <1>5 DEF HeadIncomplete, client, buffers, upload
  <2>2. pos < h
    BY <1>1, <1>2, <2>1
  <2>3. /\ flags \subseteq {"SEND_AND_CLOSE", "CLOSE_IMMEDIATELY"} /\ peer \in {"open", "shut", "reset"}
        /\ peer = "open" => "SEND_AND_CLOSE" \notin flags
    BY <1>2 DEF Typed, Gathers
  <2> QED
    BY <2>1, <2>2, <2>3, <1>12
<1>6. CASE MultipartBegin
  <2>0. req_len = h /\ h <= pos
    BY <1>1, <1>2, <1>6 DEF MultipartBegin
  <2>1a. mbuf_remove(h)
    BY <1>6, <2>0, Zenon DEF MultipartBegin
  <2>1. /\ pos' = pos /\ request' = request /\ peer' = peer
        /\ form' = form /\ rcvd' = rcvd /\ answers' = answers /\ pc' = "multipart"
        /\ request.kind = "upload"
        /\ astray' = FALSE
        /\ mp' = [state |-> "WAITING_FOR_BOUNDARY", boundary |-> TRUE, processing_part |-> 0]
        /\ seen' = [phase |-> "between", part |-> 0, name |-> "none", got |-> <<>>]
    <3>1. /\ pos' = pos /\ request' = request /\ peer' = peer
          /\ form' = form /\ rcvd' = rcvd /\ answers' = answers /\ pc' = "multipart"
          /\ request.kind = "upload" /\ astray' = astray
      BY <1>6 DEF MultipartBegin, client
    <3>2. astray = FALSE
      <4>1. astray \in BOOLEAN
        BY <1>2 DEF Typed
      <4>2. ~astray
        BY <1>2 DEF Gathers
      <4> QED
        BY <4>1, <4>2, Zenon
    <3>3. mp' = [state |-> "WAITING_FOR_BOUNDARY", boundary |-> TRUE, processing_part |-> 0]
      BY <1>6 DEF MultipartBegin, Boundless
    <3>4. seen' = [phase |-> "between", part |-> 0, name |-> "none", got |-> <<>>]
      BY <1>2, <1>6 DEF MultipartBegin, MultipartRequest, Gathers, NothingSeen
    <3> QED
      BY <3>1, <3>2, <3>3, <3>4, Zenon
  <2>2. /\ send_mbuf' = Refused' /\ answers' = 0 /\ Refused' \in {0, 1}
        /\ flags' \subseteq flags \cup {"SEND_AND_CLOSE"}
    BY <1>6, <2>1 DEF MultipartBegin, MultipartRequest, Gathers, Refused
  <2>3. Holds(sent, h)'
    <3>1. PICK n \in Nat : n = h
      BY <1>1
    <3>2. n \in 0..pos - 0 /\ 0 + n = n
      BY <1>2, <2>0, <3>1
    <3>3. Holds(sent, 0 + n)'
      BY <1>1, <2>1, <2>1a, <3>1, <3>2, HoldsLess
    <3> QED
      BY <2>1, <3>1, <3>2, <3>3 DEF Holds
  <2>4. Typed'
    <3>1. (\E c : Holds(Sent(request), c))'
      BY <1>0, <2>1, <2>3, HeldStill
    <3>2. /\ request' \in Requests /\ peer' \in {"open", "shut", "reset"}
          /\ rcvd' \in {0, pos'} /\ answers' \in Nat
      BY <1>2, <2>1, <2>2 DEF Typed
    <3>3. send_mbuf' \in Nat /\ flags' \subseteq {"SEND_AND_CLOSE", "CLOSE_IMMEDIATELY"}
      BY <1>2, <2>2 DEF Typed
    <3>4. /\ mp'.state = "WAITING_FOR_BOUNDARY" /\ mp'.boundary = TRUE
          /\ mp'.processing_part = 0 /\ seen'.phase = "between"
      BY <2>1
    <3> QED
      BY <2>1, <3>1, <3>2, <3>3, <3>4 DEF Typed
  <2>5. FormIsWhole' /\ FieldsAreRead'
    BY <1>3, <2>1, FormsKept
  <2>6. InParts'
    <3>1. request \in Requests
      BY <1>2 DEF Typed
    <3>2. PartsLaid(Starts(request), request) /\ Len(request.parts) \in Nat
      BY <2>1, <3>1, PartsAreLaid, UploadIs
    <3>3. Starts(request)[1] = h
      BY <1>0, <3>2, Zenon DEF PartsLaid
    <3>4. HeldFrom(h)'
      BY <1>2, <2>1, <2>3, StreamKept DEF Holds, HeldFrom
    <3>5. AtBoundary'
      BY <2>1, <3>3, <3>4 DEF AtBoundary, ToldWhole
    <3>6. Place'
      BY <2>1, <3>5 DEF Place
    <3> QED
      <4>1. /\ mp' = [state |-> mp'.state, boundary |-> TRUE, processing_part |-> seen'.part]
            /\ seen' = [phase |-> seen'.phase, part |-> seen'.part, name |-> seen'.name, got |-> seen'.got]
            /\ seen'.part = 0
        BY <2>1
      <4>2. 0 \in 0..Parts' /\ request'.kind = "upload"
        BY <2>1, <3>2 DEF Parts
      <4>3. send_mbuf' + answers' = Refused' /\ form' = NoForm /\ rcvd' = pos'
        <5>1. rcvd = pos
          BY DEF Gathers
        <5>2. Refused' + 0 = Refused'
          <6>1. Refused' = 0 \/ Refused' = 1
            BY <2>2
          <6> QED
            BY <6>1
        <5> QED
          BY <1>4, <2>1, <2>2, <5>1, <5>2, Zenon
      <4> QED
        BY <2>1, <3>6, <4>1, <4>2, <4>3 DEF InParts
  <2>7. AnsweredOnce'
    BY <2>1, <2>2 DEF AnsweredOnce, Refused
  <2> QED
    BY <2>4, <2>5, <2>6, <2>7, TypedPrime DEF IInv
<1>7. CASE BodyIncomplete
  <2>1. /\ pos' = pos /\ recv_mbuf' = recv_mbuf /\ request' = request /\ peer' = peer
        /\ form' = form /\ mp' = mp /\ seen' = seen /\ astray' = astray /\ rcvd' = rcvd /\ pc' = "poll"
        /\ send_mbuf' = send_mbuf /\ answers' = answers /\ flags' = flags
    BY <1>7 DEF BodyIncomplete, client, buffers, upload
  <2>2. /\ flags \subseteq {"SEND_AND_CLOSE", "CLOSE_IMMEDIATELY"} /\ peer \in {"open", "shut", "reset"}
        /\ peer = "open" => "SEND_AND_CLOSE" \notin flags
        /\ peer = "open" /\ "CLOSE_IMMEDIATELY" \in flags => pos < h
    BY <1>0, <1>2 DEF Typed, Gathers
  <2> QED
    BY <1>12, <2>1, <2>2
<1>8. CASE RequestDone
  <2>0. request \in Requests /\ request.kind # "upload"
    BY <1>2, <1>8 DEF Typed, RequestDone
  <2>1. /\ request' = request /\ pos' = pos /\ peer' = peer /\ answers' = answers
        /\ mp' = mp /\ seen' = seen /\ astray' = astray /\ rcvd' = 0 /\ pc' = "poll"
    BY <1>8 DEF RequestDone, client, upload
  <2>2. h <= pos /\ req_len = h
    BY <1>1, <1>2, <1>8 DEF RequestDone
  <2>3. pos = Len(sent) /\ Len(sent) = h + Len(Body(request)) /\ Len(Body(request)) \in Nat
    <3>1. Len(sent) = h + Len(Body(request)) /\ Len(Body(request)) \in Nat
      BY <1>0, <2>0, SentIs
    <3>2. h + Len(Body(request)) <= rcvd /\ rcvd = pos
      BY <1>8, <2>2 DEF RequestDone, message_len, Gathers
    <3> QED
      BY <1>2, <3>1, <3>2
  <2>3a. flags \subseteq {"SEND_AND_CLOSE", "CLOSE_IMMEDIATELY"}
    BY <1>2 DEF Typed
  <2>4. CASE request.kind = "form"
    <3>1. /\ HttpRequest(SubSeq(recv_mbuf, req_len + 1, Len(recv_mbuf))) /\ recv_mbuf' = <<>>
      BY <1>8, <2>4, Zenon DEF RequestDone
    <3>2. send_mbuf' = 1 /\ answers' = 0 /\ flags' = flags \cup {"SEND_AND_CLOSE"}
      BY <2>1, <3>1 DEF HttpRequest, Gathers
    <3>3. FormIsWhole' /\ FieldsAreRead'
      BY <1>1, <1>2, <2>1, <2>2, <2>3, <2>4, <3>1, FormHandled
    <3> QED
      BY <2>1, <2>3, <2>3a, <3>1, <3>2, <3>3, <1>13
  <2>5. CASE request.kind # "form"
    <3>1. mbuf_remove(message_len) /\ send_mbuf' = send_mbuf /\ flags' = flags /\ form' = form
      BY <1>8, <2>5, Zenon DEF RequestDone
    <3>2. Len(Body(request)) = 0
      BY <2>0, <2>5, SentIs
    <3>3. message_len = pos
      BY <2>2, <2>3, <3>2 DEF message_len
    <3>4. recv_mbuf' = <<>>
      <4>1. recv_mbuf \in Seq(Bytes) /\ Len(recv_mbuf) = pos
        BY <1>1, <1>2, HoldsIs
      <4>2. recv_mbuf' = SubSeq(recv_mbuf, pos + 1, pos)
        BY <3>1, <3>3, <4>1 DEF mbuf_remove
      <4> QED
        BY <1>2, <4>1, <4>2, SubSeqEmpty
    <3>5. FormIsWhole' /\ FieldsAreRead'
      BY <1>3, <2>1, <3>1, FormsKept
    <3>6. send_mbuf' = 0 /\ answers' = 0
      BY <2>1, <3>1 DEF Gathers
    <3> QED
      BY <2>1, <2>3, <2>3a, <3>1, <3>4, <3>5, <3>6, <1>13
  <2> QED
    BY <2>4, <2>5
<1>9. CASE Close
  <2>1. /\ request' = request /\ pos' = pos /\ peer' = peer /\ answers' = answers /\ mp' = mp
        /\ pc' = "closed" /\ rcvd' = 0 /\ seen' = seen /\ astray' = astray
    BY <1>1, <1>9 DEF Close, client
  <2>2. /\ flags \subseteq {"SEND_AND_CLOSE", "CLOSE_IMMEDIATELY"} /\ request \in Requests
        /\ send_mbuf = 0 /\ answers = 0 /\ rcvd = pos
    BY <1>2 DEF Typed, Gathers
  <2>3. CASE req_len > 0 /\ request.kind = "form"
    <3>1. HttpRequest(SubSeq(recv_mbuf, req_len + 1, Len(recv_mbuf))) /\ recv_mbuf' = <<>>
      BY <1>1, <1>9, <2>3, Zenon DEF Close
    <3>2. peer # "open"
      <4>1. h <= pos
        BY <1>1, <1>2, <2>3
      <4>2. ~(pos < h)
        BY <1>1, <1>2, <4>1
      <4>3. "SEND_AND_CLOSE" \in flags \/ "CLOSE_IMMEDIATELY" \in flags
        BY <1>9 DEF Close, Closes
      <4> QED
        BY <1>0, <4>2, <4>3 DEF Gathers
    <3>3. FormIsWhole' /\ FieldsAreRead'
      BY <2>1, <2>3, <3>1, <3>2, FormHandled
    <3>4. send_mbuf' = 1 /\ answers' = 0 /\ flags' = flags \cup {"SEND_AND_CLOSE"}
      BY <2>1, <2>2, <3>1 DEF HttpRequest
    <3>5. (\E c : Holds(Sent(request), c))'
      <4>1. PICK b \in Nat : b = pos
        BY <1>2
      <4>2. Holds(sent, b)'
        BY <1>2, <2>1, <3>1, <4>1, HoldsNothing
      <4> QED
        BY <1>0, <2>1, <4>2, HeldStill
    <3>6. Typed'
      BY <1>2, <2>1, <2>2, <3>4, <3>5 DEF Typed
    <3>7. AnsweredOnce'
      BY <3>4 DEF AnsweredOnce
    <3> QED
      BY <2>1, <3>3, <3>6, <3>7, TypedPrime DEF IInv
  <2>4. CASE ~(req_len > 0 /\ request.kind = "form")
    <3>1. UNCHANGED <<recv_mbuf, send_mbuf, flags, form>>
      BY <1>1, <1>9, <2>4, Zenon DEF Close
    <3>2. FormIsWhole' /\ FieldsAreRead'
      BY <1>3, <2>1, <3>1, FormsKept
    <3>3. (\E c : Holds(Sent(request), c))'
      <4>1. Holds(sent, 0)'
        BY <1>1, <2>1, <3>1 DEF Holds
      <4> QED
        BY <1>0, <2>1, <4>1, HeldStill
    <3>4. Typed'
      BY <1>2, <2>1, <2>2, <3>1, <3>3 DEF Typed
    <3>5. AnsweredOnce'
      BY <2>1, <2>2, <3>1 DEF AnsweredOnce
    <3> QED
      BY <2>1, <3>2, <3>4, <3>5, TypedPrime DEF IInv
  <2> QED
    BY <2>3, <2>4
<1>10. CASE ReceiveEnd
  <2>1. /\ pos' = pos /\ recv_mbuf' = recv_mbuf /\ request' = request /\ peer' = peer
        /\ form' = form /\ mp' = mp /\ seen' = seen /\ astray' = astray /\ rcvd' = rcvd /\ pc' = "poll"
        /\ send_mbuf' = send_mbuf /\ answers' = answers /\ peer # "open"
        /\ flags' \subseteq flags \cup {"SEND_AND_CLOSE", "CLOSE_IMMEDIATELY"}
    BY <1>10 DEF ReceiveEnd, client, buffers, upload
  <2>2. /\ flags \subseteq {"SEND_AND_CLOSE", "CLOSE_IMMEDIATELY"}
        /\ peer \in {"open", "shut", "reset"}
    BY <1>2 DEF Typed
  <2> QED
    BY <1>12, <2>1, <2>2
<1>14. ASSUME NEW n \in 1..Len(Stream) - pos, Receive(n)
       PROVE  IInv'
  <2>1. /\ request' = request /\ peer' = peer /\ peer = "open" /\ pos' = pos + n
        /\ recv_mbuf' = recv_mbuf \o SubSeq(sent, pos + 1, pos + n)
        /\ rcvd' = rcvd + n /\ pc' = "parse" /\ mp' = mp /\ seen' = seen /\ astray' = astray /\ form' = form
        /\ send_mbuf' = send_mbuf /\ answers' = answers /\ flags' = flags
    BY <1>1, <1>2, <1>14 DEF Receive, upload
  <2>2. send_mbuf = 0 /\ answers = 0 /\ rcvd = pos
    BY DEF Gathers
  <2>3. flags = {}
    <3>1. flags \subseteq {"SEND_AND_CLOSE", "CLOSE_IMMEDIATELY"}
      BY <1>2 DEF Typed
    <3>2. "SEND_AND_CLOSE" \notin flags /\ "CLOSE_IMMEDIATELY" \notin flags
      BY <1>14, <2>2 DEF Receive, Closes
    <3> QED
      BY <3>1, <3>2
  <2>4. Holds(sent, 0)'
    BY <1>1, <1>2, <2>1, HoldsMore
  <2>5. (\E c : Holds(Sent(request), c))'
    BY <1>0, <2>1, <2>4, HeldStill
  <2>6. Typed'
    BY <1>2, <2>1, <2>2, <2>5 DEF Typed
  <2>7. FormIsWhole' /\ FieldsAreRead'
    BY <1>3, <1>4, <2>1, FormsKept
  <2>8. Gathers'
    <3>1. recv_mbuf' = SubSeq(Stream', 1, pos')
      BY <1>2, <2>1, <2>4, StreamKept DEF Holds
    <3> QED
      BY <2>1, <2>2, <2>3, <3>1 DEF Gathers
  <2>9. AnsweredOnce'
    BY <2>1, <2>2 DEF AnsweredOnce
  <2> QED
    BY <2>6, <2>7, <2>8, <2>9, TypedPrime DEF IInv
<1>15. pc \in {"poll", "parse"} /\ send_mbuf = 0
  BY DEF Gathers
<1>16. ~CloseEndsRequest /\ ~Send
  BY <1>15 DEF CloseEndsRequest, Send
<1>17. ~Multipart
  BY <1>15 DEF Multipart, wait_for_boundary, process_boundary_incomplete, process_boundary_part_end,
               process_boundary, wait_for_chunk, finalize_part, finalize, In
<1> QED
  BY <1>5, <1>6, <1>7, <1>8, <1>9, <1>10, <1>14, <1>16, <1>17 DEF Next, Poll, Parse

\* A step that leaves the bytes and the answers as they are.
LEMMA BytesKept ==
  ASSUME IInv, UNCHANGED <<request, pos, recv_mbuf, form, seen, mp, astray>>,
         send_mbuf' \in Nat, answers' \in Nat, send_mbuf' + answers' = send_mbuf + answers,
         peer' \in {"open", "shut", "reset"}, peer' = "open" => peer = "open",
         rcvd' \in {0, pos},
         pc' \in {"poll", "parse", "multipart", "lost", "closed", "restarted"},
         flags' \subseteq flags \cup {"SEND_AND_CLOSE", "CLOSE_IMMEDIATELY"}
  PROVE  TypeOK' /\ AnsweredOnce' /\ FormIsWhole' /\ FieldsAreRead'
<1>1. Typed
  BY Holding
<1>2. (\E c : Holds(Sent(request), c))'
  <2>1. PICK b, sent : sent = Sent(request) /\ Holds(sent, b)
    BY <1>1 DEF Typed
  <2>2. Holds(sent, b)'
    BY <2>1 DEF Holds
  <2> QED
    BY <2>1, <2>2, HeldStill
<1>3. Typed'
  BY <1>1, <1>2 DEF Typed
<1>4. FormIsWhole' /\ FieldsAreRead'
  BY FormsKept DEF IInv
<1>5. AnsweredOnce'
  BY DEF IInv, AnsweredOnce
<1> QED
  BY <1>3, <1>4, <1>5, TypedPrime

\* Steps of a request that was handled.
LEMMA HandledStep ==
  ASSUME IInv, Handled, Next, ~ClientLeaves
  PROVE  IInv'
<1>1. /\ Typed /\ pos \in Nat /\ ~mp.boundary /\ recv_mbuf = <<>> /\ pos = Len(Stream)
      /\ pc = "poll"
  BY Holding DEF Handled
<1>2. /\ send_mbuf \in Nat /\ answers \in Nat /\ peer \in {"open", "shut", "reset"}
      /\ rcvd \in {0, pos}
  BY <1>1 DEF Typed
<1>3. ASSUME UNCHANGED <<request, pos, recv_mbuf, mp>>, pc' = "poll"
      PROVE  Handled'
  BY <1>1, <1>3, StreamKept DEF Handled
<1>4. CASE Close
  <2>1. /\ UNCHANGED <<request, pos, peer, answers, mp, seen, astray>> /\ pc' = "closed" /\ rcvd' = 0
    BY <1>1, <1>4 DEF Close, client
  <2>2. ~(req_len > 0)
    BY <1>1, NothingFound
  <2>3. UNCHANGED <<recv_mbuf, send_mbuf, flags, form>>
    BY <1>1, <1>4, <2>2, Zenon DEF Close
  <2> QED
    BY <1>2, <2>1, <2>3, BytesKept DEF IInv
<1>5. CASE ReceiveEnd
  <2>1. /\ UNCHANGED <<request, pos, peer, recv_mbuf, form, seen, mp, astray, send_mbuf, answers, rcvd, pc>>
        /\ flags' \subseteq flags \cup {"SEND_AND_CLOSE", "CLOSE_IMMEDIATELY"}
    BY <1>5 DEF ReceiveEnd, client, buffers, upload
  <2>2. Handled'
    BY <1>1, <1>3, <2>1
  <2> QED
    BY <1>1, <1>2, <2>1, <2>2, BytesKept DEF IInv
<1>6. CASE Send
  <2>1. /\ UNCHANGED <<request, pos, peer, recv_mbuf, form, seen, mp, astray, rcvd, pc, flags>>
        /\ send_mbuf' = 0 /\ answers' = answers + send_mbuf
    BY <1>6 DEF Send, client, upload
  <2>2. send_mbuf' \in Nat /\ answers' \in Nat /\ send_mbuf' + answers' = send_mbuf + answers
    BY <1>2, <2>1
  <2>3. Handled'
    BY <1>1, <1>3, <2>1
  <2> QED
    BY <1>1, <1>2, <2>1, <2>2, <2>3, BytesKept DEF IInv
<1>8. ~(\E n \in 1..Len(Stream) - pos : Receive(n))
  BY <1>1
<1>9. ~CloseEndsRequest /\ ~Parse /\ ~Multipart
  BY <1>1 DEF CloseEndsRequest, Parse, HeadIncomplete, MultipartBegin, BodyIncomplete, RequestDone,
              Multipart, wait_for_boundary, process_boundary_incomplete, process_boundary_part_end,
              process_boundary, wait_for_chunk, finalize_part, finalize, In
<1> QED
  BY <1>4, <1>5, <1>6, <1>8, <1>9 DEF Next, Poll

\* The connection is gone, and then the upload is ended.
LEMMA LostStep ==
  ASSUME IInv, Lost, Next, ~ClientLeaves
  PROVE  IInv'
<1>1. CloseEndsRequest
  BY DEF Lost, Next, Poll, Close, ReceiveEnd, Send, Receive,
         Parse, HeadIncomplete, MultipartBegin, BodyIncomplete, RequestDone,
         Multipart, wait_for_boundary, process_boundary_incomplete, process_boundary_part_end,
         process_boundary, wait_for_chunk, finalize_part, finalize, In
<1>2. /\ request' = request /\ pos' = pos /\ peer' = peer /\ answers' = answers /\ mp' = mp
      /\ form' = form /\ recv_mbuf' = <<>> /\ rcvd' = 0 /\ astray' = astray
      /\ pc' \in {"closed", "restarted"}
      /\ send_mbuf' = send_mbuf + 1 /\ flags' = flags \cup {"SEND_AND_CLOSE"}
      /\ seen' = [seen EXCEPT !.phase = "aborted"]
  BY <1>1 DEF CloseEndsRequest, MultipartRequestEnd, client
<1>3. /\ Typed /\ Sent(request) \in Seq(Bytes) /\ Len(Sent(request)) \in Nat
      /\ pos \in Nat /\ pos <= Len(Sent(request))
  BY Holding
<1>4. seen'.phase = "aborted"
  BY <1>2 DEF Lost
<1>5. send_mbuf \in Nat /\ answers \in Nat
  BY <1>3 DEF Typed
<1>6. (\E c : Holds(Sent(request), c))'
  <2>1. PICK b, sent : sent = Sent(request) /\ b = pos /\ b \in Nat
    BY <1>3
  <2>2. Holds(sent, b)'
    BY <1>2, <1>3, <2>1, HoldsNothing
  <2> QED
    BY <1>2, <2>1, <2>2, HeldStill
<1>7. Typed'
  BY <1>2, <1>3, <1>4, <1>5, <1>6 DEF Typed
<1>8. FormIsWhole' /\ FieldsAreRead'
  BY <1>2, FormsKept DEF IInv
<1>9. AnsweredOnce'
  <2>1. send_mbuf' + answers' = Refused + 1
    BY <1>2, <1>5 DEF Lost
  <2>2. request.kind = "upload"
    BY DEF Lost
  <2> QED
    BY <1>2, <2>1, <2>2 DEF AnsweredOnce, Refused
<1> QED
  BY <1>2, <1>7, <1>8, <1>9, TypedPrime DEF IInv

\* A connection that is closed takes no step, and none is taken after a restart.
LEMMA ClosedStep ==
  ASSUME pc \in {"closed", "restarted"}
  PROVE  ~Next
BY DEF Next, Poll, Close, CloseEndsRequest, ReceiveEnd, Send, Receive, ClientLeaves,
       Parse, HeadIncomplete, MultipartBegin, BodyIncomplete, RequestDone,
       Multipart, wait_for_boundary, process_boundary_incomplete, process_boundary_part_end,
       process_boundary, wait_for_chunk, finalize_part, finalize, In

-----------------------------------------------------------------------------
\* The steps of an upload.

BoundaryAt(sent, a) ==
  /\ a \in Nat \ {0} /\ a + 8 <= Len(sent)
  /\ sent[a + 1] = "-" /\ sent[a + 2] = "-" /\ sent[a + 3] = "b1" /\ sent[a + 4] = "b2"

\* The part p is between a boundary after the first a bytes and one after e.
PartAt(sent, a, e, p) ==
  /\ p.data \in Seq(STRING) /\ Free(p.data) /\ p.name # "\n"
  /\ Lead(p) \in {11, 14} /\ (Lead(p) = 14 => p.typed)
  /\ e = a + Lead(p) + 2 + Len(p.data)
  /\ sent[a + 5] = "\r" /\ sent[a + 6] = "\n" /\ sent[a + 7] = p.name
  /\ sent[a + 8] = "\r" /\ sent[a + 9] = "\n"
  /\ p.typed => sent[a + 10] = "type" /\ sent[a + 11] = "\r" /\ sent[a + 12] = "\n"
  /\ sent[a + Lead(p) - 1] = "\r" /\ sent[a + Lead(p)] = "\n"
  /\ \A k \in 1..Len(p.data) : sent[a + Lead(p) + k] = p.data[k]
  /\ sent[e - 1] = "\r" /\ sent[e] = "\n"

EndAt(sent, a) ==
  /\ a + 8 = Len(sent)
  /\ sent[a + 5] = "-" /\ sent[a + 6] = "-" /\ sent[a + 7] = "\r" /\ sent[a + 8] = "\n"

LaidOut(sent, at, n, r) ==
  /\ sent = Sent(r) /\ at = Starts(r) /\ n = Len(r.parts)
  /\ sent \in Seq(Bytes) /\ Len(sent) \in Nat /\ n \in Nat
  /\ \A j \in 1..n + 1 : BoundaryAt(sent, at[j])
  /\ \A j \in 1..n : PartAt(sent, at[j], at[j + 1], r.parts[j])
  /\ EndAt(sent, at[n + 1])

LEMMA UploadLaidOut ==
  ASSUME NEW r \in Requests, r.kind = "upload"
  PROVE  \E sent, at, n : LaidOut(sent, at, n, r)
<1> DEFINE sent == Sent(r)
           at == Starts(r)
           n == Len(r.parts)
<1>1. /\ sent \in Seq(Bytes) /\ Len(sent) \in Nat /\ r.head \in Nat \ {0}
  BY SentIs
<1>2. /\ n \in Nat
      /\ \A i \in 1..n :
           /\ Free(r.parts[i].data) /\ r.parts[i].name # "\n"
           /\ r.parts[i].data \in Seq(STRING) /\ Len(r.parts[i].data) \in Nat
           /\ Lead(r.parts[i]) \in {11, 14} /\ (Lead(r.parts[i]) = 14 => r.parts[i].typed)
  <2>1. ASSUME NEW p \in PartRecords
        PROVE  Lead(p) \in {11, 14} /\ (Lead(p) = 14 => p.typed)
    BY LeadIs
  <2> QED
    BY <2>1, UploadIs
<1>3. PartsLaid(at, r)
  BY PartsAreLaid
<1>4. /\ at \in [1..n + 1 -> Nat] /\ at[1] = r.head /\ at[n + 1] + 8 = Len(sent)
      /\ \A i \in 1..n + 1 :
           /\ sent[at[i] + 1] = "-" /\ sent[at[i] + 2] = "-"
           /\ sent[at[i] + 3] = "b1" /\ sent[at[i] + 4] = "b2"
      /\ \A i \in 1..n :
           LET p == r.parts[i]
           IN  /\ at[i + 1] = at[i] + Lead(p) + 2 + Len(p.data)
               /\ at[i + 1] + 8 <= Len(sent)
               /\ sent[at[i] + 5] = "\r" /\ sent[at[i] + 6] = "\n"
               /\ sent[at[i] + 7] = p.name
               /\ sent[at[i] + 8] = "\r" /\ sent[at[i] + 9] = "\n"
               /\ p.typed => /\ sent[at[i] + 10] = "type"
                             /\ sent[at[i] + 11] = "\r" /\ sent[at[i] + 12] = "\n"
               /\ sent[at[i] + Lead(p) - 1] = "\r" /\ sent[at[i] + Lead(p)] = "\n"
               /\ \A k \in 1..Len(p.data) : sent[at[i] + Lead(p) + k] = p.data[k]
               /\ sent[at[i + 1] - 1] = "\r" /\ sent[at[i + 1]] = "\n"
      /\ sent[at[n + 1] + 5] = "-" /\ sent[at[n + 1] + 6] = "-"
      /\ sent[at[n + 1] + 7] = "\r" /\ sent[at[n + 1] + 8] = "\n"
  BY <1>3, Zenon DEF PartsLaid
<1> HIDE DEF sent, at, n
<1>9. /\ at \in [1..n + 1 -> Nat]
      /\ \A i \in 1..n : /\ at[i + 1] = at[i] + Lead(r.parts[i]) + 2 + Len(r.parts[i].data)
                        /\ at[i + 1] + 8 <= Len(sent)
  BY <1>4, Zenon
<1>5. ASSUME NEW j \in 1..n PROVE PartAt(sent, at[j], at[j + 1], r.parts[j])
  BY <1>2, <1>4, Zenon DEF PartAt
<1>6. ASSUME NEW j \in 1..n + 1 PROVE BoundaryAt(sent, at[j])
  <2>1. at[j] # 0
    <3>1. CASE j = 1
      BY <1>1, <1>4, <3>1
    <3>2. CASE j > 1
      <4>1. PICK i \in 1..n : j = i + 1
        <5>1. j - 1 \in 1..n /\ j = (j - 1) + 1
          BY <1>2, <3>2
        <5> QED
          BY <5>1
      <4>2. at[i + 1] = at[i] + Lead(r.parts[i]) + 2 + Len(r.parts[i].data) /\ at[i] \in Nat
        <5>1. i \in 1..n + 1
          BY <1>2
        <5> QED
          BY <1>9, <5>1
      <4>3. Len(r.parts[i].data) \in Nat /\ Lead(r.parts[i]) \in {11, 14}
        BY <1>2
      <4> QED
        BY <4>1, <4>2, <4>3
    <3> QED
      BY <1>2, <3>1, <3>2
  <2>2. at[j] + 8 <= Len(sent)
    <3>1. CASE j = n + 1
      <4>1. at[n + 1] + 8 = Len(sent)
        BY <1>4, Zenon
      <4>2. at[j] + 8 = Len(sent)
        BY <3>1, <4>1, Zenon
      <4> QED
        BY <1>1, <4>2
    <3>2. CASE j <= n
      <4>1. PICK i \in 1..n : i = j
        BY <1>2, <3>2
      <4>2. i \in 1..n + 1 /\ i + 1 \in 1..n + 1
        BY <1>2, <4>1
      <4>3. at[i + 1] = at[i] + Lead(r.parts[i]) + 2 + Len(r.parts[i].data) /\ at[i + 1] + 8 <= Len(sent)
        BY <1>9
      <4>4. at[i] \in Nat /\ at[i + 1] \in Nat
        BY <1>9, <4>2
      <4>5. Len(r.parts[i].data) \in Nat /\ Lead(r.parts[i]) + 2 \in Nat
        BY <1>2
      <4>6. PICK x \in Nat, y \in Nat, l \in Nat, g \in Nat, z \in Nat :
               /\ x = at[i] /\ y = at[i + 1] /\ l = Len(r.parts[i].data) /\ z = Len(sent)
               /\ g = Lead(r.parts[i]) + 2
        BY <1>1, <4>4, <4>5
      <4>7. y = x + g + l /\ y + 8 <= z
        <5>1. PICK u \in Nat : u = Lead(r.parts[i])
          BY <1>2, <4>5, LeadIs
        <5>2. y = x + u + 2 + l /\ y + 8 <= z /\ g = u + 2
          BY <4>3, <4>6, <5>1
        <5> QED
          BY <5>2
      <4>8. x + 8 <= z
        BY <4>7
      <4> QED
        BY <4>1, <4>6, <4>8
    <3> QED
      BY <1>2, <3>1, <3>2
  <2>3. /\ sent[at[j] + 1] = "-" /\ sent[at[j] + 2] = "-"
        /\ sent[at[j] + 3] = "b1" /\ sent[at[j] + 4] = "b2" /\ at[j] \in Nat
    BY <1>4
  <2> QED
    BY <2>1, <2>2, <2>3 DEF BoundaryAt
<1>7. EndAt(sent, at[n + 1])
  BY <1>4, Zenon DEF EndAt
<1>8. LaidOut(sent, at, n, r)
  BY <1>1, <1>2, <1>5, <1>6, <1>7, Zenon DEF LaidOut, sent, at, n
<1> QED
  BY <1>8

\* There is no other boundary between the two of a part.
LEMMA Unbroken ==
  ASSUME NEW sent \in Seq(Bytes), NEW a, NEW e, NEW p, BoundaryAt(sent, a), BoundaryAt(sent, e),
         PartAt(sent, a, e, p)
  PROVE  \A k \in a + Lead(p) + 1..e + 2 : ~(sent[k] = "b1" /\ sent[k + 1] = "b2")
<1>1. PICK data : data = p.data /\ data \in Seq(STRING)
  BY DEF PartAt
<1>6. PICK d \in Nat : d = Len(data)
  BY <1>1
<1>7. PICK g \in {11, 14} : g = Lead(p)
  BY DEF PartAt
<1>2. /\ a \in Nat /\ e = a + g + 2 + d
      /\ \A k \in 1..d : sent[a + g + k] = data[k]
      /\ sent[e - 1] = "\r" /\ sent[e] = "\n" /\ sent[e + 1] = "-" /\ sent[e + 2] = "-"
  BY <1>1, <1>6, <1>7 DEF PartAt, BoundaryAt
<1>3. \A i \in 1..d - 1 : ~(data[i] = "b1" /\ data[i + 1] = "b2")
  BY <1>1, <1>6 DEF PartAt, Free
<1> SUFFICES ASSUME NEW k \in a + g + 1..e + 2
             PROVE  ~(sent[k] = "b1" /\ sent[k + 1] = "b2")
  BY <1>7
<1>4. CASE k <= a + g + d
  <2>1. PICK i \in 1..d : k = a + g + i
    <3>1. k - (a + g) \in 1..d /\ k = a + g + (k - (a + g))
      BY <1>2, <1>4
    <3> QED
      BY <3>1
  <2>2. sent[k] = data[i]
    BY <1>2, <2>1
  <2>3. CASE i = d
    <3>1. k + 1 = e - 1
      BY <1>2, <2>1, <2>3
    <3> QED
      BY <1>2, <3>1
  <2>4. CASE i < d
    <3>1. i \in 1..d - 1 /\ i + 1 \in 1..d /\ k + 1 = a + g + (i + 1)
      BY <1>2, <2>1, <2>4
    <3>2. sent[k + 1] = data[i + 1]
      BY <1>2, <3>1
    <3> QED
      BY <1>3, <2>2, <3>1, <3>2
  <2> QED
    BY <2>3, <2>4
<1>5. CASE k > a + g + d
  <2>1. k = e - 1 \/ k = e \/ k = e + 1 \/ k = e + 2
    BY <1>2, <1>5
  <2> QED
    BY <1>2, <2>1
<1> QED
  BY <1>2, <1>4, <1>5

LEMMA HeldIs ==
  ASSUME NEW sent, NEW b, sent = Sent(request), request' = request, Holds(sent, b)'
  PROVE  HeldFrom(b)'
<1>1. Stream' = sent
  BY StreamIs, StreamKept
<1> QED
  BY <1>1 DEF Holds, HeldFrom

LEMMA HeldAre ==
  ASSUME NEW sent \in Seq(Bytes), NEW b, sent = Sent(request), pos \in Nat, pos <= Len(sent), HeldFrom(b)
  PROVE  Holds(sent, b)
<1>1. Stream = sent
  BY StreamIs
<1> QED
  BY <1>1 DEF Holds, HeldFrom

\* A step that passes on what was received.
LEMMA PartsKept ==
  ASSUME IInv, InParts, UNCHANGED <<request, pos, peer, rcvd, send_mbuf, answers, flags, form>>,
         NEW sent, NEW b, sent = Sent(request), Holds(sent, b)',
         mp' = [state |-> mp'.state, boundary |-> TRUE, processing_part |-> seen'.part],
         mp'.state \in {"WAITING_FOR_BOUNDARY", "GOT_BOUNDARY", "WAITING_FOR_CHUNK", "FINALIZE"},
         seen' = [phase |-> seen'.phase, part |-> seen'.part, name |-> seen'.name, got |-> seen'.got],
         seen'.phase \in {"between", "part"}, seen'.part \in 0..Parts,
         astray' \in BOOLEAN, astray' => seen'.part > 0,
         pc' \in {"poll", "multipart"}, Place'
  PROVE  IInv'
<1>1. Typed /\ Parts \in Nat
  <2>1. request \in Requests /\ request.kind = "upload"
    BY Holding DEF Typed, InParts
  <2> QED
    BY <2>1, Holding, UploadIs DEF Parts
<1>2. (\E c : Holds(Sent(request), c))'
  BY HeldStill
<1>3. mp'.boundary = TRUE /\ mp'.processing_part \in Nat
  <2>1. mp'.boundary = TRUE /\ mp'.processing_part = seen'.part
    OBVIOUS
  <2> QED
    BY <1>1, <2>1
<1>4. Typed'
  BY <1>1, <1>2, <1>3 DEF Typed
<1>5. FormIsWhole' /\ FieldsAreRead'
  BY FormsKept DEF IInv
<1>6. AnsweredOnce'
  BY DEF IInv, AnsweredOnce
<1>7. InParts'
  <2>1. Parts' = Parts /\ Refused' = Refused
    BY DEF Parts, Refused
  <2> QED
    BY <2>1, Zenon DEF InParts
<1> QED
  BY <1>4, <1>5, <1>6, <1>7, TypedPrime DEF IInv

\* What InParts says, where it is.
LEMMA Uploading ==
  ASSUME IInv, InParts
  PROVE  /\ request \in Requests /\ request.kind = "upload" /\ Typed
         /\ pos \in Nat /\ Parts \in Nat /\ seen.part \in 0..Parts
         /\ astray \in BOOLEAN /\ (astray => seen.part > 0) /\ Begun \in 1..Parts + 1
         /\ mp.boundary = TRUE /\ mp.processing_part = seen.part
         /\ \E sent, at, n : LaidOut(sent, at, n, request) /\ n = Parts /\ pos <= Len(sent)
<1>1. request \in Requests /\ request.kind = "upload" /\ Typed /\ pos \in Nat /\ pos <= Len(Sent(request))
  BY Holding DEF Typed, InParts
<1>2. Parts \in Nat
  BY <1>1, UploadIs DEF Parts
<1>3. seen.part \in 0..Parts /\ mp.boundary = TRUE /\ mp.processing_part = seen.part
  BY DEF InParts
<1>6. astray \in BOOLEAN /\ (astray => seen.part > 0)
  BY <1>1 DEF InParts, Typed
<1>7. Begun \in 1..Parts + 1
  BY <1>2, <1>3, <1>6 DEF Begun
<1>4. PICK sent, at, n : LaidOut(sent, at, n, request)
  BY <1>1, UploadLaidOut
<1>5. n = Parts /\ pos <= Len(sent)
  BY <1>1, <1>4 DEF LaidOut, Parts
<1> QED
  BY <1>1, <1>2, <1>3, <1>4, <1>5, <1>6, <1>7

\* The next boundary comes after a bytes.
Ahead(at, a) == a = at[Begun]

\* The next boundary is the one after the part.
LEMMA NextBoundary ==
  ASSUME IInv, InParts, AtBoundary, NEW sent, NEW at, NEW n, LaidOut(sent, at, n, request),
         NEW a \in Nat, Ahead(at, a)
  PROVE  \E b \in Nat : /\ Holds(sent, b) /\ b < a + 3
                       /\ boundary = IF a + 3 < pos THEN a + 3 - b ELSE 0
<1>1. /\ sent = Sent(request) /\ at = Starts(request) /\ n = Len(request.parts) /\ n \in Nat
      /\ sent \in Seq(Bytes) /\ Len(sent) \in Nat
      /\ \A j \in 1..n + 1 : BoundaryAt(sent, at[j])
  BY DEF LaidOut
<1>2. /\ seen.part \in 0..n /\ pos \in Nat /\ pos <= Len(sent) /\ Begun \in 1..n + 1
      /\ seen.part = 0 => Begun = 1
  BY <1>1, Uploading, Holding DEF Parts, Begun
<1>3. BoundaryAt(sent, a)
  BY <1>1, <1>2 DEF Ahead
<1>4. /\ a \in Nat \ {0} /\ a + 8 <= Len(sent)
      /\ sent[a + 1] = "-" /\ sent[a + 2] = "-" /\ sent[a + 3] = "b1" /\ sent[a + 4] = "b2"
  BY <1>3 DEF BoundaryAt
<1>5. PICK b : HeldFrom(b) /\ (b = a \/ b = a + 2)
  <2>1. CASE seen.part = 0
    <3>1. HeldFrom(Starts(request)[1])
      BY <2>1 DEF AtBoundary
    <3> QED
      BY <1>1, <1>2, <2>1, <3>1 DEF Ahead
  <2>2. CASE seen.part # 0
    <3>1. HeldFrom(Starts(request)[Begun] + 2)
      BY <2>2 DEF AtBoundary
    <3> QED
      BY <1>1, <3>1 DEF Ahead
  <2> QED
    BY <2>1, <2>2
<1>6. Holds(sent, b)
  BY <1>1, <1>2, <1>5, HeldAre
<1>11. a \in Nat /\ a + 8 <= Len(sent)
  BY <1>4
<1>7. PICK B \in Nat : B = a + 3
  BY <1>11
<1>12. PICK c \in Nat : c = b /\ (c = a \/ c = a + 2)
  BY <1>5, <1>11
<1>8. b \in Nat /\ b < B /\ B < Len(sent) /\ B + 1 = a + 4
  <2>1. c < B /\ B < Len(sent) /\ B + 1 = a + 4
    BY <1>1, <1>7, <1>11, <1>12
  <2> QED
    BY <1>12, <2>1
<1>9. \A k \in b + 1..B - 1 : ~(sent[k] = "b1" /\ sent[k + 1] = "b2")
  <2> SUFFICES ASSUME NEW k \in c + 1..B - 1 PROVE sent[k] # "b1"
    BY <1>12
  <2>1. k = a + 1 \/ k = a + 2
    BY <1>7, <1>11, <1>12
  <2> QED
    BY <1>4, <2>1
<1>10. boundary = IF B < pos THEN B - b ELSE 0
  <2>1. sent[B] = "b1" /\ sent[B + 1] = "b2"
    BY <1>4, <1>7, <1>8
  <2> QED
    BY <1>6, <1>8, <1>9, <2>1, BoundaryFound
<1>13. b < a + 3 /\ boundary = IF a + 3 < pos THEN a + 3 - b ELSE 0
  BY <1>7, <1>8, <1>10
<1> QED
  BY <1>6, <1>8, <1>13

LEMMA AtBoundaryKept ==
  ASSUME UNCHANGED <<request, pos, recv_mbuf, astray>>, AtBoundary,
         seen' = seen \/ seen' = [seen EXCEPT !.phase = "between"],
         seen = [phase |-> seen.phase, part |-> seen.part, name |-> seen.name, got |-> seen.got]
  PROVE  AtBoundary'
<1>1. Stream' = Stream
  BY StreamKept
<1>2. seen'.part = seen.part /\ seen'.got = seen.got /\ (seen'.phase = seen.phase \/ seen'.phase = "between")
  OBVIOUS
<1>3. seen'.phase \in {"between", "part"} /\ ToldWhole'
  BY <1>2 DEF AtBoundary, ToldWhole
<1>4. HeldFrom(IF seen.part = 0 THEN Starts(request)[1] ELSE Starts(request)[Begun] + 2)'
  BY <1>1, <1>2 DEF AtBoundary, HeldFrom, Begun
<1> QED
  BY <1>3, <1>4, Zenon DEF AtBoundary

LEMMA PlaceKept ==
  ASSUME UNCHANGED <<request, pos, recv_mbuf, mp, seen, astray>>, Place,
         seen = [phase |-> seen.phase, part |-> seen.part, name |-> seen.name, got |-> seen.got]
  PROVE  Place'
<1>1. Stream' = Stream
  BY StreamKept
<1>2. AtBoundary => AtBoundary'
  BY AtBoundaryKept
<1> QED
  BY <1>1, <1>2 DEF Place, HeldFrom, Told, ToldWhole, Parts, Begun

LEMMA EnterIs ==
  ASSUME NEW s, Enter(s), InParts
  PROVE  mp' = [state |-> s, boundary |-> TRUE, processing_part |-> seen.part]
<1>1. PICK t : mp = [state |-> t, boundary |-> TRUE, processing_part |-> seen.part]
  BY DEF InParts
<1>2. mp' = [mp EXCEPT !.state = s]
  BY DEF Enter
<1> QED
  BY <1>1, <1>2

LEMMA WaitForBoundaryStep ==
  ASSUME IInv, InParts, wait_for_boundary
  PROVE  IInv'
<1>1. /\ Typed /\ pos \in Nat /\ Parts \in Nat /\ seen.part \in 0..Parts
      /\ astray \in BOOLEAN /\ (astray => seen.part > 0) /\ Begun \in 1..Parts + 1
  BY Uploading
<1>2. PICK sent, at, n : LaidOut(sent, at, n, request) /\ n = Parts /\ pos <= Len(sent)
  BY Uploading
<1>3. /\ mp = [state |-> mp.state, boundary |-> TRUE, processing_part |-> seen.part]
      /\ seen = [phase |-> seen.phase, part |-> seen.part, name |-> seen.name, got |-> seen.got]
      /\ mp.state = "WAITING_FOR_BOUNDARY" /\ Place
  BY DEF InParts, wait_for_boundary, In
<1>4. AtBoundary
  BY <1>3 DEF Place
<1>5. seen.phase \in {"between", "part"} /\ ToldWhole
  BY <1>4 DEF AtBoundary
<1>6. /\ sent = Sent(request) /\ at = Starts(request) /\ sent \in Seq(Bytes) /\ Len(sent) \in Nat
      /\ BoundaryAt(sent, at[Begun])
      /\ Begun <= n => PartAt(sent, at[Begun], at[Begun + 1], request.parts[Begun])
      /\ EndAt(sent, at[n + 1])
  <2>1. Begun \in 1..n + 1
    BY <1>1, <1>2
  <2>2. Begun <= n => Begun \in 1..n
    BY <1>1, <1>2
  <2> QED
    BY <1>2, <2>1, <2>2 DEF LaidOut
<1>7. PICK a \in Nat : Ahead(at, a)
  BY <1>6 DEF BoundaryAt, Ahead
<1>8. BoundaryAt(sent, a)
  BY <1>6, <1>7 DEF Ahead
<1>9. PICK b \in Nat : /\ Holds(sent, b) /\ b < a + 3
                      /\ boundary = IF a + 3 < pos THEN a + 3 - b ELSE 0
  BY <1>2, <1>4, <1>7, NextBoundary
<1>10. recv_mbuf \in Seq(Bytes) /\ Len(recv_mbuf) = pos - b /\ \A i \in 1..pos - b : recv_mbuf[i] = sent[b + i]
  BY <1>9, HoldsIs
<1>11. boundary_end = boundary + 2
  BY Pairs DEF boundary_end
<1>12. CASE pos < a + 8
  <2>1. boundary = 0 \/ Len(recv_mbuf) - boundary_end + 1 < 4
    BY <1>1, <1>9, <1>10, <1>11, <1>12
  <2>2. Waits
    BY <2>1, Zenon DEF wait_for_boundary
  <2>3. UNCHANGED <<request, pos, peer, rcvd, recv_mbuf, mp, seen, astray, send_mbuf, answers, flags, form>> /\ pc' = "poll"
    BY <2>2 DEF Waits, client, buffers, upload
  <2>4. Place'
    BY <1>3, <2>3, PlaceKept
  <2>5. Holds(sent, b)'
    BY <1>9, <2>3 DEF Holds
  <2>6. /\ mp' = [state |-> mp'.state, boundary |-> TRUE, processing_part |-> seen'.part]
        /\ mp'.state \in {"WAITING_FOR_BOUNDARY", "GOT_BOUNDARY", "WAITING_FOR_CHUNK", "FINALIZE"}
        /\ seen' = [phase |-> seen'.phase, part |-> seen'.part, name |-> seen'.name, got |-> seen'.got]
        /\ seen'.phase \in {"between", "part"} /\ seen'.part \in 0..Parts
    BY <1>1, <1>3, <1>5, <2>3
  <2>7. astray' \in BOOLEAN /\ (astray' => seen'.part > 0)
    BY <1>1, <2>3
  <2> QED
    BY <1>6, <2>3, <2>4, <2>5, <2>6, <2>7, PartsKept
<1>13. CASE ~(pos < a + 8)
  <2>1. boundary = a + 3 - b /\ boundary # 0 /\ ~(Len(recv_mbuf) - boundary_end + 1 < 4)
    <3>1. boundary = a + 3 - b /\ boundary # 0
      BY <1>1, <1>9, <1>13
    <3>2. boundary_end = a + 5 - b
      BY <1>9, <1>11, <3>1
    <3>3. Len(recv_mbuf) - boundary_end + 1 = (pos - b) - (a + 5 - b) + 1
      BY <1>10, <3>2
    <3>4. (pos - b) - (a + 5 - b) + 1 >= 4
      BY <1>1, <1>9, <1>13
    <3>5. ~((pos - b) - (a + 5 - b) + 1 < 4)
      BY <1>1, <1>9, <3>4
    <3> QED
      BY <3>1, <3>3, <3>5
  <2>2. /\ IF SubSeq(recv_mbuf, boundary_end, boundary_end + 3) = Dashes \o CRLF
            THEN Enter("FINALIZE") /\ mbuf_remove(boundary_end + 3)
            ELSE Enter("GOT_BOUNDARY") /\ UNCHANGED recv_mbuf
        /\ UNCHANGED <<pc, seen, astray>> /\ Unsent
    BY <2>1, Zenon DEF wait_for_boundary
  <2>3. UNCHANGED <<request, pos, peer, rcvd, seen, astray, send_mbuf, answers, flags, form>> /\ pc' = "multipart"
    BY <2>2 DEF Unsent, client, wait_for_boundary, In
  <2>9. astray' \in BOOLEAN /\ (astray' => seen'.part > 0)
    BY <1>1, <2>3
  <2>4. PICK f \in Nat \ {0} : /\ f = boundary_end /\ f = a + 5 - b /\ f + 3 <= Len(recv_mbuf)
                              /\ b + f = a + 5 /\ b + (f + 1) = a + 6
                              /\ b + (f + 2) = a + 7 /\ b + (f + 3) = a + 8
                              /\ f \in 1..pos - b /\ f + 1 \in 1..pos - b
                              /\ f + 2 \in 1..pos - b /\ f + 3 \in 1..pos - b
    <3>1. PICK f \in Nat \ {0} : f = a + 5 - b
      BY <1>9
    <3>2. f = boundary_end
      BY <1>9, <1>11, <2>1, <3>1
    <3>3. /\ f + 3 <= pos - b /\ b + f = a + 5 /\ b + (f + 1) = a + 6
          /\ b + (f + 2) = a + 7 /\ b + (f + 3) = a + 8
      BY <1>1, <1>13, <3>1
    <3> QED
      BY <1>1, <1>10, <3>1, <3>2, <3>3
  <2>5. /\ recv_mbuf[f] = sent[a + 5] /\ recv_mbuf[f + 1] = sent[a + 6]
        /\ recv_mbuf[f + 2] = sent[a + 7] /\ recv_mbuf[f + 3] = sent[a + 8]
    BY <1>10, <2>4
  <2>6. SubSeq(recv_mbuf, boundary_end, boundary_end + 3) = Dashes \o CRLF
          <=> sent[a + 5] = "-" /\ sent[a + 6] = "-" /\ sent[a + 7] = "\r" /\ sent[a + 8] = "\n"
    <3>1. SubSeq(recv_mbuf, f, f + 3) = Dashes \o CRLF
            <=> recv_mbuf[f] = "-" /\ recv_mbuf[f + 1] = "-" /\ recv_mbuf[f + 2] = "\r" /\ recv_mbuf[f + 3] = "\n"
      BY <1>10, <2>4, FourAt
    <3> QED
      BY <2>4, <2>5, <3>1
  <2>7. CASE Begun = n + 1
    <3>0. ~astray /\ seen.part = n
      BY <1>1, <1>2, <2>7 DEF Begun
    <3>1. EndAt(sent, a)
      BY <1>6, <1>7, <2>7 DEF Ahead
    <3>2. /\ Enter("FINALIZE") /\ mbuf_remove(boundary_end + 3)
      BY <2>2, <2>6, <3>1 DEF EndAt
    <3>3. a + 8 = Len(sent) /\ pos = Len(sent)
      BY <1>1, <1>2, <1>6, <1>13, <3>1 DEF EndAt
    <3>4. recv_mbuf' = <<>>
      <4>1. boundary_end + 3 = pos - b
        BY <2>4, <3>3
      <4>2. recv_mbuf' = SubSeq(recv_mbuf, pos - b + 1, pos - b)
        BY <1>10, <3>2, <4>1, <2>4 DEF mbuf_remove
      <4>3. PICK m \in Nat : m = pos - b
        BY <1>1, <1>10, <2>4
      <4> QED
        BY <1>10, <4>2, <4>3, SubSeqEmpty
    <3>5. PICK c \in Nat : c = pos
      BY <1>1
    <3>6. Holds(sent, c)'
      BY <1>1, <1>2, <1>6, <2>3, <3>4, <3>5, HoldsNothing
    <3>7. mp' = [state |-> "FINALIZE", boundary |-> TRUE, processing_part |-> seen.part]
      BY <3>2, EnterIs
    <3>8. /\ mp' = [state |-> mp'.state, boundary |-> TRUE, processing_part |-> seen'.part]
          /\ mp'.state = "FINALIZE"
          /\ seen' = [phase |-> seen'.phase, part |-> seen'.part, name |-> seen'.name, got |-> seen'.got]
          /\ seen'.phase \in {"between", "part"} /\ seen'.part \in 0..Parts
      BY <1>1, <1>3, <1>5, <2>3, <3>7
    <3>9. Place'
      <4>1. Stream' = sent
        BY <1>6, <2>3, StreamIs, StreamKept
      <4>2. Parts' = n /\ ToldWhole'
        BY <1>2, <1>5, <2>3 DEF Parts, ToldWhole
      <4> QED
        BY <2>3, <3>0, <3>3, <3>4, <3>8, <4>1, <4>2 DEF Place
    <3> QED
      BY <1>6, <2>3, <2>9, <3>6, <3>8, <3>9, PartsKept
  <2>8. CASE Begun # n + 1
    <3>1. Begun <= n
      BY <1>1, <1>2, <2>8
    <3>2. sent[a + 5] = "\r"
      BY <1>6, <1>7, <3>1 DEF PartAt, Ahead
    <3>3. Enter("GOT_BOUNDARY") /\ UNCHANGED recv_mbuf
      BY <2>2, <2>6, <3>2
    <3>4. mp' = [state |-> "GOT_BOUNDARY", boundary |-> TRUE, processing_part |-> seen.part]
      BY <3>3, EnterIs
    <3>5. /\ mp' = [state |-> mp'.state, boundary |-> TRUE, processing_part |-> seen'.part]
          /\ mp'.state = "GOT_BOUNDARY"
          /\ seen' = [phase |-> seen'.phase, part |-> seen'.part, name |-> seen'.name, got |-> seen'.got]
          /\ seen'.phase \in {"between", "part"} /\ seen'.part \in 0..Parts
      BY <1>1, <1>3, <1>5, <2>3, <3>4
    <3>6. AtBoundary'
      BY <1>3, <1>4, <2>3, <3>3, AtBoundaryKept
    <3>7. Starts(request)[Begun] + 8 <= pos
      BY <1>1, <1>6, <1>7, <1>13 DEF Ahead
    <3>10. Begun' = Begun /\ Parts' = Parts
      BY <2>3 DEF Begun, Parts
    <3>8. Place'
      BY <1>2, <2>3, <3>1, <3>5, <3>6, <3>7, <3>10 DEF Place
    <3>9. Holds(sent, b)'
      BY <1>9, <2>3, <3>3 DEF Holds
    <3> QED
      BY <1>6, <2>3, <2>9, <3>5, <3>8, <3>9, PartsKept
  <2> QED
    BY <2>7, <2>8
<1> QED
  BY <1>12, <1>13

\* The steps that only tell of an end, or look again later.
LEMMA ProcessBoundaryIncompleteStep ==
  ASSUME IInv, InParts, process_boundary_incomplete
  PROVE  IInv'
<1>1. /\ Typed /\ Parts \in Nat /\ seen.part \in 0..Parts
      /\ astray \in BOOLEAN /\ (astray => seen.part > 0)
  BY Uploading
<1>2. PICK sent, b : sent = Sent(request) /\ Holds(sent, b)
  BY <1>1 DEF Typed
<1>3. /\ UNCHANGED <<request, pos, peer, rcvd, recv_mbuf, seen, astray, send_mbuf, answers, flags, form>>
      /\ pc' = "poll" /\ Enter("WAITING_FOR_BOUNDARY") /\ mp.state = "GOT_BOUNDARY"
  BY DEF process_boundary_incomplete, Unsent, client, In
<1>4. seen = [phase |-> seen.phase, part |-> seen.part, name |-> seen.name, got |-> seen.got]
  BY DEF InParts
<1>5. AtBoundary
  BY <1>3 DEF InParts, Place
<1>6. mp' = [state |-> "WAITING_FOR_BOUNDARY", boundary |-> TRUE, processing_part |-> seen.part]
  BY <1>3, EnterIs
<1>7. Place'
  BY <1>3, <1>4, <1>5, <1>6, AtBoundaryKept DEF Place
<1>8. Holds(sent, b)'
  BY <1>2, <1>3 DEF Holds
<1>9. /\ mp' = [state |-> mp'.state, boundary |-> TRUE, processing_part |-> seen'.part]
      /\ mp'.state = "WAITING_FOR_BOUNDARY"
      /\ seen' = [phase |-> seen'.phase, part |-> seen'.part, name |-> seen'.name, got |-> seen'.got]
      /\ seen'.phase \in {"between", "part"} /\ seen'.part \in 0..Parts
  BY <1>1, <1>3, <1>4, <1>5, <1>6 DEF AtBoundary
<1> QED
  BY <1>1, <1>2, <1>3, <1>7, <1>8, <1>9, PartsKept

LEMMA PartEndStep ==
  ASSUME IInv, InParts, process_boundary_part_end \/ finalize_part
  PROVE  /\ IInv'
         /\ seen.phase = "part" /\ (~astray => seen.got = request.parts[seen.part].data)
         /\ astray' = astray
         /\ seen'.phase = "between" /\ seen'.part = seen.part
         /\ seen'.name = seen.name /\ seen'.got = seen.got
<1>1. /\ Typed /\ Parts \in Nat /\ seen.part \in 0..Parts
      /\ astray \in BOOLEAN /\ (astray => seen.part > 0)
  BY Uploading
<1>2. PICK sent, b : sent = Sent(request) /\ Holds(sent, b)
  BY <1>1 DEF Typed
<1>3. /\ UNCHANGED <<request, pos, peer, pc, rcvd, recv_mbuf, mp, astray, send_mbuf, answers, flags, form>>
      /\ seen' = [seen EXCEPT !.phase = "between"]
      /\ mp.state \in {"GOT_BOUNDARY", "FINALIZE"}
      /\ mp.state = "GOT_BOUNDARY" => seen.phase # "between"
      /\ mp.state = "FINALIZE" => seen.phase = "part"
  BY DEF process_boundary_part_end, finalize_part, Unsent, client, In
<1>4. /\ seen = [phase |-> seen.phase, part |-> seen.part, name |-> seen.name, got |-> seen.got]
      /\ pc \in {"poll", "multipart"} /\ Place
  BY DEF InParts
<1>5. PICK p, k, m, g : seen = [phase |-> p, part |-> k, name |-> m, got |-> g]
  BY <1>4
<1>6. seen' = [phase |-> "between", part |-> seen.part, name |-> seen.name, got |-> seen.got]
  BY <1>3, <1>5
<1>7. seen.phase = "part" /\ ToldWhole
  BY <1>3, <1>4 DEF Place, AtBoundary
<1>8. Place'
  <2>1. CASE mp.state = "GOT_BOUNDARY"
    <3>1. AtBoundary'
      BY <1>3, <1>4, <2>1, AtBoundaryKept DEF Place
    <3> QED
      BY <1>3, <1>4, <1>6, <2>1, <3>1 DEF Place, Parts, Begun
  <2>2. CASE mp.state = "FINALIZE"
    <3>1. Stream' = Stream
      BY <1>3, StreamKept
    <3>2. ToldWhole'
      BY <1>6 DEF ToldWhole
    <3> QED
      BY <1>3, <1>4, <1>6, <2>2, <3>1, <3>2 DEF Place, Parts
  <2> QED
    BY <1>3, <2>1, <2>2
<1>9. Holds(sent, b)'
  BY <1>2, <1>3 DEF Holds
<1>10. /\ mp' = [state |-> mp'.state, boundary |-> TRUE, processing_part |-> seen'.part]
       /\ mp'.state \in {"GOT_BOUNDARY", "FINALIZE"}
       /\ seen' = [phase |-> seen'.phase, part |-> seen'.part, name |-> seen'.name, got |-> seen'.got]
       /\ seen'.phase \in {"between", "part"} /\ seen'.part \in 0..Parts
  BY <1>1, <1>3, <1>6 DEF InParts
<1>11. IInv'
  BY <1>1, <1>2, <1>3, <1>4, <1>6, <1>8, <1>9, <1>10, PartsKept
<1> QED
  BY <1>3, <1>6, <1>7, <1>11 DEF ToldWhole

LEMMA FinalizeStep ==
  ASSUME IInv, InParts, finalize
  PROVE  /\ IInv' /\ seen.part = Parts /\ ~astray /\ astray' = astray
         /\ seen'.part = seen.part /\ seen'.name = seen.name /\ seen'.got = seen.got
<1>1. /\ Typed /\ Sent(request) \in Seq(Bytes) /\ Len(Sent(request)) \in Nat
      /\ pos \in Nat /\ pos <= Len(Sent(request))
  BY Holding
<1>2. /\ request' = request /\ pos' = pos /\ peer' = peer /\ answers' = answers /\ rcvd' = rcvd
      /\ form' = form /\ recv_mbuf' = <<>> /\ pc' \in {"poll", "restarted"} /\ astray' = astray
      /\ send_mbuf' = send_mbuf + 1 /\ flags' = flags \cup {"SEND_AND_CLOSE"}
      /\ seen' = [seen EXCEPT !.phase = "ended"]
      /\ mp' = [state |-> "FINISHED", boundary |-> FALSE, processing_part |-> 0]
      /\ mp.state = "FINALIZE"
  BY DEF finalize, MultipartRequestEnd, client, Boundless, In
<1>3. seen.part = Parts /\ pos = Len(Stream) /\ ~astray
  BY <1>2 DEF InParts, Place
<1>4. PICK p, k, m, g : seen = [phase |-> p, part |-> k, name |-> m, got |-> g]
  BY DEF InParts
<1>5. seen' = [phase |-> "ended", part |-> seen.part, name |-> seen.name, got |-> seen.got]
  BY <1>2, <1>4
<1>6. send_mbuf \in Nat /\ answers \in Nat
  BY <1>1 DEF Typed
<1>7. (\E c : Holds(Sent(request), c))'
  <2>1. PICK b, sent : sent = Sent(request) /\ b = pos /\ b \in Nat
    BY <1>1
  <2>2. Holds(sent, b)'
    BY <1>1, <1>2, <2>1, HoldsNothing
  <2> QED
    BY <1>2, <2>1, <2>2, HeldStill
<1>8. Typed'
  BY <1>1, <1>2, <1>5, <1>6, <1>7 DEF Typed
<1>9. FormIsWhole' /\ FieldsAreRead'
  BY <1>2, FormsKept DEF IInv
<1>10. AnsweredOnce'
  <2>1. send_mbuf' + answers' = Refused + 1
    BY <1>2, <1>6 DEF InParts
  <2>2. request.kind = "upload"
    BY DEF InParts
  <2> QED
    BY <1>2, <2>1, <2>2 DEF AnsweredOnce, Refused
<1>11. Handled' \/ pc' = "restarted"
  BY <1>2, <1>3, StreamKept DEF Handled
<1> QED
  BY <1>2, <1>3, <1>5, <1>8, <1>9, <1>10, <1>11, TypedPrime DEF IInv

\* A part is begun, or is begun anew.
LEMMA ProcessBoundaryStep ==
  ASSUME IInv, InParts, process_boundary
  PROVE  /\ IInv'
         /\ seen.phase = "between" /\ Begun <= Parts
         /\ seen' = [phase |-> "part", part |-> Begun,
                     name |-> request.parts[Begun].name, got |-> <<>>]
<1>1. /\ Typed /\ pos \in Nat /\ Parts \in Nat /\ seen.part \in 0..Parts
      /\ mp.processing_part = seen.part
      /\ astray \in BOOLEAN /\ (astray => seen.part > 0) /\ Begun \in 1..Parts + 1
  BY Uploading
<1>2. PICK sent, at, n : LaidOut(sent, at, n, request) /\ n = Parts /\ pos <= Len(sent)
  BY Uploading
<1>3. /\ mp = [state |-> mp.state, boundary |-> TRUE, processing_part |-> seen.part]
      /\ mp.state = "GOT_BOUNDARY" /\ Place
  BY DEF InParts, process_boundary, In
<1>4. /\ AtBoundary /\ Begun <= Parts /\ Starts(request)[Begun] + 8 <= pos
  BY <1>3 DEF Place
<1>5. PICK line \in EmptyLines \ {0} : mbuf_remove(line + 1) /\ astray' = (line = Past)
  BY DEF process_boundary
<1>6. /\ UNCHANGED <<request, pos, peer, rcvd, send_mbuf, answers, flags, form>> /\ pc' = "multipart"
      /\ (mp.processing_part = 0 \/ seen.phase = "between")
      /\ seen' = [phase |-> "part", part |-> Begun,
                  name |-> recv_mbuf[boundary_end + 2], got |-> <<>>]
      /\ mp' = [mp EXCEPT !.state = "WAITING_FOR_CHUNK", !.processing_part = Begun]
  BY DEF process_boundary, Unsent, client, In
<1>29. PICK j \in 1..n : j = Begun
  BY <1>1, <1>2, <1>4
<1>7. PICK a, e, p :
         j = Begun /\ a = at[j] /\ e = at[j + 1] /\ p = request.parts[j]
  BY <1>29
<1>8. /\ sent = Sent(request) /\ at = Starts(request) /\ sent \in Seq(Bytes) /\ Len(sent) \in Nat
      /\ BoundaryAt(sent, a) /\ BoundaryAt(sent, e) /\ PartAt(sent, a, e, p)
  <2>1. j \in 1..n + 1 /\ j + 1 \in 1..n + 1
    BY <1>1, <1>2
  <2> QED
    BY <1>2, <1>7, <2>1 DEF LaidOut
<1>9. a \in Nat /\ Ahead(at, a)
  BY <1>7, <1>8 DEF BoundaryAt, Ahead
<1>10. PICK g \in {11, 14} : g = Lead(p)
  BY <1>8 DEF PartAt
<1>11. /\ a + 8 <= pos
       /\ p.name # "\n" /\ p.data \in Seq(STRING)
       /\ sent[a + 7] = p.name /\ sent[a + 8] = "\r" /\ sent[a + 9] = "\n"
       /\ g = 14 => sent[a + 10] = "type" /\ sent[a + 11] = "\r" /\ sent[a + 12] = "\n"
       /\ sent[a + g - 1] = "\r" /\ sent[a + g] = "\n"
  BY <1>4, <1>7, <1>8, <1>10 DEF PartAt
<1>12. a + g <= Len(sent)
  <2>1. PICK d \in Nat : d = Len(p.data)
    BY <1>11
  <2>2. e = a + g + 2 + d
    BY <1>8, <1>10, <2>1 DEF PartAt
  <2>3. e \in Nat /\ e + 8 <= Len(sent)
    BY <1>8 DEF BoundaryAt
  <2> QED
    BY <1>8, <1>9, <2>2, <2>3
<1>13. PICK b \in Nat : /\ Holds(sent, b) /\ b < a + 3
                       /\ boundary = IF a + 3 < pos THEN a + 3 - b ELSE 0
  BY <1>2, <1>4, <1>9, NextBoundary
<1>14. recv_mbuf \in Seq(Bytes) /\ Len(recv_mbuf) = pos - b /\ \A i \in 1..pos - b : recv_mbuf[i] = sent[b + i]
  BY <1>13, HoldsIs
<1>15. PICK B \in Nat : B = a + 3
  BY <1>9
<1>16. boundary = B - b /\ boundary_end = B + 2 - b
  <2>1. boundary = B - b
    BY <1>1, <1>9, <1>11, <1>13, <1>15
  <2>2. boundary_end = boundary + 2
    BY Pairs DEF boundary_end
  <2> QED
    BY <1>15, <2>1, <2>2
<1>17. EmptyLine = IF B + g - 3 <= pos THEN B + g - 4 - b ELSE 0
  <2>1. /\ sent[B + 4] # "\n" /\ sent[B + 5] = "\r" /\ sent[B + 6] = "\n"
        /\ g = 14 => sent[B + 7] = "type" /\ sent[B + 8] = "\r" /\ sent[B + 9] = "\n"
        /\ sent[B + g - 4] = "\r" /\ sent[B + g - 3] = "\n"
    <3>1. /\ B + 4 = a + 7 /\ B + 5 = a + 8 /\ B + 6 = a + 9 /\ B + 7 = a + 10
          /\ B + 8 = a + 11 /\ B + 9 = a + 12 /\ B + g - 4 = a + g - 1 /\ B + g - 3 = a + g
      BY <1>9, <1>15
    <3> QED
      BY <1>11, <3>1
  <2>2. b < B /\ B + g - 3 <= Len(sent)
    BY <1>8, <1>9, <1>12, <1>13, <1>15
  <2> QED
    BY <1>13, <1>16, <2>1, <2>2, EmptyLineFound
<1>18. \/ EmptyLine # 0 /\ line = EmptyLine
       \/ EmptyLine = 0 /\ TypeLine /\ line = Past
  BY <1>5 DEF EmptyLines
<1>19. Past = pos - b + 1
  BY <1>14 DEF Past
<1>20. recv_mbuf[boundary_end + 2] = p.name
  <2>1. boundary_end + 2 <= pos - b
    <3>1. CASE EmptyLine # 0
      BY <1>1, <1>13, <1>15, <1>16, <1>17, <3>1
    <3>2. CASE TypeLine
      BY <1>1, <1>13, <1>14, <1>15, <1>16, <3>2 DEF TypeLine
    <3> QED
      BY <1>18, <3>1, <3>2
  <2>2. boundary_end + 2 \in 1..pos - b /\ b + (boundary_end + 2) = a + 7
    BY <1>1, <1>9, <1>13, <1>15, <1>16, <2>1
  <2> QED
    BY <1>11, <1>14, <2>2
<1>21. seen' = [phase |-> "part", part |-> j, name |-> p.name, got |-> <<>>]
  BY <1>6, <1>7, <1>20
<1>22. seen.phase = "between"
  <2>1. CASE mp.processing_part = 0
    <3>1. ~astray /\ ~(seen.part > 0)
      BY <1>1, <2>1
    <3> QED
      BY <1>4, <3>1 DEF AtBoundary, ToldWhole
  <2> QED
    BY <1>6, <2>1
<1>23. mp' = [state |-> "WAITING_FOR_CHUNK", boundary |-> TRUE, processing_part |-> j]
  <2>1. PICK t : mp = [state |-> t, boundary |-> TRUE, processing_part |-> seen.part]
    BY <1>3
  <2> QED
    BY <1>6, <1>7, <2>1
<1>24. /\ mp' = [state |-> mp'.state, boundary |-> TRUE, processing_part |-> seen'.part]
       /\ mp'.state = "WAITING_FOR_CHUNK"
       /\ seen' = [phase |-> seen'.phase, part |-> seen'.part, name |-> seen'.name, got |-> seen'.got]
       /\ seen'.phase = "part" /\ seen'.part = j /\ seen'.got = <<>>
       /\ seen'.phase \in {"between", "part"} /\ seen'.part \in 0..Parts
       /\ astray' \in BOOLEAN /\ (astray' => seen'.part > 0)
  BY <1>1, <1>2, <1>5, <1>21, <1>23
<1>25. Starts(request')[seen'.part] = a /\ request'.parts[seen'.part] = p
  BY <1>6, <1>7, <1>8, <1>24
<1>26. ASSUME EmptyLine # 0, line = EmptyLine PROVE IInv'
  <2>1. B + g - 3 <= pos /\ line = B + g - 4 - b
    BY <1>17, <1>26
  <2>2. line # Past
    BY <1>1, <1>13, <1>15, <1>19, <2>1
  <2>3. astray' = FALSE
    BY <1>5, <2>2
  <2>4. PICK c \in Nat : c = a + g
    BY <1>9
  <2>5. Holds(sent, c)'
    <3>1. PICK m \in Nat : m = B + g - 3 - b
      BY <1>13, <1>15
    <3>2. m \in 0..pos - b /\ b + m = c /\ m = line + 1
      BY <1>1, <1>9, <1>13, <1>15, <2>1, <2>4, <3>1
    <3>3. mbuf_remove(m)
      BY <1>5, <3>2, Zenon
    <3>4. Holds(sent, b + m)'
      BY <1>6, <1>13, <3>2, <3>3, HoldsLess
    <3> QED
      BY <3>2, <3>4
  <2>6. HeldFrom(c)'
    BY <1>6, <1>8, <2>5, HeldIs
  <2>7. Len(seen'.got) = 0 /\ a + g + 0 = c
    BY <1>24, <2>4
  <2>8. HeldFrom(Starts(request)[seen.part] + Lead(request.parts[seen.part]) + Len(seen.got))'
    <3>1. Starts(request')[seen'.part] + Lead(request'.parts[seen'.part]) + Len(seen'.got) = c
      BY <1>10, <1>25, <2>7
    <3> QED
      BY <2>6, <3>1 DEF Lead
  <2>9. Told'
    <3>1. SubSeq(p.data, 1, 0) = <<>>
      BY <1>11, SubSeqEmpty
    <3> QED
      BY <1>24, <1>25, <2>7, <3>1 DEF Told
  <2>10. Len(seen'.got) \in 0..Len(request'.parts[seen'.part].data)
    BY <1>11, <1>25, <2>7
  <2>11. seen'.part > 0
    BY <1>24
  <2>12. Place'
    BY <1>24, <2>3, <2>8, <2>9, <2>10, <2>11 DEF Place
  <2> QED
    BY <1>6, <1>8, <1>24, <2>5, <2>12, PartsKept
<1>27. ASSUME EmptyLine = 0, TypeLine, line = Past PROVE IInv'
  <2>1. astray' = TRUE
    BY <1>5, <1>27
  <2>2. PICK l \in Nat : l = Len(recv_mbuf)
    BY <1>14
  <2>3. mbuf_remove(l + 2)
    <3>1. line + 1 = l + 2
      BY <1>27, <2>2 DEF Past
    <3> QED
      BY <1>5, <3>1, Zenon
  <2>4. Holds(sent, b)'
    <3>1. l + 2 \in Nat /\ l + 2 > Len(recv_mbuf)
      BY <2>2
    <3> QED
      BY <1>6, <1>13, <2>3, <3>1, HoldsSame
  <2>5. PICK c \in {a, a + 2} : HeldFrom(c)
    <3>1. CASE seen.part = 0
      <4>1. Begun = 1
        BY <1>1, <3>1 DEF Begun
      <4>2. HeldFrom(Starts(request)[1])
        BY <1>4, <3>1 DEF AtBoundary
      <4> QED
        BY <1>7, <1>8, <4>1, <4>2
    <3>2. CASE seen.part # 0
      <4>1. HeldFrom(Starts(request)[Begun] + 2)
        BY <1>4, <3>2 DEF AtBoundary
      <4> QED
        BY <1>7, <1>8, <4>1
    <3> QED
      BY <3>1, <3>2
  <2>6. HeldFrom(c)'
    <3>1. recv_mbuf' = recv_mbuf
      BY <2>2, <2>3 DEF mbuf_remove
    <3>2. Stream' = Stream
      BY <1>6, StreamKept
    <3> QED
      BY <1>6, <2>5, <3>1, <3>2 DEF HeldFrom
  <2>7. \E d \in {Starts(request')[seen'.part], Starts(request')[seen'.part] + 2} : HeldFrom(d)'
    BY <1>25, <2>5, <2>6, Zenon
  <2>8. Starts(request')[seen'.part] + 8 <= pos'
    BY <1>6, <1>11, <1>25
  <2>9. Place'
    BY <1>24, <2>1, <2>7, <2>8, Zenon DEF Place
  <2> QED
    BY <1>6, <1>8, <1>24, <2>4, <2>9, PartsKept
<1>28. IInv'
  BY <1>18, <1>26, <1>27
<1> QED
  BY <1>4, <1>7, <1>21, <1>22, <1>28

\* After b bytes comes what is after the first g of the data.
DataFrom(sent, b, data, g) == \A k \in 1..Len(data) - g : sent[b + k] = data[g + k]

\* What has come of the data is what is next of it.
LEMMA ChunkIs ==
  ASSUME NEW sent, NEW b, Holds(sent, b), NEW data \in Seq(STRING), NEW g \in 0..Len(data),
         DataFrom(sent, b, data, g), NEW size \in 0..Len(data) - g, size <= Len(recv_mbuf)
  PROVE  SubSeq(data, 1, g) \o SubSeq(recv_mbuf, 1, size) = SubSeq(data, 1, g + size)
<1>1. /\ recv_mbuf \in Seq(Bytes) /\ Len(recv_mbuf) \in Nat /\ Len(recv_mbuf) = pos - b
      /\ \A i \in 1..pos - b : recv_mbuf[i] = sent[b + i]
  BY HoldsIs
<1> DEFINE u == SubSeq(recv_mbuf, 1, size)
           v == SubSeq(data, g + 1, g + size)
<1>2. size \in Nat /\ g \in Nat /\ g + size \in Nat /\ g <= g + size /\ g + size <= Len(data) /\ (g + size) - g = size
  OBVIOUS
<1>3. u \in Seq(Bytes) /\ Len(u) = size /\ \A i \in 1..size : u[i] = recv_mbuf[i]
  <2>1. /\ SubSeq(recv_mbuf, 0 + 1, size) \in Seq(Bytes)
        /\ Len(SubSeq(recv_mbuf, 0 + 1, size)) = size - 0
        /\ \A i \in 1..size - 0 : SubSeq(recv_mbuf, 0 + 1, size)[i] = recv_mbuf[0 + i]
    BY <1>1, <1>2, Window
  <2> QED
    BY <1>2, <2>1
<1>4. v \in Seq(STRING) /\ Len(v) = size /\ \A i \in 1..size : v[i] = data[g + i]
  <2>1. /\ v \in Seq(STRING) /\ Len(v) = (g + size) - g
        /\ \A i \in 1..(g + size) - g : v[i] = data[g + i]
    BY <1>2, Window
  <2> QED
    BY <1>2, <2>1
<1> HIDE DEF u, v
<1>5. ASSUME NEW i \in 1..size PROVE u[i] = v[i]
  <2>1. i \in 1..pos - b
    BY <1>1
  <2>2. u[i] = sent[b + i]
    BY <1>1, <1>3, <2>1
  <2>3. i \in 1..Len(data) - g
    BY <1>2
  <2>4. sent[b + i] = data[g + i]
    BY <2>3 DEF DataFrom
  <2> QED
    BY <1>4, <2>2, <2>4
<1>6. u = v
  BY <1>3, <1>4, <1>5, SeqEqual
<1>7. SubSeq(data, 0 + 1, g) \o SubSeq(data, g + 1, g + size) = SubSeq(data, 0 + 1, g + size)
  BY <1>2, WindowMore
<1> QED
  BY <1>6, <1>7 DEF u, v

\* After a part that was begun too early its boundary is found again.
LEMMA AstrayChunkStep ==
  ASSUME IInv, InParts, wait_for_chunk, astray
  PROVE  IInv' /\ astray' = astray
<1>1. /\ Typed /\ pos \in Nat /\ Parts \in Nat /\ seen.part \in 0..Parts /\ astray \in BOOLEAN
  BY Uploading
<1>2. PICK sent, at, n : LaidOut(sent, at, n, request) /\ n = Parts /\ pos <= Len(sent)
  BY Uploading
<1>3. /\ mp = [state |-> mp.state, boundary |-> TRUE, processing_part |-> seen.part]
      /\ mp.state = "WAITING_FOR_CHUNK" /\ Place /\ pc = "multipart"
      /\ seen = [phase |-> seen.phase, part |-> seen.part, name |-> seen.name, got |-> seen.got]
      /\ (astray => seen.part > 0)
  BY DEF InParts, wait_for_chunk, In
<1>4. /\ seen.phase = "part" /\ seen.part > 0 /\ Starts(request)[seen.part] + 8 <= pos
      /\ \E b \in {Starts(request)[seen.part], Starts(request)[seen.part] + 2} : HeldFrom(b)
  BY <1>3 DEF Place
<1>17. PICK j \in 1..n : j = seen.part
  BY <1>1, <1>2, <1>4
<1>5. PICK a : j = seen.part /\ a = at[j]
  BY <1>17
<1>6. /\ sent = Sent(request) /\ at = Starts(request) /\ sent \in Seq(Bytes) /\ Len(sent) \in Nat
      /\ BoundaryAt(sent, a)
  <2>1. j \in 1..n + 1
    BY <1>1, <1>2
  <2> QED
    BY <1>2, <1>5, <2>1 DEF LaidOut
<1>7. /\ a \in Nat /\ a + 8 <= Len(sent)
      /\ sent[a + 1] = "-" /\ sent[a + 2] = "-" /\ sent[a + 3] = "b1" /\ sent[a + 4] = "b2"
  BY <1>6 DEF BoundaryAt
<1>8. PICK b \in Nat : HeldFrom(b) /\ (b = a \/ b = a + 2)
  BY <1>4, <1>5, <1>6, <1>7
<1>9. Holds(sent, b)
  BY <1>1, <1>2, <1>6, <1>8, HeldAre
<1>10. recv_mbuf \in Seq(Bytes) /\ Len(recv_mbuf) = pos - b /\ b <= pos
  BY <1>9, HoldsIs DEF Holds
<1>11. PICK B \in Nat : B = a + 3
  BY <1>7
<1>12. a + 8 <= pos
  BY <1>4, <1>5, <1>6
<1>13. boundary = B - b
  <2>1. \A k \in b + 1..B - 1 : ~(sent[k] = "b1" /\ sent[k + 1] = "b2")
    <3> SUFFICES ASSUME NEW k \in b + 1..B - 1 PROVE sent[k] # "b1"
      OBVIOUS
    <3>1. k = a + 1 \/ k = a + 2
      BY <1>7, <1>8, <1>11
    <3> QED
      BY <1>7, <3>1
  <2>2. sent[B] = "b1" /\ sent[B + 1] = "b2"
    <3>1. B + 1 = a + 4
      BY <1>7, <1>11
    <3> QED
      BY <1>7, <1>11, <3>1
  <2>3. b < B /\ B < Len(sent) /\ B < pos
    BY <1>1, <1>2, <1>6, <1>7, <1>8, <1>11, <1>12
  <2> QED
    BY <1>9, <2>1, <2>2, <2>3, BoundaryFound
<1>14. PICK p, k, m, g : seen = [phase |-> p, part |-> k, name |-> m, got |-> g]
  BY <1>3
<1>15. CASE Waits
  <2>1. UNCHANGED <<request, pos, peer, rcvd, recv_mbuf, mp, seen, astray, send_mbuf, answers, flags, form>> /\ pc' = "poll"
    BY <1>15 DEF Waits, client, buffers, upload
  <2>2. Place'
    BY <1>3, <2>1, PlaceKept
  <2>3. Holds(sent, b)'
    BY <1>9, <2>1 DEF Holds
  <2>4. /\ mp' = [state |-> mp'.state, boundary |-> TRUE, processing_part |-> seen'.part]
        /\ mp'.state \in {"WAITING_FOR_BOUNDARY", "GOT_BOUNDARY", "WAITING_FOR_CHUNK", "FINALIZE"}
        /\ seen' = [phase |-> seen'.phase, part |-> seen'.part, name |-> seen'.name, got |-> seen'.got]
        /\ seen'.phase \in {"between", "part"} /\ seen'.part \in 0..Parts
        /\ astray' \in BOOLEAN /\ (astray' => seen'.part > 0)
    BY <1>1, <1>3, <1>4, <2>1
  <2> QED
    BY <1>6, <2>1, <2>2, <2>3, <2>4, PartsKept
<1>16. CASE ~Waits
  <2>1. /\ boundary # 0
        /\ Enter("WAITING_FOR_BOUNDARY") /\ mbuf_remove(boundary - 1) /\ UNCHANGED pc
        /\ UNCHANGED astray /\ Unsent
        /\ \E x : seen' = [seen EXCEPT !.got = x]
    <3>1. boundary # 0
      BY <1>7, <1>8, <1>11, <1>13
    <3>2. PICK size : Chunk(size) /\ Enter("WAITING_FOR_BOUNDARY") /\ mbuf_remove(boundary - 1)
                      /\ UNCHANGED pc /\ UNCHANGED astray /\ Unsent
      BY <1>16, <3>1, Zenon DEF wait_for_chunk
    <3>3. \E x : seen' = [seen EXCEPT !.got = x]
      BY <3>2 DEF Chunk
    <3> QED
      BY <3>1, <3>2, <3>3
  <2>2. UNCHANGED <<request, pos, peer, rcvd, astray, send_mbuf, answers, flags, form>> /\ pc' = "multipart"
    BY <1>3, <2>1 DEF Unsent, client
  <2>3. PICK x : seen' = [phase |-> "part", part |-> seen.part, name |-> seen.name, got |-> x]
    BY <1>4, <1>14, <2>1
  <2>4. mp' = [state |-> "WAITING_FOR_BOUNDARY", boundary |-> TRUE, processing_part |-> seen.part]
    BY <2>1, EnterIs
  <2>5. PICK c \in Nat : c = a + 2
    BY <1>7
  <2>6. Holds(sent, c)'
    <3>1. PICK l \in Nat : l = boundary - 1 /\ b + l = c /\ l \in 0..pos - b
      <4>1. boundary - 1 \in Nat /\ b + (boundary - 1) = c /\ boundary - 1 \in 0..pos - b
        BY <1>1, <1>7, <1>8, <1>11, <1>12, <1>13, <2>5
      <4> QED
        BY <4>1
    <3>2. mbuf_remove(l)
      BY <2>1, <3>1, Zenon
    <3>3. Holds(sent, b + l)'
      BY <1>9, <2>2, <3>1, <3>2, HoldsLess
    <3> QED
      BY <3>1, <3>3
  <2>7. /\ mp' = [state |-> mp'.state, boundary |-> TRUE, processing_part |-> seen'.part]
        /\ mp'.state = "WAITING_FOR_BOUNDARY"
        /\ seen' = [phase |-> seen'.phase, part |-> seen'.part, name |-> seen'.name, got |-> seen'.got]
        /\ seen'.phase = "part" /\ seen'.part = j
        /\ seen'.phase \in {"between", "part"} /\ seen'.part \in 0..Parts
        /\ astray' \in BOOLEAN /\ (astray' => seen'.part > 0)
    BY <1>1, <1>4, <1>5, <2>2, <2>3, <2>4
  <2>8. Place'
    <3>1. HeldFrom(c)'
      BY <1>6, <2>2, <2>6, HeldIs
    <3>2. Begun' = j
      BY <2>2, <2>7 DEF Begun
    <3>3. seen'.part # 0 /\ Starts(request')[Begun'] + 2 = c
      BY <1>1, <1>4, <1>5, <1>6, <2>2, <2>5, <2>7, <3>2
    <3>4. HeldFrom(IF seen.part = 0 THEN Starts(request)[1] ELSE Starts(request)[Begun] + 2)'
      BY <3>1, <3>3
    <3>5. ToldWhole'
      BY <2>2 DEF ToldWhole
    <3>6. AtBoundary'
      BY <2>7, <3>4, <3>5, Zenon DEF AtBoundary
    <3> QED
      BY <2>7, <3>6 DEF Place
  <2> QED
    BY <1>6, <2>2, <2>6, <2>7, <2>8, PartsKept
<1> QED
  BY <1>15, <1>16

\* A portion of the data is passed on.
LEMMA WaitForChunkStep ==
  ASSUME IInv, InParts, wait_for_chunk
  PROVE  /\ IInv' /\ astray' = astray
         /\ \/ seen' = seen
            \/ astray
            \/ /\ seen.phase = "part"
               /\ \E m \in Len(seen.got)..Len(request.parts[seen.part].data) :
                    seen' = [seen EXCEPT !.got = SubSeq(request.parts[seen.part].data, 1, m)]
<1>0. CASE astray
  BY <1>0, AstrayChunkStep
<1> SUFFICES ASSUME ~astray
             PROVE  /\ IInv' /\ astray' = astray
                    /\ \/ seen' = seen
                       \/ /\ seen.phase = "part"
                          /\ \E m \in Len(seen.got)..Len(request.parts[seen.part].data) :
                               seen' = [seen EXCEPT !.got = SubSeq(request.parts[seen.part].data, 1, m)]
  BY <1>0
<1>1. /\ Typed /\ pos \in Nat /\ Parts \in Nat /\ seen.part \in 0..Parts
      /\ request \in Requests /\ request.kind = "upload"
  BY Uploading
<1>2. PICK sent, at, n : LaidOut(sent, at, n, request) /\ n = Parts /\ pos <= Len(sent)
  BY Uploading
<1>3. /\ mp = [state |-> mp.state, boundary |-> TRUE, processing_part |-> seen.part]
      /\ mp.state = "WAITING_FOR_CHUNK" /\ Place /\ pc = "multipart"
      /\ seen = [phase |-> seen.phase, part |-> seen.part, name |-> seen.name, got |-> seen.got]
  BY DEF InParts, wait_for_chunk, In
<1>4. /\ seen.phase = "part" /\ seen.part > 0
      /\ Len(seen.got) \in 0..Len(request.parts[seen.part].data) /\ Told
      /\ HeldFrom(Starts(request)[seen.part] + Lead(request.parts[seen.part]) + Len(seen.got))
  BY <1>3 DEF Place
<1>5. PICK j, p, data, k : j = seen.part /\ p = request.parts[j] /\ data = p.data /\ k = j + 1
  OBVIOUS
<1>6. PICK a, e : a = at[j] /\ e = at[k]
  OBVIOUS
<1>7. /\ sent = Sent(request) /\ at = Starts(request) /\ sent \in Seq(Bytes) /\ Len(sent) \in Nat
      /\ BoundaryAt(sent, a) /\ BoundaryAt(sent, e) /\ PartAt(sent, a, e, p)
  <2>1. j \in 1..n /\ j \in 1..n + 1 /\ k \in 1..n + 1
    BY <1>1, <1>2, <1>4, <1>5
  <2> QED
    BY <1>2, <1>5, <1>6, <2>1 DEF LaidOut
<1>8. data \in Seq(STRING) /\ a \in Nat /\ e \in Nat
  BY <1>5, <1>7 DEF PartAt, BoundaryAt
<1>9. PICK d \in Nat : d = Len(data)
  BY <1>8
<1>22. PICK h \in {11, 14} : h = Lead(p)
  BY <1>7 DEF PartAt
<1>10. /\ e = a + h + 2 + d /\ e + 8 <= Len(sent)
       /\ \A i \in 1..d : sent[a + h + i] = data[i]
       /\ sent[e + 3] = "b1" /\ sent[e + 4] = "b2"
  BY <1>5, <1>7, <1>9, <1>22 DEF PartAt, BoundaryAt
<1>11. PICK g \in 0..d : g = Len(seen.got) /\ seen.got = SubSeq(data, 1, g)
  BY <1>4, <1>5, <1>9 DEF Told
<1>12. PICK b \in Nat : b = a + h + g
  BY <1>8
<1>13. Holds(sent, b)
  <2>1. HeldFrom(b)
    BY <1>4, <1>5, <1>6, <1>7, <1>11, <1>12, <1>22
  <2> QED
    BY <1>1, <1>2, <1>7, <2>1, HeldAre
<1>14. /\ recv_mbuf \in Seq(Bytes) /\ Len(recv_mbuf) = pos - b /\ b <= pos
  BY <1>13, HoldsIs DEF Holds
<1>15. PICK B \in Nat : B = e + 3
  BY <1>8
<1>16. b < B /\ B < Len(sent) /\ B - b = d - g + 5
  BY <1>7, <1>8, <1>10, <1>12, <1>15
<1>17. boundary = IF B < pos THEN B - b ELSE 0
  <2>1. \A i \in b + 1..B - 1 : ~(sent[i] = "b1" /\ sent[i + 1] = "b2")
    <3>1. \A i \in a + h + 1..e + 2 : ~(sent[i] = "b1" /\ sent[i + 1] = "b2")
      BY <1>7, <1>22, Unbroken
    <3>2. \A i \in b + 1..B - 1 : i \in a + h + 1..e + 2
      BY <1>8, <1>12, <1>15
    <3> QED
      BY <3>1, <3>2
  <2>2. sent[B] = "b1" /\ sent[B + 1] = "b2"
    <3>1. B + 1 = e + 4
      BY <1>8, <1>15
    <3> QED
      BY <1>10, <1>15, <3>1
  <2> QED
    BY <1>13, <1>16, <2>1, <2>2, BoundaryFound
<1>18. PICK ph, pt, nm, gt : seen = [phase |-> ph, part |-> pt, name |-> nm, got |-> gt]
  BY <1>3
<1>19. Len(Boundary) + 6 = 8
  BY Pairs
<1>20. CASE Len(recv_mbuf) < 8
  <2>1. Waits
    BY <1>19, <1>20 DEF wait_for_chunk
  <2>2. UNCHANGED <<request, pos, peer, rcvd, recv_mbuf, mp, seen, astray, send_mbuf, answers, flags, form>> /\ pc' = "poll"
    BY <2>1 DEF Waits, client, buffers, upload
  <2>3. Place'
    BY <1>3, <2>2, PlaceKept
  <2>4. Holds(sent, b)'
    BY <1>13, <2>2 DEF Holds
  <2>5. /\ mp' = [state |-> mp'.state, boundary |-> TRUE, processing_part |-> seen'.part]
        /\ mp'.state \in {"WAITING_FOR_BOUNDARY", "GOT_BOUNDARY", "WAITING_FOR_CHUNK", "FINALIZE"}
        /\ seen' = [phase |-> seen'.phase, part |-> seen'.part, name |-> seen'.name, got |-> seen'.got]
        /\ seen'.phase \in {"between", "part"} /\ seen'.part \in 0..Parts
    BY <1>1, <1>3, <1>4, <2>2
  <2>7. astray' \in BOOLEAN /\ (astray' => seen'.part > 0)
    <3>1. astray \in BOOLEAN
      BY <1>1 DEF Typed
    <3> QED
      BY <1>4, <2>2, <3>1
  <2>6. IInv'
    BY <1>1, <1>7, <2>2, <2>3, <2>4, <2>5, <2>7, PartsKept
  <2> QED
    BY <2>2, <2>6
<1>21. CASE ~(Len(recv_mbuf) < 8)
  <2> DEFINE size == IF boundary = 0 THEN Len(recv_mbuf) - 8 ELSE boundary - 1 - 4
  <2>1. /\ Chunk(size)
        /\ IF boundary = 0
           THEN pc' = "poll" /\ mbuf_remove(size) /\ UNCHANGED mp
           ELSE Enter("WAITING_FOR_BOUNDARY") /\ mbuf_remove(boundary - 1) /\ UNCHANGED pc
        /\ UNCHANGED astray /\ Unsent
    BY <1>19, <1>21 DEF wait_for_chunk
  <2>2. size \in 0..d - g /\ size <= Len(recv_mbuf)
    <3>1. CASE B < pos
      <4>1. boundary = d - g + 5
        BY <1>16, <1>17, <3>1
      <4>2. size = d - g
        BY <4>1
      <4>3. d - g + 5 < pos - b
        BY <1>1, <1>14, <1>16, <3>1
      <4> QED
        BY <1>1, <1>14, <4>2, <4>3
    <3>2. CASE ~(B < pos)
      <4>1. size = pos - b - 8
        BY <1>14, <1>17, <3>2
      <4>2. pos - b - 8 \in 0..d - g
        BY <1>1, <1>14, <1>16, <1>21, <3>2
      <4> QED
        BY <1>1, <1>14, <4>1, <4>2
    <3> QED
      BY <3>1, <3>2
  <2> HIDE DEF size
  <2>11. PICK z \in 0..d - g : z = size /\ z <= Len(recv_mbuf)
    BY <2>2
  <2>3. PICK m \in g..d : m = g + z
    OBVIOUS
  <2>4. SubSeq(data, 1, g) \o SubSeq(recv_mbuf, 1, z) = SubSeq(data, 1, m)
    <3>1. g \in 0..Len(data) /\ z \in 0..Len(data) - g
      BY <1>9
    <3>3. DataFrom(sent, b, data, g)
      <4> SUFFICES ASSUME NEW l \in 1..d - g PROVE sent[b + l] = data[g + l]
        BY <1>9 DEF DataFrom
      <4>1. g + l \in 1..d /\ a + h + (g + l) = b + l
        BY <1>8, <1>12
      <4> QED
        BY <1>10, <4>1
    <3>2. SubSeq(data, 1, g) \o SubSeq(recv_mbuf, 1, z) = SubSeq(data, 1, g + z)
      BY <1>8, <1>13, <2>11, <3>1, <3>3, ChunkIs
    <3> QED
      BY <2>3, <3>2
  <2>5. seen' = [seen EXCEPT !.got = SubSeq(data, 1, m)]
    <3>1. ~(size < 0)
      BY <2>11
    <3> QED
      BY <1>11, <2>1, <2>11, <2>4, <3>1 DEF Chunk
  <2>6. seen' = [phase |-> "part", part |-> seen.part, name |-> seen.name, got |-> SubSeq(data, 1, m)]
    BY <1>4, <1>18, <2>5
  <2>7. UNCHANGED <<request, pos, peer, rcvd, astray, send_mbuf, answers, flags, form>>
    BY <2>1 DEF Unsent, client
  <2>12. astray' \in BOOLEAN /\ (astray' => seen'.part > 0)
    <3>1. astray \in BOOLEAN
      BY <1>1 DEF Typed
    <3>2. seen'.part = seen.part
      BY <2>6
    <3> QED
      BY <1>4, <2>7, <3>1, <3>2
  <2>8. Len(SubSeq(data, 1, m)) = m
    BY <1>8, <1>9, SubSeqProperties
  <2>9. CASE B < pos
    <3>1. boundary = B - b /\ boundary # 0 /\ z = d - g /\ m = d
      BY <1>14, <1>16, <1>17, <2>11, <2>3, <2>9 DEF size
    <3>2. Enter("WAITING_FOR_BOUNDARY") /\ mbuf_remove(boundary - 1) /\ pc' = "multipart"
      BY <1>3, <2>1, <3>1
    <3>3. mp' = [state |-> "WAITING_FOR_BOUNDARY", boundary |-> TRUE, processing_part |-> seen.part]
      BY <3>2, EnterIs
    <3>4. PICK c \in Nat : c = e + 2
      BY <1>8
    <3>5. Holds(sent, c)'
      <4>2. PICK l \in Nat : l = B - b - 1
        BY <1>16
      <4>3. l = boundary - 1
        BY <3>1, <4>2
      <4>4. b + l = c
        BY <1>8, <1>15, <3>4, <4>2
      <4>5. l \in 0..pos - b
        BY <1>1, <1>14, <2>9, <4>2
      <4>1. l \in 0..pos - b /\ l = boundary - 1 /\ b + l = c
        BY <4>3, <4>4, <4>5
      <4> QED
        BY <1>13, <2>7, <3>2, <4>1, HoldsLess
    <3>6. Place'
      <4>1. HeldFrom(c)'
        BY <1>7, <2>7, <3>5, HeldIs
      <4>2. seen'.part = j /\ seen'.phase = "part" /\ j # 0 /\ j > 0 /\ Starts(request')[j + 1] + 2 = c
        BY <1>1, <1>4, <1>5, <1>6, <1>7, <2>6, <2>7, <3>4
      <4>3. seen'.got = data
        <5>1. SubSeq(data, 1, d) = data
          BY <1>8, <1>9, SubSeqFull
        <5> QED
          BY <2>6, <3>1, <5>1
      <4>4. ToldWhole'
        BY <1>5, <2>7, <4>2, <4>3 DEF ToldWhole
      <4>6. Begun' = j + 1
        BY <2>7, <4>2 DEF Begun
      <4>7. HeldFrom(IF seen.part = 0 THEN Starts(request)[1] ELSE Starts(request)[Begun] + 2)'
        BY <4>1, <4>2, <4>6
      <4>5. AtBoundary'
        BY <4>2, <4>4, <4>7, Zenon DEF AtBoundary
      <4> QED
        BY <3>3, <4>5 DEF Place
    <3>7. /\ mp' = [state |-> mp'.state, boundary |-> TRUE, processing_part |-> seen'.part]
          /\ mp'.state = "WAITING_FOR_BOUNDARY"
          /\ seen' = [phase |-> seen'.phase, part |-> seen'.part, name |-> seen'.name, got |-> seen'.got]
          /\ seen'.phase \in {"between", "part"} /\ seen'.part \in 0..Parts
      BY <1>1, <2>6, <3>3
    <3>8. IInv'
      BY <1>7, <2>7, <2>12, <3>2, <3>5, <3>6, <3>7, PartsKept
    <3> QED
      BY <1>4, <1>5, <1>9, <1>11, <2>5, <2>7, <3>8
  <2>10. CASE ~(B < pos)
    <3>1. boundary = 0
      BY <1>17, <2>10
    <3>2. pc' = "poll" /\ mbuf_remove(z) /\ mp' = mp
      BY <2>1, <2>11, <3>1
    <3>3. PICK c \in Nat : c = a + h + m
      BY <1>8
    <3>4. Holds(sent, c)'
      <4>1. z \in 0..pos - b /\ b + z = c
        BY <1>8, <1>12, <1>14, <2>11, <2>3, <3>3
      <4>2. Holds(sent, b + z)'
        BY <1>13, <2>7, <3>2, <4>1, HoldsLess
      <4> QED
        BY <4>1, <4>2
    <3>5. Place'
      <4>1. HeldFrom(c)'
        BY <1>7, <2>7, <3>4, HeldIs
      <4>2. seen'.part = j /\ seen'.phase = "part" /\ j > 0 /\ seen'.got = SubSeq(data, 1, m) /\ Len(seen'.got) = m
        BY <1>4, <1>5, <2>6, <2>8
      <4>3. Starts(request')[j] + Lead(request'.parts[j]) + Len(seen'.got) = c
        BY <1>5, <1>6, <1>7, <1>22, <2>7, <3>3, <4>2
      <4>4. request'.parts[j].data = data /\ Len(seen'.got) \in 0..Len(data)
        BY <1>5, <1>9, <2>7, <4>2
      <4>5. Told'
        BY <4>2, <4>4 DEF Told
      <4>6. HeldFrom(Starts(request)[seen.part] + Lead(request.parts[seen.part]) + Len(seen.got))'
        BY <4>1, <4>2, <4>3 DEF Lead
      <4> QED
        BY <1>3, <2>7, <3>2, <4>2, <4>4, <4>5, <4>6 DEF Place
    <3>6. /\ mp' = [state |-> mp'.state, boundary |-> TRUE, processing_part |-> seen'.part]
          /\ mp'.state = "WAITING_FOR_CHUNK"
          /\ seen' = [phase |-> seen'.phase, part |-> seen'.part, name |-> seen'.name, got |-> seen'.got]
          /\ seen'.phase \in {"between", "part"} /\ seen'.part \in 0..Parts
      BY <1>1, <1>3, <2>6, <3>2
    <3>7. IInv'
      BY <1>7, <2>7, <2>12, <3>2, <3>4, <3>5, <3>6, PartsKept
    <3> QED
      BY <1>4, <1>5, <1>9, <1>11, <2>5, <2>7, <3>7
  <2> QED
    BY <2>9, <2>10
<1> QED
  BY <1>20, <1>21

\* More of an upload is received.
LEMMA ReceivePartsStep ==
  ASSUME IInv, InParts, NEW n \in 1..Len(Stream) - pos, Receive(n)
  PROVE  IInv'
<1>1. /\ Typed /\ Stream = Sent(request) /\ Sent(request) \in Seq(Bytes) /\ Len(Sent(request)) \in Nat
      /\ pos \in Nat /\ pos <= Len(Sent(request)) /\ mp.boundary = TRUE
  BY Holding, Uploading
<1>2. PICK sent : sent = Sent(request)
  OBVIOUS
<1>3. /\ UNCHANGED <<request, peer, mp, seen, astray, form, send_mbuf, answers, flags>>
      /\ pos' = pos + n /\ rcvd' = rcvd + n /\ pc' = "multipart"
      /\ recv_mbuf' = recv_mbuf \o SubSeq(sent, pos + 1, pos + n)
  BY <1>1, <1>2 DEF Receive, upload
<1>4. rcvd = pos /\ Place /\ form = NoForm /\ (astray => seen.part > 0)
  BY DEF InParts
<1>5. n \in 1..Len(sent) - pos
  BY <1>1, <1>2
<1>6. ASSUME NEW b, HeldFrom(b)
      PROVE  Holds(sent, b)' /\ HeldFrom(b)'
  <2>1. Holds(sent, b)
    BY <1>1, <1>2, <1>6, HeldAre
  <2>2. Holds(sent, b)'
    BY <1>3, <1>5, <2>1, HoldsMore
  <2> QED
    BY <1>2, <1>3, <2>2, HeldIs
<1>13. Begun' = Begun /\ Parts' = Parts
  BY <1>3 DEF Begun, Parts
<1>7. Place'
  <2>1. AtBoundary => AtBoundary'
    <3> SUFFICES ASSUME AtBoundary PROVE AtBoundary'
      OBVIOUS
    <3>1. PICK b : b = IF seen.part = 0 THEN Starts(request)[1] ELSE Starts(request)[Begun] + 2
      OBVIOUS
    <3>2. HeldFrom(b)'
      BY <1>6, <3>1 DEF AtBoundary
    <3>3. HeldFrom(IF seen.part = 0 THEN Starts(request)[1] ELSE Starts(request)[Begun] + 2)'
      BY <1>3, <1>13, <3>1, <3>2
    <3>4. seen'.phase \in {"between", "part"} /\ ToldWhole'
      BY <1>3 DEF AtBoundary, ToldWhole
    <3> QED
      BY <3>3, <3>4, Zenon DEF AtBoundary
  <2>2. CASE mp.state = "WAITING_FOR_BOUNDARY"
    BY <1>3, <1>4, <2>1, <2>2 DEF Place
  <2>3. CASE mp.state = "GOT_BOUNDARY"
    <3>1. /\ AtBoundary /\ Begun <= Parts /\ Starts(request)[Begun] + 8 <= pos
      BY <1>4, <2>3 DEF Place
    <3>2. Starts(request)[Begun] + 8 <= pos + n
      <4>1. PICK k, at, m : LaidOut(k, at, m, request) /\ m = Parts /\ Begun \in 1..Parts + 1
        BY Uploading
      <4>2. BoundaryAt(k, at[Begun]) /\ at = Starts(request)
        BY <4>1 DEF LaidOut
      <4>3. PICK a \in Nat : a = Starts(request)[Begun]
        BY <4>2 DEF BoundaryAt
      <4>4. a + 8 <= pos
        BY <3>1, <4>3
      <4> QED
        BY <1>1, <4>3, <4>4
    <3> QED
      BY <1>3, <1>13, <2>1, <2>3, <3>1, <3>2 DEF Place
  <2>6. CASE mp.state = "WAITING_FOR_CHUNK" /\ astray
    <3>1. /\ seen.phase = "part" /\ Starts(request)[seen.part] + 8 <= pos
      BY <1>4, <2>6 DEF Place
    <3>2. PICK b \in {Starts(request)[seen.part], Starts(request)[seen.part] + 2} : HeldFrom(b)
      BY <1>4, <2>6 DEF Place
    <3>3. HeldFrom(b)'
      BY <1>6, <3>2
    <3>4. \E c \in {Starts(request')[seen'.part], Starts(request')[seen'.part] + 2} : HeldFrom(c)'
      BY <1>3, <3>2, <3>3, Zenon
    <3>5. Starts(request')[seen'.part] + 8 <= pos'
      <4>1. PICK k, at, m : LaidOut(k, at, m, request) /\ m = Parts /\ seen.part \in 0..Parts
        BY Uploading
      <4>2. BoundaryAt(k, at[seen.part]) /\ at = Starts(request)
        <5>1. seen.part \in 1..m + 1
          <6>1. seen.part > 0 /\ m \in Nat
            BY <1>4, <2>6, <4>1, Uploading
          <6>2. seen.part \in 0..m
            BY <4>1
          <6> QED
            BY <6>1, <6>2
        <5> QED
          BY <4>1, <5>1 DEF LaidOut
      <4>3. PICK a \in Nat : a = Starts(request)[seen.part]
        BY <4>2 DEF BoundaryAt
      <4>4. a + 8 <= pos + n
        BY <1>1, <3>1, <4>3
      <4> QED
        BY <1>3, <4>3, <4>4
    <3> QED
      BY <1>3, <2>6, <3>1, <3>4, <3>5, Zenon DEF Place
  <2>4. CASE mp.state = "WAITING_FOR_CHUNK" /\ ~astray
    <3>1. /\ seen.phase = "part" /\ seen.part > 0
          /\ Len(seen.got) \in 0..Len(request.parts[seen.part].data) /\ Told
          /\ HeldFrom(Starts(request)[seen.part] + Lead(request.parts[seen.part]) + Len(seen.got))
      BY <1>4, <2>4 DEF Place
    <3>2. PICK b : b = Starts(request)[seen.part] + Lead(request.parts[seen.part]) + Len(seen.got)
      OBVIOUS
    <3>3. HeldFrom(b)'
      BY <1>6, <3>1, <3>2
    <3>4. HeldFrom(Starts(request)[seen.part] + Lead(request.parts[seen.part]) + Len(seen.got))'
      BY <1>3, <3>2, <3>3 DEF Lead
    <3>5. Told'
      BY <1>3, <3>1 DEF Told
    <3> QED
      BY <1>3, <2>4, <3>1, <3>4, <3>5 DEF Place
  <2>5. CASE mp.state = "FINALIZE"
    BY <1>1, <1>4, <2>5 DEF Place
  <2> QED
    BY <1>4, <2>2, <2>3, <2>4, <2>5, <2>6 DEF Place
<1>8. (\E c : Holds(Sent(request), c))'
  <2>1. PICK b : Holds(sent, b)
    BY <1>1, <1>2 DEF Typed
  <2>2. Holds(sent, b)'
    BY <1>3, <1>5, <2>1, HoldsMore
  <2> QED
    BY <1>2, <1>3, <2>2, HeldStill
<1>9. Typed'
  BY <1>1, <1>3, <1>4, <1>8 DEF Typed
<1>10. FormIsWhole' /\ FieldsAreRead'
  BY <1>3, <1>4, FormsKept DEF IInv, NoForm
<1>11. AnsweredOnce'
  BY <1>3 DEF IInv, AnsweredOnce
<1>12. InParts'
  <2>1. Parts' = Parts /\ Refused' = Refused
    BY <1>3 DEF Parts, Refused
  <2>2. rcvd' = pos' /\ pc' \in {"poll", "multipart"}
    BY <1>3, <1>4
  <2> QED
    BY <1>3, <1>4, <1>7, <2>1, <2>2 DEF InParts
<1> QED
  BY <1>9, <1>10, <1>11, <1>12, TypedPrime DEF IInv

\* Steps of an upload whose parts are passed on.
LEMMA InPartsStep ==
  ASSUME IInv, InParts, Next, ~ClientLeaves
  PROVE  IInv'
<1>1. /\ Typed /\ pos \in Nat /\ mp.boundary = TRUE
  BY Uploading
<1>2. /\ send_mbuf \in Nat /\ answers \in Nat /\ peer \in {"open", "shut", "reset"}
  BY <1>1 DEF Typed
<1>3. /\ rcvd = pos /\ Place /\ pc \in {"poll", "multipart"}
      /\ seen = [phase |-> seen.phase, part |-> seen.part, name |-> seen.name, got |-> seen.got]
      /\ send_mbuf + answers = Refused
  BY DEF InParts
<1>4. ASSUME UNCHANGED <<request, pos, recv_mbuf, form, seen, mp, astray, rcvd>>, pc' = "poll",
             send_mbuf' + answers' = send_mbuf + answers
      PROVE  InParts'
  <2>1. Place'
    BY <1>3, <1>4, PlaceKept
  <2>2. Parts' = Parts /\ Refused' = Refused
    BY <1>4 DEF Parts, Refused
  <2> QED
    BY <1>4, <2>1, <2>2 DEF InParts
<1>5. CASE Close
  <2>1. /\ UNCHANGED <<request, pos, peer, answers, mp, astray, recv_mbuf, send_mbuf, rcvd, flags, form>>
        /\ pc' = "lost" /\ seen' = [seen EXCEPT !.phase = "lost"]
    BY <1>1, <1>5 DEF Close, client, buffers
  <2>2. PICK p, k, m, g : seen = [phase |-> p, part |-> k, name |-> m, got |-> g]
    BY <1>3
  <2>3. seen' = [phase |-> "lost", part |-> seen.part, name |-> seen.name, got |-> seen.got]
    BY <2>1, <2>2
  <2>4. Typed'
    <3>1. PICK sent, b : sent = Sent(request) /\ Holds(sent, b)
      BY <1>1 DEF Typed
    <3>2. Holds(sent, b)'
      BY <2>1, <3>1 DEF Holds
    <3>3. (\E c : Holds(Sent(request), c))'
      BY <2>1, <3>1, <3>2, HeldStill
    <3> QED
      BY <1>1, <2>1, <2>3, <3>3 DEF Typed
  <2>5. FormIsWhole' /\ FieldsAreRead'
    BY <2>1, FormsKept DEF IInv
  <2>6. AnsweredOnce'
    BY <2>1 DEF IInv, AnsweredOnce
  <2>7. Lost'
    BY <1>3, <2>1, <2>3 DEF InParts, Lost, Refused
  <2> QED
    BY <2>4, <2>5, <2>6, <2>7, TypedPrime DEF IInv
<1>6. CASE ReceiveEnd
  <2>1. /\ UNCHANGED <<request, pos, peer, recv_mbuf, form, seen, mp, astray, send_mbuf, answers, rcvd>>
        /\ pc' = "poll"
        /\ flags' \subseteq flags \cup {"SEND_AND_CLOSE", "CLOSE_IMMEDIATELY"}
    BY <1>6 DEF ReceiveEnd, client, buffers, upload
  <2>2. InParts'
    BY <1>4, <2>1
  <2> QED
    BY <1>2, <1>3, <2>1, <2>2, BytesKept DEF IInv
<1>7. CASE Send
  <2>1. /\ UNCHANGED <<request, pos, peer, recv_mbuf, form, seen, mp, astray, rcvd, flags>>
        /\ pc' = "poll" /\ send_mbuf' = 0 /\ answers' = answers + send_mbuf
    BY <1>7 DEF Send, client, upload
  <2>2. send_mbuf' \in Nat /\ answers' \in Nat /\ send_mbuf' + answers' = send_mbuf + answers
    BY <1>2, <2>1
  <2>3. InParts'
    BY <1>4, <2>1, <2>2
  <2> QED
    BY <1>2, <1>3, <2>1, <2>2, <2>3, BytesKept DEF IInv
<1>9. ~CloseEndsRequest /\ ~Parse
  BY <1>3 DEF CloseEndsRequest, Parse, HeadIncomplete, MultipartBegin, BodyIncomplete, RequestDone
<1>10. CASE Multipart
  BY <1>10, WaitForBoundaryStep, ProcessBoundaryIncompleteStep, PartEndStep, ProcessBoundaryStep,
     WaitForChunkStep, FinalizeStep DEF Multipart
<1> QED
  BY <1>5, <1>6, <1>7, <1>9, <1>10, ReceivePartsStep DEF Next, Poll

-----------------------------------------------------------------------------
(***************************************************************************)
(* The theorems.                                                           *)
(***************************************************************************)

LEMMA InitIInv == Init => IInv
<1> SUFFICES ASSUME Init PROVE IInv
  OBVIOUS
<1>1. /\ request \in Requests /\ pos = 0 /\ peer = "open" /\ pc = "poll" /\ recv_mbuf = <<>>
      /\ send_mbuf = 0 /\ answers = 0 /\ rcvd = 0 /\ mp = Boundless /\ flags = {}
      /\ astray = FALSE /\ seen = NothingSeen /\ form = NoForm
  BY DEF Init
<1>2. Sent(request) \in Seq(Bytes) /\ Len(Sent(request)) \in Nat /\ Stream = Sent(request)
  BY <1>1, SentIs, StreamIs
<1>3. SubSeq(Sent(request), 1, 0) = <<>>
  BY <1>2, SubSeqEmpty
<1>4. Holds(Sent(request), 0)
  BY <1>1, <1>2, <1>3 DEF Holds
<1>5. Typed
  BY <1>1, <1>4 DEF Typed, Boundless, NothingSeen
<1>6. AnsweredOnce
  BY <1>1 DEF AnsweredOnce
<1>7. FormIsWhole
  BY <1>1 DEF FormIsWhole, NoForm
<1>8. FieldsAreRead
  BY <1>1, Zenon DEF FieldsAreRead, NoForm
<1>9. Gathers
  BY <1>1, <1>2, <1>3 DEF Gathers
<1> QED
  BY <1>5, <1>6, <1>7, <1>8, <1>9, TypedIs DEF IInv

\* Nothing happens but that the client goes away,
LEMMA StillIInv ==
  ASSUME IInv,
         UNCHANGED <<request, pos, pc, recv_mbuf, send_mbuf, answers, rcvd, mp, flags, seen, astray, form>>,
         peer' \in {"open", "shut", "reset"}, peer' = "open" => peer = "open"
  PROVE  IInv'
<1>1. UNCHANGED <<request, pos, pc, recv_mbuf, send_mbuf, answers, rcvd, mp, flags, seen, astray, form>>
  OBVIOUS
<1>2. TypeOK' /\ AnsweredOnce' /\ FormIsWhole' /\ FieldsAreRead'
  BY <1>1, Holding, BytesKept DEF IInv, Typed
<1>3. Gathers \/ Handled \/ InParts \/ Lost \/ pc \in {"closed", "restarted"}
  BY DEF IInv
<1>4. Stream' = Stream /\ Parts' = Parts /\ Refused' = Refused
  BY <1>1, StreamKept DEF Parts, Refused
<1>5. Gathers => Gathers'
  BY <1>1, <1>4 DEF Gathers
<1>6. Handled => Handled'
  BY <1>1, <1>4 DEF Handled
<1>7. InParts => InParts'
  <2>1. InParts => Place'
    BY <1>1, PlaceKept DEF InParts
  <2> QED
    BY <1>1, <1>4, <2>1 DEF InParts
<1>8. Lost => Lost'
  BY <1>1, <1>4 DEF Lost
<1> QED
  BY <1>1, <1>2, <1>3, <1>5, <1>6, <1>7, <1>8 DEF IInv

LEMMA StutterIInv ==
  ASSUME IInv, UNCHANGED vars \/ ClientLeaves
  PROVE  IInv'
<1>1. peer \in {"open", "shut", "reset"}
  BY Holding DEF Typed
<1>2. CASE UNCHANGED vars
  <2>1. UNCHANGED <<request, pos, peer, pc, recv_mbuf, send_mbuf, answers, rcvd, mp, flags, seen, astray, form>>
    BY <1>2 DEF vars, client, buffers, upload
  <2> QED
    BY <1>1, <2>1, StillIInv
<1>3. CASE ClientLeaves
  <2>1. /\ UNCHANGED <<request, pos, pc, recv_mbuf, send_mbuf, answers, rcvd, mp, flags, seen, astray, form>>
        /\ peer' \in {"shut", "reset"}
    BY <1>3 DEF ClientLeaves, buffers, upload
  <2> QED
    BY <2>1, StillIInv
<1> QED
  BY <1>2, <1>3

LEMMA NextIInv == IInv /\ [Next]_vars => IInv'
BY GathersStep, HandledStep, InPartsStep, LostStep, ClosedStep, StutterIInv DEF IInv

LEMMA SpecIInv == Spec => []IInv
BY InitIInv, NextIInv, PTL DEF Spec

\* The state of the connection is of its types, and what is in recv_mbuf is
\* always a piece of what the client sends that ends where it has been received.
THEOREM TypeInvariant == Spec => []TypeOK
BY SpecIInv, PTL DEF IInv

\* No request is answered twice, but for an upload that was refused.
THEOREM RequestAnsweredOnce == Spec => []AnsweredOnce
BY SpecIInv, PTL DEF IInv

\* Whatever the portions, event_handler is not called with a part of a form
\* while its client is there.
THEOREM FormWhole == Spec => []FormIsWhole
BY SpecIInv, PTL DEF IInv

\* What is read of a form is what was typed, as far as it came and fits.
THEOREM FieldsRead == Spec => []FieldsAreRead
BY SpecIInv, PTL DEF IInv

-----------------------------------------------------------------------------
(***************************************************************************)
(* The loop of mg_http_multipart_continue.                                 *)
(***************************************************************************)

\* While the loop runs, the parts of an upload are passed on.
LEMMA Parsing ==
  ASSUME IInv, pc = "multipart"
  PROVE  InParts /\ Place /\ Typed /\ recv_mbuf \in Seq(Bytes)
<1>1. InParts
  BY DEF IInv, Gathers, Handled, Lost
<1>2. Place
  BY <1>1 DEF InParts
<1>3. Typed /\ \E b : Holds(Sent(request), b)
  BY Holding DEF IInv, Typed
<1>4. recv_mbuf \in Seq(Bytes)
  BY <1>3, HoldsIs
<1> QED
  BY <1>1, <1>2, <1>3, <1>4

\* What is found is in the buffer.
LEMMA FoundIn ==
  ASSUME NEW pattern, Len(pattern) \in Nat \ {0}, Len(recv_mbuf) \in Nat
  PROVE  /\ c_strnstr(pattern) \in Nat
         /\ c_strnstr(pattern) # 0 => c_strnstr(pattern) + Len(pattern) <= Len(recv_mbuf) + 1
<1> DEFINE places == {i \in 1..Len(recv_mbuf) - Len(pattern) + 1 :
                        SubSeq(recv_mbuf, i, i + Len(pattern) - 1) = pattern}
<1>1. c_strnstr(pattern) = IF places = {} THEN 0 ELSE Min(places)
  BY Zenon DEF c_strnstr
<1>2. places \subseteq Nat /\ \A i \in places : i \in Nat /\ i + Len(pattern) <= Len(recv_mbuf) + 1
  OBVIOUS
<1> HIDE DEF places
<1>3. CASE places = {}
  BY <1>1, <1>3
<1>4. CASE places # {}
  <2>1. PICK n \in places : \A m \in places : n <= m
    BY <1>2, <1>4, Least
  <2>2. Min(places) = n
    BY <1>2, <2>1, LeastIs
  <2> QED
    BY <1>1, <1>2, <1>4, <2>1, <2>2
<1> QED
  BY <1>3, <1>4

\* While the data of a part is passed on, a boundary that is found is the next,
\* and the line end and the dashes before it are in the buffer with it.
LEMMA ChunkAhead ==
  ASSUME IInv, InParts, mp.state = "WAITING_FOR_CHUNK", ~astray
  PROVE  boundary \in Nat /\ (boundary # 0 => boundary >= 5)
<1>1. /\ Typed /\ pos \in Nat /\ Parts \in Nat /\ seen.part \in 0..Parts
      /\ request \in Requests /\ request.kind = "upload"
  BY Uploading
<1>2. PICK sent, at, n : LaidOut(sent, at, n, request) /\ n = Parts /\ pos <= Len(sent)
  BY Uploading
<1>3. /\ mp = [state |-> mp.state, boundary |-> TRUE, processing_part |-> seen.part]
      /\ mp.state = "WAITING_FOR_CHUNK" /\ Place
      /\ seen = [phase |-> seen.phase, part |-> seen.part, name |-> seen.name, got |-> seen.got]
  BY DEF InParts
<1>4. /\ seen.phase = "part" /\ seen.part > 0
      /\ Len(seen.got) \in 0..Len(request.parts[seen.part].data) /\ Told
      /\ HeldFrom(Starts(request)[seen.part] + Lead(request.parts[seen.part]) + Len(seen.got))
  BY <1>3 DEF Place
<1>5. PICK j, p, data, k : j = seen.part /\ p = request.parts[j] /\ data = p.data /\ k = j + 1
  OBVIOUS
<1>6. PICK a, e : a = at[j] /\ e = at[k]
  OBVIOUS
<1>7. /\ sent = Sent(request) /\ at = Starts(request) /\ sent \in Seq(Bytes) /\ Len(sent) \in Nat
      /\ BoundaryAt(sent, a) /\ BoundaryAt(sent, e) /\ PartAt(sent, a, e, p)
  <2>1. j \in 1..n /\ j \in 1..n + 1 /\ k \in 1..n + 1
    BY <1>1, <1>2, <1>4, <1>5
  <2> QED
    BY <1>2, <1>5, <1>6, <2>1 DEF LaidOut
<1>8. data \in Seq(STRING) /\ a \in Nat /\ e \in Nat
  BY <1>5, <1>7 DEF PartAt, BoundaryAt
<1>9. PICK d \in Nat : d = Len(data)
  BY <1>8
<1>18. PICK h \in {11, 14} : h = Lead(p)
  BY <1>7 DEF PartAt
<1>10. /\ e = a + h + 2 + d /\ e + 8 <= Len(sent)
       /\ \A i \in 1..d : sent[a + h + i] = data[i]
       /\ sent[e + 3] = "b1" /\ sent[e + 4] = "b2"
  BY <1>5, <1>7, <1>9, <1>18 DEF PartAt, BoundaryAt
<1>11. PICK g \in 0..d : g = Len(seen.got) /\ seen.got = SubSeq(data, 1, g)
  BY <1>4, <1>5, <1>9 DEF Told
<1>12. PICK b \in Nat : b = a + h + g
  BY <1>8
<1>13. Holds(sent, b)
  <2>1. HeldFrom(b)
    BY <1>4, <1>5, <1>6, <1>7, <1>11, <1>12, <1>18
  <2> QED
    BY <1>1, <1>2, <1>7, <2>1, HeldAre
<1>14. /\ recv_mbuf \in Seq(Bytes) /\ Len(recv_mbuf) = pos - b /\ b <= pos
  BY <1>13, HoldsIs DEF Holds
<1>15. PICK B \in Nat : B = e + 3
  BY <1>8
<1>16. b < B /\ B < Len(sent) /\ B - b = d - g + 5
  BY <1>7, <1>8, <1>10, <1>12, <1>15
<1>17. boundary = IF B < pos THEN B - b ELSE 0
  <2>1. \A i \in b + 1..B - 1 : ~(sent[i] = "b1" /\ sent[i + 1] = "b2")
    <3>1. \A i \in a + h + 1..e + 2 : ~(sent[i] = "b1" /\ sent[i + 1] = "b2")
      BY <1>7, <1>18, Unbroken
    <3>2. \A i \in b + 1..B - 1 : i \in a + h + 1..e + 2
      BY <1>8, <1>12, <1>15
    <3> QED
      BY <3>1, <3>2
  <2>2. sent[B] = "b1" /\ sent[B + 1] = "b2"
    <3>1. B + 1 = e + 4
      BY <1>8, <1>15
    <3> QED
      BY <1>10, <1>15, <3>1
  <2> QED
    BY <1>13, <1>16, <2>1, <2>2, BoundaryFound
<1> QED
  BY <1>16, <1>17

\* What a buffer of l bytes, a state s of the parser and a phase p leave to do.
Left(l, s, p) == 2 * l + (IF s = "WAITING_FOR_BOUNDARY" THEN 1 ELSE 0) + (IF p = "part" THEN 1 ELSE 0)

\* Less is left when the buffer is shorter, or when it is not longer and something
\* else is done.
LEMMA LessLeft ==
  ASSUME NEW l \in Nat, NEW m \in Nat, NEW s, NEW t, NEW p, NEW q,
         \/ m < l /\ (s = t \/ p = q)
         \/ m + 2 <= l
         \/ m = l /\ s = "WAITING_FOR_BOUNDARY" /\ t # s /\ p = q
         \/ m = l /\ p = "part" /\ q # p /\ s = t
  PROVE  Left(m, t, q) < Left(l, s, p)
<1>1. PICK u \in 0..1 : u = IF s = "WAITING_FOR_BOUNDARY" THEN 1 ELSE 0
  OBVIOUS
<1>2. PICK v \in 0..1 : v = IF t = "WAITING_FOR_BOUNDARY" THEN 1 ELSE 0
  OBVIOUS
<1>3. PICK w \in 0..1 : w = IF p = "part" THEN 1 ELSE 0
  OBVIOUS
<1>4. PICK x \in 0..1 : x = IF q = "part" THEN 1 ELSE 0
  OBVIOUS
<1>5. Left(l, s, p) = 2 * l + u + w /\ Left(m, t, q) = 2 * m + v + x
  BY <1>1, <1>2, <1>3, <1>4 DEF Left
<1>6. CASE m < l /\ (s = t \/ p = q)
  <2>1. u = v \/ w = x
    BY <1>1, <1>2, <1>3, <1>4, <1>6
  <2> QED
    BY <1>5, <1>6, <2>1
<1>7. CASE m + 2 <= l
  BY <1>5, <1>7
<1>8. CASE m = l /\ s = "WAITING_FOR_BOUNDARY" /\ t # s /\ p = q
  <2>1. u = 1 /\ v = 0 /\ w = x
    BY <1>1, <1>2, <1>3, <1>4, <1>8
  <2> QED
    BY <1>5, <1>8, <2>1
<1>9. CASE m = l /\ p = "part" /\ q # p /\ s = t
  <2>1. u = v /\ w = 1 /\ x = 0
    BY <1>1, <1>2, <1>3, <1>4, <1>9
  <2> QED
    BY <1>5, <1>9, <2>1
<1> QED
  BY <1>6, <1>7, <1>8, <1>9

\* What is removed is no longer in the buffer.
LEMMA RemovedIs ==
  ASSUME recv_mbuf \in Seq(Bytes), NEW n \in 0..Len(recv_mbuf), mbuf_remove(n)
  PROVE  Len(recv_mbuf') = Len(recv_mbuf) - n
<1>1. PICK l \in Nat : l = Len(recv_mbuf)
  OBVIOUS
<1>2. Len(SubSeq(recv_mbuf, n + 1, l)) = l - n
  BY <1>1, Window
<1>3. n <= l
  BY <1>1
<1> QED
  BY <1>1, <1>2, <1>3 DEF mbuf_remove

\* A turn that takes bytes out of the buffer.
LEMMA RemovesWork ==
  ASSUME recv_mbuf \in Seq(Bytes), NEW n \in 1..Len(recv_mbuf), mbuf_remove(n),
         n >= 2 \/ mp'.state = mp.state \/ seen'.phase = seen.phase
  PROVE  Work' < Work
<1>1. PICK l \in Nat : l = Len(recv_mbuf)
  OBVIOUS
<1>2. PICK m \in Nat : m = Len(recv_mbuf') /\ m = l - n
  <2>1. n \in 0..Len(recv_mbuf) /\ l - n \in Nat
    BY <1>1
  <2> QED
    BY <1>1, <2>1, RemovedIs
<1>3. PICK s, t, p, q : s = mp.state /\ t = mp'.state /\ p = seen.phase /\ q = seen'.phase
  OBVIOUS
<1>4. Left(m, t, q) < Left(l, s, p)
  <2>1. n \in 1..l /\ (n >= 2 \/ s = t \/ p = q)
    BY <1>1, <1>3
  <2>2. m < l /\ (n >= 2 => m + 2 <= l)
    BY <1>2, <2>1
  <2> QED
    BY <2>1, <2>2, LessLeft
<1> QED
  BY <1>1, <1>2, <1>3, <1>4 DEF Left, Work

\* A turn that takes none.
LEMMA StaysWork ==
  ASSUME Len(recv_mbuf) \in Nat, recv_mbuf' = recv_mbuf,
         \/ /\ mp.state = "WAITING_FOR_BOUNDARY" /\ mp'.state # mp.state
            /\ seen'.phase = seen.phase
         \/ seen.phase = "part" /\ seen'.phase # seen.phase /\ mp'.state = mp.state
  PROVE  Work' < Work
<1>1. PICK l \in Nat : l = Len(recv_mbuf) /\ l = Len(recv_mbuf')
  OBVIOUS
<1>2. PICK s, t, p, q : s = mp.state /\ t = mp'.state /\ p = seen.phase /\ q = seen'.phase
  OBVIOUS
<1>3. Left(l, t, q) < Left(l, s, p)
  BY <1>1, <1>2, LessLeft
<1> QED
  BY <1>1, <1>2, <1>3 DEF Left, Work

\* The empty line is in the buffer.
LEMMA EmptyLineIn ==
  ASSUME recv_mbuf \in Seq(Bytes), boundary \in Nat, EmptyLine # 0
  PROVE  EmptyLine + 1 \in 2..Len(recv_mbuf)
<1> DEFINE first == boundary_end + 2
           lines == {i \in first..Len(recv_mbuf) - 1 :
                       /\ i = first \/ recv_mbuf[i - 1] = "\n"
                       /\ SubSeq(recv_mbuf, i, i + 1) = CRLF}
<1>1. EmptyLine = IF lines = {} THEN 0 ELSE Min(lines)
  BY Zenon DEF EmptyLine
<1>2. first \in Nat /\ first >= 4
  BY Pairs DEF boundary_end
<1>3. lines \subseteq Nat /\ \A i \in lines : i \in 1..Len(recv_mbuf) - 1
  <2> HIDE DEF first
  <2> QED
    BY <1>2
<1> HIDE DEF lines
<1>4. lines # {}
  BY <1>1
<1>5. PICK n \in lines : \A m \in lines : n <= m
  BY <1>3, <1>4, Least
<1>6. EmptyLine = n
  BY <1>1, <1>3, <1>4, <1>5, LeastIs
<1>7. n \in 1..Len(recv_mbuf) - 1
  BY <1>3
<1> QED
  BY <1>6, <1>7

\* Each turn of the loop, but for one that begins a part too early and those that
\* follow it.
LEMMA MultipartAdvances ==
  ASSUME IInv, Multipart, ~astray'
  PROVE  pc' # "multipart" \/ Work' < Work
<1>1. pc = "multipart"
  BY DEF Multipart, wait_for_boundary, process_boundary_incomplete, process_boundary_part_end,
         process_boundary, wait_for_chunk, finalize_part, finalize, In
<1>2. /\ InParts /\ Place /\ recv_mbuf \in Seq(Bytes) /\ Len(recv_mbuf) \in Nat
  BY <1>1, Parsing
<1>3. /\ boundary \in Nat /\ boundary_end = boundary + 2
      /\ boundary # 0 => boundary_end <= Len(recv_mbuf) + 1
  <2>1. Len(Boundary) = 2
    BY Pairs
  <2>2. /\ c_strnstr(Boundary) \in Nat
        /\ c_strnstr(Boundary) # 0 => c_strnstr(Boundary) + Len(Boundary) <= Len(recv_mbuf) + 1
    <3>1. Len(Boundary) \in Nat \ {0}
      BY <2>1
    <3> QED
      BY <1>2, <3>1, FoundIn, Zenon
  <2> QED
    BY <2>1, <2>2 DEF boundary, boundary_end
<1>4. CASE wait_for_boundary
  <2>1. CASE Waits
    BY <2>1 DEF Waits
  <2>2. CASE ~Waits
    <3>1. /\ mp.state = "WAITING_FOR_BOUNDARY" /\ seen' = seen
          /\ boundary # 0 /\ ~(Len(recv_mbuf) - boundary_end + 1 < 4)
          /\ \/ Enter("FINALIZE") /\ mbuf_remove(boundary_end + 3)
             \/ Enter("GOT_BOUNDARY") /\ recv_mbuf' = recv_mbuf
      BY <1>4, <2>2 DEF wait_for_boundary, In
    <3>2. CASE Enter("FINALIZE") /\ mbuf_remove(boundary_end + 3)
      <4>1. boundary_end + 3 \in 1..Len(recv_mbuf)
        BY <1>2, <1>3, <3>1
      <4> QED
        BY <1>2, <3>1, <3>2, <4>1, RemovesWork
    <3>3. CASE Enter("GOT_BOUNDARY") /\ recv_mbuf' = recv_mbuf
      <4>1. mp'.state = "GOT_BOUNDARY"
        BY <1>2, <3>3, EnterIs
      <4> QED
        BY <1>2, <3>1, <3>3, <4>1, StaysWork
    <3> QED
      BY <3>1, <3>2, <3>3
  <2> QED
    BY <2>1, <2>2
<1>5. CASE process_boundary_incomplete \/ finalize
  BY <1>5 DEF process_boundary_incomplete, finalize, MultipartRequestEnd
<1>6. CASE process_boundary_part_end \/ finalize_part
  <2>1. recv_mbuf' = recv_mbuf /\ mp' = mp
    BY <1>6 DEF process_boundary_part_end, finalize_part
  <2>2. seen.phase = "part" /\ seen'.phase = "between"
    BY <1>2, <1>6, PartEndStep
  <2> QED
    BY <1>2, <2>1, <2>2, StaysWork
<1>7. CASE process_boundary
  <2>1. EmptyLine # 0 /\ mbuf_remove(EmptyLine + 1)
    <3>1. PICK line \in EmptyLines \ {0} : mbuf_remove(line + 1) /\ astray' = (line = Past)
      BY <1>7 DEF process_boundary
    <3>2. line # Past
      BY <3>1
    <3> QED
      BY <3>1, <3>2 DEF EmptyLines
  <2>2. EmptyLine + 1 \in 2..Len(recv_mbuf)
    BY <1>2, <1>3, <2>1, EmptyLineIn
  <2>3. PICK n \in 1..Len(recv_mbuf) : n = EmptyLine + 1 /\ n >= 2
    BY <1>2, <2>2
  <2> QED
    BY <1>2, <2>1, <2>3, RemovesWork
<1>8. CASE wait_for_chunk
  <2>1. CASE pc' # "multipart"
    BY <2>1
  <2>2. CASE pc' = "multipart"
    <3>1. /\ mp.state = "WAITING_FOR_CHUNK" /\ boundary # 0 /\ mbuf_remove(boundary - 1)
      BY <1>8, <2>2 DEF wait_for_chunk, In, Waits
    <3>3. ~astray
      BY <1>2, <1>8, WaitForChunkStep
    <3>2. boundary - 1 \in 1..Len(recv_mbuf) /\ boundary - 1 >= 2
      BY <1>2, <1>3, <3>1, <3>3, ChunkAhead
    <3> QED
      BY <1>2, <3>1, <3>2, RemovesWork
  <2> QED
    BY <2>1, <2>2
<1> QED
  BY <1>4, <1>5, <1>6, <1>7, <1>8 DEF Multipart

\* wait_for_chunk takes no data from outside the buffer, and no upload keeps the
\* mongoose task in the loop of mg_http_multipart_continue: each turn of it leaves
\* it, or leaves less to do.  That is so as long as no part was begun too early,
\* and again from when it has been begun anew.
THEOREM ParserAdvancing == Spec => ParserAdvances
<1>1. IInv /\ [Next]_vars =>
        [pc = "multipart" /\ ~astray' =>
           ChunkInBuffer /\ (pc' # "multipart" \/ Work' < Work)]_<<pc, recv_mbuf, upload>>
  <2> SUFFICES ASSUME IInv, [Next]_vars, ~UNCHANGED <<pc, recv_mbuf, upload>>,
                      pc = "multipart", ~astray'
               PROVE  ChunkInBuffer /\ (pc' # "multipart" \/ Work' < Work)
    OBVIOUS
  <2>1. Multipart
    <3>1. ~UNCHANGED vars /\ ~ClientLeaves
      BY DEF vars, buffers, upload, ClientLeaves
    <3> QED
      BY <3>1 DEF Next, Poll, Parse, Close, CloseEndsRequest, ReceiveEnd, Send, Receive,
             HeadIncomplete, MultipartBegin, BodyIncomplete, RequestDone
  <2>2. ChunkInBuffer
    <3> SUFFICES ASSUME mp.state = "WAITING_FOR_CHUNK", boundary # 0
                 PROVE  boundary - 1 >= 4
      BY DEF ChunkInBuffer, In
    <3>1. wait_for_chunk
      BY <2>1 DEF Multipart, wait_for_boundary, process_boundary_incomplete,
             process_boundary_part_end, process_boundary, finalize_part, finalize, In
    <3>2. ~astray /\ InParts
      BY <3>1, Parsing, WaitForChunkStep
    <3>3. boundary \in Nat /\ boundary >= 5
      BY <3>2, ChunkAhead
    <3> QED
      BY <3>3
  <2> QED
    BY <2>1, <2>2, MultipartAdvances
<1> QED
  BY <1>1, SpecIInv, PTL DEF Spec, ParserAdvances

-----------------------------------------------------------------------------
\* The refinement.

LEMMA EventsUnchanged ==
  ASSUME UNCHANGED <<request, seen>>
  PROVE  UNCHANGED Events!vars
BY DEF Events!vars

\* What mg_http_handler does with a request that has a boundary.
LEMMA UploadIsInParts ==
  ASSUME IInv, mp.boundary, pc \in {"poll", "multipart"}
  PROVE  InParts
BY DEF IInv, Gathers, Handled, Lost, Boundless

LEMMA MultipartEvents ==
  ASSUME IInv, Multipart, ~astray, ~astray'
  PROVE  [Events!Next]_Events!vars
<1>1. InParts
  <2>1. pc = "multipart"
    BY DEF Multipart, wait_for_boundary, process_boundary_incomplete, process_boundary_part_end,
           process_boundary, wait_for_chunk, finalize_part, finalize, In
  <2> QED
    BY <2>1 DEF IInv, Gathers, Handled, Lost
<1>2. /\ request.kind = "upload" /\ PartsOf(request) = request.parts
      /\ seen.part \in 0..Parts /\ Parts = Len(request.parts)
  BY <1>1 DEF InParts, PartsOf, Parts
<1>3. request' = request
  BY DEF Multipart, wait_for_boundary, process_boundary_incomplete, process_boundary_part_end,
         process_boundary, wait_for_chunk, finalize_part, finalize, Waits, Unsent, client
<1>4. PartsOf(request)' = PartsOf(request)
  BY <1>3
<1>5. CASE wait_for_boundary \/ process_boundary_incomplete
  <2>1. seen' = seen
    BY <1>5 DEF wait_for_boundary, process_boundary_incomplete, Waits, upload
  <2> QED
    BY <1>3, <2>1, EventsUnchanged
<1>6. CASE process_boundary_part_end \/ finalize_part
  <2>1. /\ seen.phase = "part" /\ seen.got = request.parts[seen.part].data
        /\ seen'.phase = "between" /\ seen'.part = seen.part
        /\ seen'.name = seen.name /\ seen'.got = seen.got
    BY <1>1, <1>6, PartEndStep
  <2>2. Events!PartEnd
    BY <1>2, <1>4, <2>1 DEF Events!PartEnd
  <2> QED
    BY <2>2 DEF Events!Next
<1>7. CASE process_boundary
  <2>1. /\ seen.phase = "between" /\ Begun <= Parts
        /\ seen' = [phase |-> "part", part |-> Begun,
                    name |-> request.parts[Begun].name, got |-> <<>>]
    BY <1>1, <1>7, ProcessBoundaryStep
  <2>3. Begun = seen.part + 1 /\ seen.part < Parts
    <3>1. Parts \in Nat /\ Begun = seen.part + 1
      BY <1>1, Uploading DEF Begun
    <3> QED
      BY <1>2, <2>1, <3>1
  <2>2. Events!PartBegin
    BY <1>2, <1>4, <2>1, <2>3 DEF Events!PartBegin
  <2> QED
    BY <2>2 DEF Events!Next
<1>8. CASE wait_for_chunk
  <2>1. CASE seen' = seen
    BY <1>3, <2>1, EventsUnchanged
  <2>2. CASE seen' # seen
    <3>1. seen.phase = "part"
      BY <1>1, <1>8, <2>2, WaitForChunkStep
    <3>2. PICK m \in Len(seen.got)..Len(request.parts[seen.part].data) :
             seen' = [seen EXCEPT !.got = SubSeq(request.parts[seen.part].data, 1, m)]
      BY <1>1, <1>8, <2>2, WaitForChunkStep
    <3>3. PICK p, k, n, g : seen = [phase |-> p, part |-> k, name |-> n, got |-> g]
      BY <1>1 DEF InParts
    <3>4. /\ seen'.phase = seen.phase /\ seen'.part = seen.part /\ seen'.name = seen.name
          /\ seen'.got = SubSeq(request.parts[seen.part].data, 1, m)
      BY <3>2, <3>3
    <3>5. Events!PartData
      BY <1>2, <1>4, <3>1, <3>4 DEF Events!PartData
    <3> QED
      BY <3>5 DEF Events!Next
  <2> QED
    BY <2>1, <2>2
<1>9. CASE finalize
  <2>1. /\ seen.part = Parts
        /\ seen'.part = seen.part /\ seen'.name = seen.name /\ seen'.got = seen.got
    BY <1>1, <1>9, FinalizeStep
  <2>2. seen.phase = "between"
    BY <1>9 DEF finalize
  <2>3. seen'.phase = "ended"
    <3>1. PICK p, k, n, g : seen = [phase |-> p, part |-> k, name |-> n, got |-> g]
      BY <1>1 DEF InParts
    <3> QED
      BY <1>9, <3>1 DEF finalize, MultipartRequestEnd
  <2>4. Events!RequestEnd
    BY <1>2, <1>4, <2>1, <2>2, <2>3 DEF Events!RequestEnd
  <2> QED
    BY <2>4 DEF Events!Next
<1> QED
  BY <1>5, <1>6, <1>7, <1>8, <1>9 DEF Multipart

LEMMA CloseEvents ==
  ASSUME IInv, Close \/ CloseEndsRequest
  PROVE  [Events!Next]_Events!vars
<1>1. request' = request
  BY DEF Close, CloseEndsRequest, client
<1>2. PartsOf(request)' = PartsOf(request)
  BY <1>1
<1>3. CASE Close /\ ~mp.boundary
  <2>1. seen' = seen
    BY <1>3 DEF Close
  <2> QED
    BY <1>1, <2>1, EventsUnchanged
<1>4. CASE Close /\ mp.boundary
  <2>1. InParts
    BY <1>4, UploadIsInParts DEF Close
  <2>2. PICK p, k, n, g : seen = [phase |-> p, part |-> k, name |-> n, got |-> g]
    BY <2>1 DEF InParts
  <2>3. seen' = [seen EXCEPT !.phase = "lost"]
    BY <1>4 DEF Close
  <2>4. /\ seen'.phase = "lost" /\ seen'.part = seen.part
        /\ seen'.name = seen.name /\ seen'.got = seen.got
    BY <2>2, <2>3
  <2>5. seen.phase \in {"between", "part"}
    BY <2>1 DEF InParts, Place, AtBoundary
  <2>6. Events!PartLost
    BY <1>2, <2>4, <2>5 DEF Events!PartLost
  <2> QED
    BY <2>6 DEF Events!Next
<1>5. CASE CloseEndsRequest
  <2>1. Lost
    BY <1>5 DEF IInv, Gathers, Handled, InParts, CloseEndsRequest
  <2>2. PICK p, k, n, g : seen = [phase |-> p, part |-> k, name |-> n, got |-> g]
    BY <2>1 DEF Lost
  <2>3. seen' = [seen EXCEPT !.phase = "aborted"] /\ seen.phase = "lost"
    BY <1>5, <2>1 DEF CloseEndsRequest, MultipartRequestEnd, Lost
  <2>4. /\ seen'.phase = "aborted" /\ seen'.part = seen.part
        /\ seen'.name = seen.name /\ seen'.got = seen.got
    BY <2>2, <2>3
  <2>5. Events!RequestLost
    BY <1>2, <2>3, <2>4 DEF Events!RequestLost
  <2> QED
    BY <2>5 DEF Events!Next
<1> QED
  BY <1>3, <1>4, <1>5

LEMMA NextEvents ==
  ASSUME IInv, [Next]_vars, ~astray, ~astray'
  PROVE  [Events!Next]_Events!vars
<1>1. CASE Multipart
  BY <1>1, MultipartEvents
<1>2. CASE Close \/ CloseEndsRequest
  BY <1>2, CloseEvents
<1>3. CASE MultipartBegin
  <2>1. Gathers
    BY <1>3 DEF IInv, Handled, InParts, Lost, MultipartBegin
  <2>2. seen' = [NothingSeen EXCEPT !.phase = "between"] /\ seen = NothingSeen /\ request' = request
    BY <1>3, <2>1 DEF MultipartBegin, MultipartRequest, Gathers, client
  <2>3. Events!Request
    BY <2>2 DEF Events!Request, NothingSeen
  <2> QED
    BY <2>3 DEF Events!Next
<1>4. CASE \/ ReceiveEnd \/ Send \/ HeadIncomplete \/ BodyIncomplete \/ RequestDone \/ ClientLeaves
           \/ (\E n \in 1..Len(Stream) - pos : Receive(n))
           \/ UNCHANGED vars
  <2>1. UNCHANGED <<request, seen>>
    BY <1>4 DEF ReceiveEnd, Send, HeadIncomplete, BodyIncomplete, RequestDone, ClientLeaves, Receive,
                vars, client, upload
  <2> QED
    BY <2>1, EventsUnchanged
<1> QED
  BY <1>1, <1>2, <1>3, <1>4 DEF Next, Poll, Parse

\* However an upload is cut into portions, its handler is told of its parts as
\* UploadEvents has it, in their order, each with all its data, and of one end,
\* but for what it is told because of a part that was begun too early.
THEOREM EventsImplemented == Spec => ImplementsEvents
<1>1. Init => Events!Init
  BY DEF Init, Events!Init, NothingSeen
<1>2. IInv /\ [Next]_vars => [Events!Next \/ astray \/ astray']_(Events!vars)
  <2> SUFFICES ASSUME IInv, [Next]_vars, ~astray, ~astray'
               PROVE  [Events!Next]_(Events!vars)
    OBVIOUS
  <2> QED
    BY NextEvents
<1> QED
  BY <1>1, <1>2, SpecIInv, PTL DEF Spec, ImplementsEvents
=============================================================================
