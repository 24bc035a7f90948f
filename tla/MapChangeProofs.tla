---------------------------- MODULE MapChangeProofs ----------------------------
(* Proofs about MapChange for any maps, lengths of files and bounds.              *)
EXTENDS MapChange, FiniteSetTheorems, SequenceTheorems, TLAPS

--------------------------------------------------------------------------------
(* Counting the messages of a type in a sequence.                                 *)

LEMMA CountType ==
  ASSUME NEW S, NEW s \in Seq(S), NEW type
  PROVE  /\ IsFiniteSet(Places(s, type)) /\ Count(s, type) \in Nat
         /\ Count(s, type) = 0 <=> Places(s, type) = {}
<1>1. Places(s, type) \subseteq 1 .. Len(s) /\ Len(s) \in Nat
  BY DEF Places
<1>2. IsFiniteSet(1 .. Len(s))
  BY <1>1, FS_Interval
<1>3. IsFiniteSet(Places(s, type))
  BY <1>1, <1>2, FS_Subset
<1> QED
  BY <1>3, FS_CardinalityType, FS_EmptySet DEF Count

LEMMA CountEmpty ==
  ASSUME NEW type
  PROVE  Count(<<>>, type) = 0 /\ Places(<<>>, type) = {}
<1>1. Places(<<>>, type) = {}
  BY DEF Places
<1> QED
  BY <1>1, FS_EmptySet DEF Count

LEMMA CountOne ==
  ASSUME NEW e, NEW type
  PROVE  Count(<<e>>, type) = IF e.type = type THEN 1 ELSE 0
<1>1. Places(<<e>>, type) = IF e.type = type THEN {1} ELSE {}
  BY DEF Places
<1> QED
  BY <1>1, FS_EmptySet, FS_Singleton DEF Count

LEMMA CountConcat ==
  ASSUME NEW S, NEW s \in Seq(S), NEW u \in Seq(S), NEW type
  PROVE  Count(s \o u, type) = Count(s, type) + Count(u, type)
<1> DEFINE P == Places(s, type)  Q == Places(u, type)  n == Len(s)
           R == {i + n : i \in Q}
           shift == [i \in Q |-> i + n]
<1>1. /\ n \in Nat /\ Len(u) \in Nat
      /\ P \subseteq 1 .. n /\ Q \subseteq 1 .. Len(u)
  BY DEF Places
<1>2. Places(s \o u, type) = P \cup R
  <2>1. DOMAIN (s \o u) = 1 .. (n + Len(u))
    OBVIOUS
  <2>2. \A i \in 1 .. n : (s \o u)[i] = s[i]
    OBVIOUS
  <2>3. \A i \in 1 .. Len(u) : (s \o u)[i + n] = u[i]
    OBVIOUS
  <2>4. ASSUME NEW i \in Places(s \o u, type)
        PROVE  i \in P \cup R
    <3>1. CASE i <= n
      BY <3>1, <1>1, <2>1, <2>2 DEF Places
    <3>2. CASE i > n
      <4>1. i - n \in 1 .. Len(u) /\ i = (i - n) + n
        BY <3>2, <1>1, <2>1 DEF Places
      <4>2. i - n \in Q
        BY <4>1, <2>3 DEF Places
      <4> QED
        BY <4>1, <4>2
    <3> QED
      BY <3>1, <3>2, <1>1, <2>1 DEF Places
  <2>5. P \subseteq Places(s \o u, type)
    BY <1>1, <2>1, <2>2 DEF Places
  <2>6. ASSUME NEW i \in Q
        PROVE  i + n \in Places(s \o u, type)
    BY <1>1, <2>1, <2>3 DEF Places
  <2> QED
    BY <2>4, <2>5, <2>6
<1>3. P \cap R = {}
  BY <1>1
<1>4. /\ IsFiniteSet(P) /\ Cardinality(P) \in Nat
      /\ IsFiniteSet(Q) /\ Cardinality(Q) \in Nat
  BY CountType DEF Count
<1>5. ExistsBijection(Q, R)
  <2>1. shift \in [Q -> R] /\ \A i \in R : \E j \in Q : shift[j] = i
    OBVIOUS
  <2>2. \A i, j \in Q : shift[i] = shift[j] => i = j
    BY <1>1
  <2>3. shift \in Bijection(Q, R)
    BY <2>1, <2>2 DEF Bijection, Injection, Surjection, IsInjective
  <2> QED
    BY <2>3 DEF ExistsBijection
<1>6. IsFiniteSet(R) /\ Cardinality(R) = Cardinality(Q)
  BY <1>4, <1>5, FS_Bijection
<1> HIDE DEF P, Q, R
<1>7. Cardinality(P \cup R) = Cardinality(P) + Cardinality(R)
  <2>1. Cardinality(P \cup R) = Cardinality(P) + Cardinality(R) - Cardinality(P \cap R)
    BY <1>4, <1>6, FS_Union, Zenon
  <2>2. Cardinality(P \cap R) = 0
    BY <1>3, FS_EmptySet
  <2> QED
    BY <2>1, <2>2, <1>4, <1>6
<1> QED
  BY <1>2, <1>6, <1>7 DEF Count, P, Q

LEMMA CountAppend ==
  ASSUME NEW S, NEW s \in Seq(S), NEW e \in S, NEW type
  PROVE  Count(Append(s, e), type) = Count(s, type) + (IF e.type = type THEN 1 ELSE 0)
<1>1. Append(s, e) = s \o <<e>> /\ <<e>> \in Seq(S)
  BY AppendIsConcat
<1>2. Count(s \o <<e>>, type) = Count(s, type) + Count(<<e>>, type)
  BY <1>1, CountConcat, Zenon
<1>3. Count(<<e>>, type) = IF e.type = type THEN 1 ELSE 0
  BY CountOne, Zenon
<1> QED
  BY <1>1, <1>2, <1>3, Zenon

(* Taking the n-th message out, or it and all before it.                          *)
LEMMA CountTake ==
  ASSUME NEW S, NEW s \in Seq(S), NEW n \in 1 .. Len(s), NEW type
  PROVE  /\ SubSeq(s, 1, n - 1) \in Seq(S) /\ SubSeq(s, n + 1, Len(s)) \in Seq(S)
         /\ RemoveAt(s, n) \in Seq(S)
         /\ Count(s, type) = Count(RemoveAt(s, n), type) + (IF s[n].type = type THEN 1 ELSE 0)
         /\ Count(s, type) = Count(SubSeq(s, 1, n - 1), type)
                             + (IF s[n].type = type THEN 1 ELSE 0)
                             + Count(SubSeq(s, n + 1, Len(s)), type)
<1> DEFINE a == SubSeq(s, 1, n - 1)  b == SubSeq(s, n + 1, Len(s))  m == <<s[n]>>
<1>1. /\ a \in Seq(S) /\ b \in Seq(S) /\ m \in Seq(S) /\ Len(s) \in Nat
      /\ Len(a) = n - 1 /\ Len(b) = Len(s) - n
  OBVIOUS
<1>2. s = (a \o m) \o b
  <2>1. a \o m = SubSeq(s, 1, n) /\ n \in 1 .. Len(s)
    <3>1. n \in 1 .. Len(s) /\ 1 \in 1 .. Len(s)
      OBVIOUS
    <3>2. SubSeq(s, 1, n) = a \o m
      BY <3>1, <1>1, SubSeqRecursiveSecond
    <3> QED
      BY <3>1, <3>2
  <2>2. SubSeq(s, 1, n) \o b = SubSeq(s, 1, Len(s))
    <3>1. 1 \in 1 .. Len(s) + 1 /\ n \in 1 - 1 .. Len(s) /\ Len(s) \in n .. Len(s)
      BY <1>1
    <3> QED
      BY <3>1, ConcatAdjacentSubSeq, Zenon
  <2> QED
    BY <2>1, <2>2, SubSeqFull
<1>3. RemoveAt(s, n) = a \o b
  BY DEF RemoveAt
<1> HIDE DEF a, b, m
<1>4. a \o m \in Seq(S) /\ a \o b \in Seq(S)
  BY <1>1
<1>5. /\ Count(a \o m, type) = Count(a, type) + Count(m, type)
      /\ Count((a \o m) \o b, type) = Count(a \o m, type) + Count(b, type)
      /\ Count(a \o b, type) = Count(a, type) + Count(b, type)
  <2>1. Count(a \o m, type) = Count(a, type) + Count(m, type)
    BY <1>1, CountConcat, Zenon
  <2>2. Count((a \o m) \o b, type) = Count(a \o m, type) + Count(b, type)
    BY <1>1, <1>4, CountConcat, Zenon
  <2>3. Count(a \o b, type) = Count(a, type) + Count(b, type)
    BY <1>1, CountConcat, Zenon
  <2> QED
    BY <2>1, <2>2, <2>3
<1>6. Count(a, type) \in Nat /\ Count(b, type) \in Nat
  BY <1>1, CountType, Zenon
<1>7. Count(m, type) = IF s[n].type = type THEN 1 ELSE 0
  BY CountOne, Zenon DEF m
<1>8. /\ Count(s, type) = Count(a, type) + Count(m, type) + Count(b, type)
      /\ Count(RemoveAt(s, n), type) = Count(a, type) + Count(b, type)
  BY <1>2, <1>3, <1>5, Zenon
<1>9. Count(m, type) \in Nat
  BY <1>7
<1> HIDE DEF Count
<1>a. Count(s, type) = Count(RemoveAt(s, n), type) + Count(m, type)
  BY <1>6, <1>8, <1>9
<1> QED
  BY <1>1, <1>3, <1>4, <1>7, <1>8, <1>a, Zenon DEF a, b

LEMMA CountRemove ==
  ASSUME NEW S, NEW s \in Seq(S), NEW n \in 1 .. Len(s), NEW type, s[n].type # type
  PROVE  RemoveAt(s, n) \in Seq(S) /\ Count(RemoveAt(s, n), type) = Count(s, type)
<1> DEFINE one == IF s[n].type = type THEN 1 ELSE 0
<1>1. /\ RemoveAt(s, n) \in Seq(S)
      /\ Count(s, type) = Count(RemoveAt(s, n), type) + one
  BY CountTake
<1>2. one = 0
  OBVIOUS
<1>3. Count(RemoveAt(s, n), type) \in Nat
  BY <1>1, CountType, Zenon
<1> HIDE DEF one, Count
<1> QED
  BY <1>1, <1>2, <1>3

LEMMA CountTail ==
  ASSUME NEW S, NEW s \in Seq(S), s # <<>>, NEW type
  PROVE  /\ Tail(s) \in Seq(S)
         /\ Count(s, type) = Count(Tail(s), type) + (IF Head(s).type = type THEN 1 ELSE 0)
<1>1. 1 \in 1 .. Len(s) /\ Head(s) = s[1]
  OBVIOUS
<1>2. Tail(s) = SubSeq(s, 1 + 1, Len(s)) /\ SubSeq(s, 1, 1 - 1) = <<>>
  BY TailIsSubSeq, SubSeqEmpty
<1>3. Tail(s) \in Seq(S)
  OBVIOUS
<1>4. Count(Tail(s), type) \in Nat
  BY <1>3, CountType, Zenon
<1>5. Count(s, type) = Count(SubSeq(s, 1, 1 - 1), type) + (IF s[1].type = type THEN 1 ELSE 0)
                       + Count(SubSeq(s, 1 + 1, Len(s)), type)
  BY <1>1, CountTake, Zenon
<1>6. Count(SubSeq(s, 1, 1 - 1), type) = 0
  BY <1>2, CountEmpty, Zenon
<1> DEFINE head == IF s[1].type = type THEN 1 ELSE 0
<1>7. head \in Nat
  OBVIOUS
<1> HIDE DEF head
<1>8. Count(s, type) = 0 + head + Count(Tail(s), type)
  BY <1>2, <1>5, <1>6, Zenon DEF head
<1>9. Count(s, type) = Count(Tail(s), type) + head
  <2> HIDE DEF Count
  <2> QED
    BY <1>4, <1>7, <1>8
<1> QED
  BY <1>1, <1>3, <1>9, Zenon DEF head

--------------------------------------------------------------------------------
(* The latest map change in a sequence.                                           *)

LEMMA LatestAppend ==
  ASSUME NEW S, NEW s \in Seq(S), NEW e \in S, NEW m,
         \/ e.type # "map_change" /\ LatestIs(s, m)
         \/ e.type = "map_change" /\ e.map = m
  PROVE  LatestIs(Append(s, e), m)
<1> DEFINE a == Append(s, e)  n == Len(s) + 1
<1>1. /\ DOMAIN a = 1 .. n /\ DOMAIN s = 1 .. n - 1 /\ n \in Nat \ {0}
      /\ a[n] = e /\ \A i \in 1 .. n - 1 : a[i] = s[i]
  OBVIOUS
<1> HIDE DEF a, n
<1>2. CASE e.type # "map_change" /\ LatestIs(s, m)
  <2>1. Places(a, "map_change") = Places(s, "map_change")
    BY <1>1, <1>2 DEF Places
  <2>2. \A i \in Places(s, "map_change") : a[i] = s[i]
    BY <1>1 DEF Places
  <2> QED
    BY <2>1, <2>2, <1>2 DEF LatestIs, a
<1>3. CASE e.type = "map_change" /\ e.map = m
  <2>1. n \in Places(a, "map_change")
    BY <1>1, <1>3 DEF Places
  <2>2. \A i \in Places(a, "map_change") : i = n \/ n > i
    BY <1>1 DEF Places
  <2> QED
    BY <2>1, <2>2, <1>1, <1>3 DEF LatestIs, a
<1> QED
  BY <1>2, <1>3

(* Taking the n-th message and all before it.                                     *)
LEMMA LatestSuffix ==
  ASSUME NEW S, NEW s \in Seq(S), NEW n \in 1 .. Len(s), NEW m, LatestIs(s, m)
  PROVE  LET u == SubSeq(s, n + 1, Len(s)) IN
         /\ LatestIs(u, m)
         /\ s[n].type = "map_change" /\ Places(u, "map_change") = {} => s[n].map = m
<1> DEFINE u == SubSeq(s, n + 1, Len(s))
<1>1. /\ DOMAIN u = 1 .. Len(s) - n /\ DOMAIN s = 1 .. Len(s) /\ Len(s) \in Nat
      /\ \A i \in 1 .. Len(s) - n : u[i] = s[i + n]
  OBVIOUS
<1> HIDE DEF u
<1>2. \A i \in Places(u, "map_change") : i + n \in Places(s, "map_change") /\ u[i] = s[i + n]
  BY <1>1 DEF Places
<1>3. \A j \in Places(s, "map_change") :
        j > n => j - n \in Places(u, "map_change")
  <2>1. ASSUME NEW j \in Places(s, "map_change"), j > n
        PROVE  j - n \in Places(u, "map_change")
    <3>1. j - n \in 1 .. Len(s) - n /\ (j - n) + n = j
      BY <1>1, <2>1 DEF Places
    <3>2. u[j - n] = s[j]
      BY <1>1, <3>1
    <3> QED
      BY <1>1, <3>1, <3>2, <2>1 DEF Places
  <2> QED
    BY <2>1
<1>4. ASSUME NEW i \in Places(u, "map_change"), u[i].map # m
      PROVE  \E j \in Places(u, "map_change") : j > i
  <2>1. i \in Nat /\ i > 0
    BY <1>1 DEF Places
  <2>2. PICK j \in Places(s, "map_change") : j > i + n
    BY <1>2, <1>4 DEF LatestIs
  <2>3. j > n /\ j - n > i /\ j \in Nat
    BY <2>1, <2>2, <1>1 DEF Places
  <2> QED
    BY <2>3, <1>3
<1>5. ASSUME s[n].type = "map_change", Places(u, "map_change") = {}
      PROVE  s[n].map = m
  <2>1. n \in Places(s, "map_change")
    BY <1>1, <1>5 DEF Places
  <2> QED
    BY <2>1, <1>3, <1>5 DEF LatestIs
<1> QED
  BY <1>4, <1>5 DEF LatestIs, u

(* Taking out one message.                                                        *)
LEMMA RemoveAtIs ==
  ASSUME NEW S, NEW s \in Seq(S), NEW n \in 1 .. Len(s)
  PROVE  LET u == RemoveAt(s, n) IN
         /\ DOMAIN u = 1 .. Len(s) - 1 /\ DOMAIN s = 1 .. Len(s) /\ Len(s) \in Nat
         /\ \A i \in 1 .. Len(s) - 1 : u[i] = IF i < n THEN s[i] ELSE s[i + 1]
<1> DEFINE u == RemoveAt(s, n)
<1>1. /\ DOMAIN u = 1 .. Len(s) - 1 /\ DOMAIN s = 1 .. Len(s) /\ Len(s) \in Nat
      /\ \A i \in 1 .. Len(s) - 1 : u[i] = IF i < n THEN s[i] ELSE s[i + 1]
  <2> DEFINE a == SubSeq(s, 1, n - 1)  b == SubSeq(s, n + 1, Len(s))
  <2>a. a \in Seq(S) /\ Len(a) = n - 1 /\ \A i \in 1 .. n - 1 : a[i] = s[i]
    OBVIOUS
  <2>b. b \in Seq(S) /\ Len(b) = Len(s) - n /\ \A i \in 1 .. Len(s) - n : b[i] = s[i + n]
    OBVIOUS
  <2>1. /\ a \in Seq(S) /\ Len(a) = n - 1 /\ \A i \in 1 .. n - 1 : a[i] = s[i]
        /\ b \in Seq(S) /\ Len(b) = Len(s) - n /\ \A i \in 1 .. Len(s) - n : b[i] = s[i + n]
        /\ Len(s) \in Nat /\ DOMAIN s = 1 .. Len(s)
    <3> HIDE DEF a, b
    <3> QED
      BY <2>a, <2>b
  <2>2. u = a \o b
    BY DEF RemoveAt
  <2> HIDE DEF a, b, u
  <2>3. /\ DOMAIN (a \o b) = 1 .. Len(s) - 1
        /\ \A i \in 1 .. Len(s) - 1 : (a \o b)[i] = IF i < n THEN a[i] ELSE b[i - n + 1]
    <3>1. /\ a \o b \in Seq(S) /\ Len(a \o b) = Len(a) + Len(b)
          /\ \A i \in 1 .. Len(a) + Len(b) : (a \o b)[i] = IF i <= Len(a) THEN a[i] ELSE b[i - Len(a)]
      BY <2>1, ConcatProperties, Zenon
    <3>2. Len(a) + Len(b) = Len(s) - 1
      BY <2>1
    <3>3. \A i \in 1 .. Len(s) - 1 : (i <= Len(a) <=> i < n) /\ i - Len(a) = i - n + 1
      BY <2>1
    <3> QED
      BY <3>1, <3>2, <3>3
  <2>4. ASSUME NEW i \in 1 .. Len(s) - 1
        PROVE  u[i] = IF i < n THEN s[i] ELSE s[i + 1]
    <3>1. CASE i < n
      BY <3>1, <2>1, <2>2, <2>3
    <3>2. CASE ~(i < n)
      <4>1. i - n + 1 \in 1 .. Len(s) - n /\ (i - n + 1) + n = i + 1
        BY <3>2, <2>1
      <4>2. b[i - n + 1] = s[i + 1]
        BY <4>1, <2>1
      <4> QED
        BY <3>2, <4>2, <2>2, <2>3
    <3> QED
      BY <3>1, <3>2
  <2> QED
    BY <2>1, <2>2, <2>3, <2>4
<1> QED
  BY <1>1, Zenon DEF u

(* Taking out a message that is no map change.                                    *)
LEMMA LatestRemove ==
  ASSUME NEW S, NEW s \in Seq(S), NEW n \in 1 .. Len(s), NEW m, LatestIs(s, m),
         s[n].type # "map_change"
  PROVE  LatestIs(RemoveAt(s, n), m)
<1> DEFINE u == RemoveAt(s, n)
<1>1. /\ DOMAIN u = 1 .. Len(s) - 1 /\ DOMAIN s = 1 .. Len(s) /\ Len(s) \in Nat
      /\ \A i \in 1 .. Len(s) - 1 : u[i] = IF i < n THEN s[i] ELSE s[i + 1]
  BY RemoveAtIs, Zenon
<1> HIDE DEF u
<1>2. ASSUME NEW i \in Places(u, "map_change"), u[i].map # m
      PROVE  \E j \in Places(u, "map_change") : j > i
  <2> DEFINE k == IF i < n THEN i ELSE i + 1
  <2>1. k \in Places(s, "map_change") /\ u[i] = s[k] /\ i \in Nat
    BY <1>1 DEF Places
  <2>2. PICK j \in Places(s, "map_change") : j > k
    BY <2>1, <1>2 DEF LatestIs
  <2>3. j # n /\ j \in 1 .. Len(s)
    BY <1>1 DEF Places
  <2>4. CASE j < n
    <3>1. j \in 1 .. Len(s) - 1 /\ u[j] = s[j] /\ j > i
      BY <1>1, <2>1, <2>2, <2>3, <2>4
    <3> QED
      BY <3>1, <1>1, <2>2 DEF Places
  <2>5. CASE j > n
    <3>1. j - 1 \in 1 .. Len(s) - 1 /\ u[j - 1] = s[j] /\ j - 1 > i
      BY <1>1, <2>1, <2>2, <2>3, <2>5
    <3> QED
      BY <3>1, <1>1, <2>2 DEF Places
  <2> QED
    BY <2>3, <2>4, <2>5
<1> QED
  BY <1>2 DEF LatestIs, u

--------------------------------------------------------------------------------
(* The messages and the next one that the client takes.                           *)

LEMMA Messages ==
  /\ \A m : MapChange(m).type = "map_change" /\ MapChange(m).map = m
  /\ \A m, n : Chunk(m, n).type = "file_download"
  /\ \A m : Request(m).type = "file_request" /\ Request(m).map = m
  /\ Frame.type = "frame" /\ Ready.type = "client_ready" /\ Ack.type = "file_ack"
  /\ \A e \in ToClientMessages :
       /\ e.type \in {"frame", "map_change", "file_download"}
       /\ e = Frame <=> e.type = "frame"
       /\ e.type = "map_change" => e.map \in Map /\ e = MapChange(e.map)
       /\ e.type = "file_download" => e.map \in Map /\ e.chunk \in 1 .. Chunks
  /\ \A e \in ToServerMessages :
       /\ e = Ready <=> e.type = "client_ready"
       /\ e.type = "file_request" => e.map \in Map
  /\ \A e \in ThreadMessages : e.type = "map_change" => e.map \in Map
  BY DEF MapChange, Chunk, Request, Frame, Ready, Ack, ToClientMessages, ToServerMessages,
         ThreadMessages

LEMMA NoneIsNone ==
  None \notin Map /\ None \notin Nat
  BY MapsAssumption

LEMMA Taken ==
  ASSUME TypeOK, HasMessage, TakeMessage
  PROVE  /\ connected /\ increment = None /\ s2c # <<>>
         /\ Message \in ToClientMessages /\ s2c' \in Seq(ToClientMessages)
         /\ Count(s2c, "map_change") =
              Count(s2c', "map_change") + (IF Message.type = "map_change" THEN 1 ELSE 0)
         /\ Count(s2c', "map_change") \in Nat
         /\ \A m : LatestIs(s2c, m) =>
              /\ LatestIs(s2c', m)
              /\ Message.type = "map_change" /\ Places(s2c', "map_change") = {} => Message.map = m
<1> DEFINE n == NextMessage  a == SubSeq(s2c, 1, n - 1)
<1>1. /\ s2c \in Seq(ToClientMessages) /\ n \in 1 .. Len(s2c) /\ Message = s2c[n]
      /\ s2c' = SubSeq(s2c, n + 1, Len(s2c))
      /\ connected /\ increment = None /\ s2c # <<>>
  BY DEF TypeOK, HasMessage, TakeMessage, Message, Receives
<1>2. n = 1 \/ (n = 2 /\ s2c[1] = Frame)
  BY <1>1 DEF NextMessage
<1> HIDE DEF n
<1>3. /\ s2c' \in Seq(ToClientMessages) /\ a \in Seq(ToClientMessages)
      /\ Count(s2c, "map_change") = Count(a, "map_change")
                                    + (IF s2c[n].type = "map_change" THEN 1 ELSE 0)
                                    + Count(s2c', "map_change")
  BY <1>1, CountTake, ZenonT(30)
<1>4. Count(a, "map_change") = 0
  <2>1. CASE n = 1
    <3>1. a = <<>>
      BY <2>1, <1>1
    <3> QED
      BY <3>1, CountEmpty, Zenon
  <2>2. CASE n = 2 /\ s2c[1] = Frame
    <3>1. a = <<s2c[1]>>
      <4>1. a = SubSeq(s2c, 1, 1) /\ 1 \in 1 .. Len(s2c)
        BY <2>2, <1>1
      <4>2. SubSeq(s2c, 1, 1) = <<s2c[1]>> \o SubSeq(s2c, 1 + 1, 1)
        BY <4>1, <1>1, SubSeqRecursiveFirst
      <4>3. SubSeq(s2c, 1 + 1, 1) = <<>>
        BY SubSeqEmpty
      <4>4. <<s2c[1]>> \o <<>> = <<s2c[1]>>
        OBVIOUS
      <4> QED
        BY <4>1, <4>2, <4>3, <4>4, Zenon
    <3>2. Count(<<Frame>>, "map_change") = IF Frame.type = "map_change" THEN 1 ELSE 0
      BY CountOne, Zenon
    <3>3. Frame.type # "map_change"
      BY Messages
    <3>4. a = <<Frame>>
      BY <3>1, <2>2, Zenon
    <3> QED
      BY <3>2, <3>3, <3>4, Zenon
  <2> QED
    BY <1>2, <2>1, <2>2
<1>5. Count(s2c', "map_change") \in Nat
  BY <1>3, CountType, Zenon
<1>6. \A m : LatestIs(s2c, m) =>
        /\ LatestIs(s2c', m)
        /\ s2c[n].type = "map_change" /\ Places(s2c', "map_change") = {} => s2c[n].map = m
  <2> TAKE m
  <2> QED
    BY <1>1, LatestSuffix, Zenon
<1>7. Message \in ToClientMessages
  BY <1>1
<1> DEFINE one == IF Message.type = "map_change" THEN 1 ELSE 0
<1>8. one \in Nat
  OBVIOUS
<1> HIDE DEF one
<1>9. Count(s2c, "map_change") = 0 + one + Count(s2c', "map_change")
  BY <1>1, <1>3, <1>4, Zenon DEF one
<1>10. Count(s2c, "map_change") = Count(s2c', "map_change") + one
  <2> HIDE DEF Count
  <2> QED
    BY <1>5, <1>8, <1>9
<1> QED
  BY <1>1, <1>3, <1>5, <1>6, <1>7, <1>10, Zenon DEF one

--------------------------------------------------------------------------------
(* Types.                                                                         *)

LEMMA CheckDownloadType ==
  ASSUME TypeOK, NEW ds \in Seq(Map), NEW active \in BOOLEAN,
         CheckDownload(ds, active, disk, <<>>)
  PROVE  /\ downloads' = ds /\ saved' \in -1 .. Chunks /\ disk' \subseteq Map
         /\ c2s' \in Seq(ToServerMessages)
         /\ Count(c2s', "client_ready") = Count(c2s, "client_ready")
         /\ saved' # -1 => downloads' # <<>>
         /\ ~up => c2s' = c2s
<1>1. c2s \in Seq(ToServerMessages) /\ disk \subseteq Map /\ saved \in -1 .. Chunks
  BY DEF TypeOK
<1>2. CASE ds = <<>> \/ active
  <2>1. /\ downloads' = ds /\ saved' = (IF ds = <<>> THEN -1 ELSE saved) /\ disk' = disk
        /\ c2s' = IF up THEN c2s \o <<>> ELSE c2s
    BY <1>2 DEF CheckDownload, ToServer
  <2>2. c2s' = c2s
    BY <2>1, <1>1
  <2> QED
    BY <2>1, <2>2, <1>1, BoundsAssumption
<1>3. CASE ~(ds = <<>> \/ active)
  <2> DEFINE e == Request(Head(ds))
  <2>1. /\ downloads' = ds /\ saved' = 0 /\ disk' = disk \ {Head(ds)}
        /\ c2s' = IF up THEN c2s \o Append(<<>>, e) ELSE c2s
    BY <1>3 DEF CheckDownload, ToServer
  <2>2. Head(ds) \in Map
    BY <1>3
  <2>3. e \in ToServerMessages /\ e.type # "client_ready"
    BY <2>2, Messages DEF ToServerMessages
  <2> HIDE DEF e
  <2>4. c2s' = IF up THEN Append(c2s, e) ELSE c2s
    <3>1. Append(<<>>, e) = <<e>>
      OBVIOUS
    <3>2. c2s \o <<e>> = Append(c2s, e)
      BY <1>1, <2>3, AppendIsConcat
    <3> QED
      BY <2>1, <3>1, <3>2, Zenon
  <2>5. Append(c2s, e) \in Seq(ToServerMessages)
    BY <2>3, <1>1
  <2>6. Count(Append(c2s, e), "client_ready") = Count(c2s, "client_ready")
    <3>1. Count(Append(c2s, e), "client_ready") =
            Count(c2s, "client_ready") + (IF e.type = "client_ready" THEN 1 ELSE 0)
      BY <1>1, <2>3, CountAppend, Zenon
    <3>2. Count(c2s, "client_ready") \in Nat
      BY <1>1, CountType, Zenon
    <3> QED
      BY <3>1, <3>2, <2>3
  <2>7. 0 \in -1 .. Chunks
    BY BoundsAssumption
  <2>8. c2s' \in Seq(ToServerMessages)
    BY <1>1, <2>4, <2>5, Zenon
  <2>9. Count(c2s', "client_ready") = Count(c2s, "client_ready")
    BY <2>4, <2>6, Zenon
  <2> QED
    BY <1>1, <1>3, <2>1, <2>4, <2>7, <2>8, <2>9, Zenon
<1> QED
  BY <1>2, <1>3

(* What the queues and connections have become, when they get one more message.   *)
LEMMA Queued ==
  ASSUME TypeOK
  PROVE  /\ \A e \in ToClientMessages : ToClient(<<e>>) =>
              /\ s2c' \in Seq(ToClientMessages)
              /\ s2c' = IF up THEN Append(s2c, e) ELSE s2c
         /\ \A e \in ToServerMessages : ToServer(<<e>>) =>
              /\ c2s' \in Seq(ToServerMessages)
              /\ c2s' = IF up THEN Append(c2s, e) ELSE c2s
<1>1. s2c \in Seq(ToClientMessages) /\ c2s \in Seq(ToServerMessages)
  BY DEF TypeOK
<1>2. ASSUME NEW e \in ToClientMessages
      PROVE  Append(s2c, e) = s2c \o <<e>> /\ Append(s2c, e) \in Seq(ToClientMessages)
  BY <1>1, AppendIsConcat
<1>3. ASSUME NEW e \in ToServerMessages
      PROVE  Append(c2s, e) = c2s \o <<e>> /\ Append(c2s, e) \in Seq(ToServerMessages)
  BY <1>1, AppendIsConcat
<1> QED
  BY <1>1, <1>2, <1>3, Zenon DEF ToClient, ToServer

LEMMA InitType ==
  Init => TypeOK
<1> SUFFICES ASSUME Init PROVE TypeOK
  OBVIOUS
<1>1. /\ s2c \in Seq(ToClientMessages) /\ c2s \in Seq(ToServerMessages)
      /\ downloads \in Seq(Map) /\ messageQueue \in Seq(ThreadMessages)
  BY DEF Init
<1>2. saved \in -1 .. Chunks
  BY BoundsAssumption DEF Init
<1> QED
  BY <1>1, <1>2, MapsAssumption DEF Init, TypeOK

LEMMA TypeStep ==
  ASSUME TypeOK, SessionInv, CounterInv, [Next]_vars
  PROVE  TypeOK'
<1> USE NoneIsNone, BoundsAssumption
<1>a. /\ map \in Map /\ gameover \in BOOLEAN /\ awaiting_client_readies \in Nat
      /\ fileTransfer \in {None} \cup [map : Map, dp : 1 .. Chunks]
      /\ up \in BOOLEAN /\ connected \in BOOLEAN
      /\ s2c \in Seq(ToClientMessages) /\ c2s \in Seq(ToServerMessages)
      /\ map_ready \in BOOLEAN /\ {loaded, servermap} \subseteq Map \cup {None}
      /\ downloads \in Seq(Map) /\ saved \in -1 .. Chunks /\ disk \subseteq Map
      /\ messageQueue \in Seq(ThreadMessages)
      /\ clientReadiesWaiting \in Nat
      /\ {increment, decrement} \subseteq Nat \cup {None} /\ raced \in BOOLEAN
  BY DEF TypeOK
<1>1. ASSUME NEW m \in Map, ServerNextMap(m) PROVE TypeOK'
  <2>1. MapChange(m) \in ToClientMessages
    BY DEF ToClientMessages
  <2>2. s2c' \in Seq(ToClientMessages)
    BY <1>1, <2>1, Queued, Zenon DEF ServerNextMap, SendMapChange
  <2> QED
    BY <1>1, <1>a, <2>2 DEF ServerNextMap, SendMapChange, client, file, counter, TypeOK
<1>2. ASSUME StartGame PROVE TypeOK'
  BY <1>2, <1>a DEF StartGame, client, file, counter, TypeOK
<1>3. ASSUME SendFrame PROVE TypeOK'
  <2>1. Frame \in ToClientMessages
    BY DEF ToClientMessages
  <2>2. s2c' \in Seq(ToClientMessages)
    BY <1>3, <2>1, Queued, Zenon DEF SendFrame
  <2> QED
    BY <1>3, <1>a, <2>2 DEF SendFrame, server, client, file, counter, TypeOK
<1>4. ASSUME ProcessReady PROVE TypeOK'
  BY <1>4, <1>a DEF ProcessReady, client, file, counter, TypeOK
<1>5. ASSUME ProcessRequest PROVE TypeOK'
  <2>1. c2s' \in Seq(ToServerMessages) /\ Head(c2s).map \in Map
    <3>1. /\ c2s' \in Seq(ToServerMessages) /\ Head(c2s) \in ToServerMessages
          /\ Head(c2s).type = "file_request"
      <4>1. c2s # <<>> /\ Head(c2s).type = "file_request" /\ c2s' = Tail(c2s)
        BY <1>5 DEF ProcessRequest
      <4> QED
        BY <4>1, <1>a
    <3> QED
      BY <3>1, Messages, Zenon
  <2>2. CASE fileTransfer # None
    BY <1>5, <1>a, <2>1, <2>2 DEF ProcessRequest, client, file, counter, TypeOK
  <2>3. CASE fileTransfer = None
    <3>1. UploadNextFileChunk(Head(c2s).map, 0)
      BY <1>5, <2>3 DEF ProcessRequest
    <3>2. Chunk(Head(c2s).map, 1) \in ToClientMessages /\ 1 \in 1 .. Chunks
      BY <2>1 DEF ToClientMessages
    <3>3. /\ ToClient(<<Chunk(Head(c2s).map, 1)>>)
          /\ fileTransfer' = [map |-> Head(c2s).map, dp |-> 1]
      BY <3>1 DEF UploadNextFileChunk
    <3>4. s2c' \in Seq(ToClientMessages)
      BY <3>2, <3>3, Queued, Zenon
    <3> QED
      BY <1>5, <1>a, <2>1, <3>2, <3>3, <3>4 DEF ProcessRequest, client, file, counter, TypeOK
  <2> QED
    BY <2>2, <2>3
<1>6. ASSUME ProcessAck PROVE TypeOK'
  <2>1. c2s' \in Seq(ToServerMessages)
    BY <1>6, <1>a DEF ProcessAck
  <2>2. CASE TransferEnds(fileTransfer)
    BY <1>6, <1>a, <2>1, <2>2 DEF ProcessAck, client, file, counter, TypeOK
  <2>3. CASE ~TransferEnds(fileTransfer)
    <3> DEFINE m == fileTransfer.map  n == fileTransfer.dp + 1
    <3>1. UploadNextFileChunk(fileTransfer.map, fileTransfer.dp)
      BY <1>6, <2>3 DEF ProcessAck
    <3>2. m \in Map /\ n \in 1 .. Chunks
      BY <1>a, <2>3 DEF TransferEnds
    <3>3. Chunk(m, n) \in ToClientMessages
      BY <3>2 DEF ToClientMessages
    <3>4. ToClient(<<Chunk(m, n)>>) /\ fileTransfer' = [map |-> m, dp |-> n]
      BY <3>1 DEF UploadNextFileChunk
    <3>5. s2c' \in Seq(ToClientMessages)
      BY <3>3, <3>4, Queued, Zenon
    <3> QED
      BY <1>6, <1>a, <2>1, <3>2, <3>4, <3>5 DEF ProcessAck, client, file, counter, history, TypeOK
  <2> QED
    BY <2>2, <2>3
<1>7. ASSUME Connect PROVE TypeOK'
  <2>1. MapChange(map) \in ToClientMessages
    BY <1>a DEF ToClientMessages
  <2>2. [type |-> "connected"] \in ThreadMessages
    BY DEF ThreadMessages
  <2> QED
    BY <1>7, <1>a, <2>1, <2>2 DEF Connect, client, file, counter, TypeOK
<1>8. ASSUME Disconnect PROVE TypeOK'
  <2>1. [type |-> "disconnected"] \in ThreadMessages
    BY DEF ThreadMessages
  <2>2. /\ messageQueue' \in Seq(ThreadMessages) /\ s2c' \in Seq(ToClientMessages)
        /\ c2s' \in Seq(ToServerMessages)
    BY <1>8, <1>a, <2>1 DEF Disconnect
  <2> QED
    BY <1>8, <1>a, <2>2 DEF Disconnect, EndTransfer, client, file, counter, TypeOK
<1>9. ASSUME ReceiveFrame PROVE TypeOK'
  <2>1. PICK i \in DOMAIN s2c : s2c' = RemoveAt(s2c, i)
    BY <1>9 DEF ReceiveFrame
  <2>2. i \in 1 .. Len(s2c)
    BY <1>a
  <2>3. s2c' \in Seq(ToClientMessages)
    BY <1>a, <2>1, <2>2, CountTake, Zenon
  <2> QED
    BY <1>9, <1>a, <2>3 DEF ReceiveFrame, server, client, file, counter, TypeOK
<1>10. ASSUME ReceiveMapChange PROVE TypeOK'
  <2>1. HasMessage /\ TakeMessage /\ Message.type = "map_change"
    BY <1>10 DEF ReceiveMapChange
  <2>2. s2c' \in Seq(ToClientMessages) /\ Message \in ToClientMessages
    BY <2>1, Taken, Zenon
  <2>3. Message \in ThreadMessages
    BY <2>1, <2>2, Messages DEF ThreadMessages
  <2>4. messageQueue' \in Seq(ThreadMessages)
    BY <1>10, <1>a, <2>3 DEF ReceiveMapChange
  <2>5. /\ map_ready' = FALSE
        /\ UNCHANGED <<map, gameover, awaiting_client_readies, fileTransfer, up, c2s, connected,
                       loaded, servermap, downloads, saved, disk, clientReadiesWaiting,
                       increment, decrement, raced>>
    BY <1>10 DEF ReceiveMapChange, server, file, counter
  <2> QED
    BY <1>a, <2>2, <2>4, <2>5 DEF TypeOK
<1>11. ASSUME ReceiveChunk PROVE TypeOK'
  <2>1. HasMessage /\ TakeMessage /\ Message.type = "file_download"
    BY <1>11 DEF ReceiveChunk
  <2>2. s2c' \in Seq(ToClientMessages) /\ Message \in ToClientMessages
    BY <2>1, Taken, Zenon
  <2>3. Message.map \in Map /\ Message.chunk \in 1 .. Chunks
    BY <2>1, <2>2, Messages
  <2>4. CASE saved = -1 \/ saved + 1 # Message.chunk \/ Head(downloads) # Message.map
    BY <1>11, <1>a, <2>2, <2>4 DEF ReceiveChunk, server, file, counter, TypeOK
  <2>5. CASE ~(saved = -1 \/ saved + 1 # Message.chunk \/ Head(downloads) # Message.map)
    <3>1. Ack \in ToServerMessages /\ ToServer(<<Ack>>)
      BY <1>11, <2>5 DEF ReceiveChunk, ToServerMessages
    <3>2. c2s' \in Seq(ToServerMessages)
      BY <3>1, Queued, Zenon
    <3>3. saved' = saved + 1 /\ saved' \in -1 .. Chunks
      BY <1>11, <1>a, <2>3, <2>5 DEF ReceiveChunk
    <3>4. /\ disk' \subseteq Map /\ loaded' \in Map \cup {None} /\ map_ready' \in BOOLEAN
          /\ increment' \in Nat \cup {None}
      BY <1>11, <1>a, <2>3, <2>5 DEF ReceiveChunk
    <3> QED
      BY <1>11, <1>a, <2>2, <2>5, <3>2, <3>3, <3>4 DEF ReceiveChunk, server, TypeOK
  <2> QED
    BY <2>4, <2>5
<1>12. ASSUME CountReady PROVE TypeOK'
  <2>1. downloads # <<>> /\ Tail(downloads) \in Seq(Map) /\ NextDownload
    BY <1>12, <1>a DEF CountReady, SessionInv
  <2>2. /\ downloads' = Tail(downloads) /\ saved' \in -1 .. Chunks /\ disk' \subseteq Map
        /\ c2s' \in Seq(ToServerMessages)
    BY <2>1, CheckDownloadType DEF NextDownload
  <2> QED
    BY <1>12, <1>a, <2>1, <2>2 DEF CountReady, server, client, TypeOK
<1>13. ASSUME HandleConnected PROVE TypeOK'
  <2>1. messageQueue' \in Seq(ThreadMessages)
    BY <1>13, <1>a DEF HandleConnected, Handles
  <2> QED
    BY <1>13, <1>a, <2>1 DEF HandleConnected, server, file, TypeOK
<1>14. ASSUME HandleDisconnected PROVE TypeOK'
  <2>1. /\ messageQueue' \in Seq(ThreadMessages) /\ downloads' \in Seq(Map)
        /\ saved' \in -1 .. Chunks
    BY <1>14, <1>a DEF HandleDisconnected, Handles
  <2> QED
    BY <1>14, <1>a, <2>1 DEF HandleDisconnected, server, counter, TypeOK
<1>15. ASSUME HandleMapChange PROVE TypeOK'
  <2> DEFINE m == Head(messageQueue).map
  <2>1. m \in Map /\ messageQueue' \in Seq(ThreadMessages) /\ servermap' = m
    BY <1>15, <1>a, Messages DEF HandleMapChange, Handles
  <2> HIDE DEF m
  <2>2. CASE m \in disk
    BY <1>15, <1>a, <2>1, <2>2 DEF HandleMapChange, server, file, TypeOK, m
  <2>3. CASE m \notin disk
    <3>1. CheckDownload(Append(downloads, m), saved >= 0, disk, <<>>)
      BY <1>15, <2>3 DEF HandleMapChange, m
    <3>2. Append(downloads, m) \in Seq(Map) /\ (saved >= 0) \in BOOLEAN
      BY <1>a, <2>1
    <3>3. /\ downloads' = Append(downloads, m) /\ saved' \in -1 .. Chunks /\ disk' \subseteq Map
          /\ c2s' \in Seq(ToServerMessages)
      BY <3>1, <3>2, CheckDownloadType, Zenon
    <3>4. loaded' \in Map \cup {None} /\ UNCHANGED <<map_ready, clientReadiesWaiting>>
      BY <1>15, <1>a, <2>3 DEF HandleMapChange, m
    <3> QED
      BY <1>15, <1>a, <2>1, <3>2, <3>3, <3>4 DEF HandleMapChange, server, TypeOK
  <2> QED
    BY <2>2, <2>3
<1>16. ASSUME SendReady PROVE TypeOK'
  <2>1. Ready \in ToServerMessages
    BY DEF ToServerMessages
  <2>2. c2s' \in Seq(ToServerMessages)
    BY <1>16, <2>1, Queued, Zenon DEF SendReady
  <2> QED
    BY <1>16, <1>a, <2>2 DEF SendReady, server, client, file, TypeOK
<1>17. ASSUME ReadySent PROVE TypeOK'
  BY <1>17, <1>a DEF ReadySent, CounterInv, server, client, file, TypeOK
<1>18. ASSUME UNCHANGED vars PROVE TypeOK'
  BY <1>18, <1>a DEF vars, server, client, file, counter, TypeOK
<1> QED
  BY <1>1, <1>2, <1>3, <1>4, <1>5, <1>6, <1>7, <1>8, <1>9, <1>10, <1>11, <1>12, <1>13, <1>14,
     <1>15, <1>16, <1>17, <1>18, Zenon
  DEF Next, Server, NetworkThread, MainThread

--------------------------------------------------------------------------------
(* The other parts of the invariant, action by action.                            *)

LEMMA Counts ==
  ASSUME TypeOK
  PROVE  /\ Count(s2c, "map_change") \in Nat /\ Count(messageQueue, "map_change") \in Nat
         /\ Count(c2s, "client_ready") \in Nat /\ Len(downloads) \in Nat
         /\ Count(s2c, "map_change") = 0 <=> Places(s2c, "map_change") = {}
BY CountType DEF TypeOK

(* A step that is about no map change, no ready, no download and no counter.      *)
Quiet ==
  /\ Count(s2c', "map_change") = Count(s2c, "map_change")
  /\ Places(s2c', "map_change") = {} <=> Places(s2c, "map_change") = {}
  /\ \A m : LatestIs(s2c, m) => LatestIs(s2c', m)
  /\ Count(c2s', "client_ready") = Count(c2s, "client_ready")
  /\ ~up => s2c' = s2c /\ c2s' = c2s
  /\ Connecting => c2s' = c2s
  /\ saved' # -1 => saved # -1
  /\ UNCHANGED <<map, awaiting_client_readies, up, connected, servermap, downloads,
                 clientReadiesWaiting, decrement, raced, messageQueue>>

LEMMA QuietStep ==
  ASSUME ReadiesInv, Quiet, UNCHANGED <<map_ready, loaded, increment>>
  PROVE  SessionInv' /\ CounterInv' /\ LatestInv' /\ ReadiesAreCounted'
<1>a. SessionInv /\ CounterInv /\ LatestInv /\ ReadiesAreCounted
  BY DEF ReadiesInv
<1>1. SessionInv'
  BY <1>a DEF SessionInv, Quiet, Connecting, InSession
<1>2. CounterInv'
  BY <1>a DEF CounterInv, Quiet
<1>3. LatestInv'
  BY <1>a DEF LatestInv, Quiet, InSession, HasOrGets
<1>4. ReadiesAreCounted'
  BY <1>a DEF ReadiesAreCounted, OnTheWay, Quiet, InSession
<1> QED
  BY <1>1, <1>2, <1>3, <1>4

(* A message that is no map change.                                               *)
LEMMA QuietToClient ==
  ASSUME TypeOK, NEW e \in ToClientMessages, ToClient(<<e>>), e.type # "map_change"
  PROVE  /\ Count(s2c', "map_change") = Count(s2c, "map_change")
         /\ Places(s2c', "map_change") = {} <=> Places(s2c, "map_change") = {}
         /\ \A m : LatestIs(s2c, m) => LatestIs(s2c', m)
         /\ ~up => s2c' = s2c
<1>1. /\ s2c \in Seq(ToClientMessages) /\ s2c' \in Seq(ToClientMessages)
      /\ s2c' = IF up THEN Append(s2c, e) ELSE s2c
  BY Queued, Zenon DEF TypeOK
<1>2. Count(Append(s2c, e), "map_change") = Count(s2c, "map_change")
  <2>1. Count(Append(s2c, e), "map_change") =
          Count(s2c, "map_change") + (IF e.type = "map_change" THEN 1 ELSE 0)
    BY <1>1, CountAppend, Zenon
  <2>2. Count(s2c, "map_change") \in Nat
    BY Counts
  <2> QED
    BY <2>1, <2>2
<1>3. \A m : LatestIs(s2c, m) => LatestIs(Append(s2c, e), m)
  BY <1>1, LatestAppend, Zenon
<1>4. Count(s2c', "map_change") = Count(s2c, "map_change")
  BY <1>1, <1>2, Zenon
<1>5. /\ Count(s2c, "map_change") = 0 <=> Places(s2c, "map_change") = {}
      /\ Count(s2c', "map_change") = 0 <=> Places(s2c', "map_change") = {}
  BY <1>1, CountType, Zenon
<1> QED
  BY <1>1, <1>3, <1>4, <1>5, Zenon

LEMMA QuietSteps ==
  ASSUME ReadiesInv, StartGame \/ SendFrame \/ ProcessRequest \/ ProcessAck \/ ReceiveFrame
               \/ UNCHANGED vars
  PROVE  SessionInv' /\ CounterInv' /\ LatestInv' /\ ReadiesAreCounted'
<1>a. TypeOK /\ SessionInv
  BY DEF ReadiesInv
<1>1. CASE StartGame \/ UNCHANGED vars
  <2>1. Quiet /\ UNCHANGED <<map_ready, loaded, increment>>
    BY <1>1 DEF StartGame, vars, server, client, file, counter, Quiet
  <2> QED
    BY <2>1, QuietStep
<1>2. CASE SendFrame
  <2>1. Frame \in ToClientMessages /\ Frame.type # "map_change"
    BY Messages DEF ToClientMessages
  <2>2. ToClient(<<Frame>>)
    BY <1>2 DEF SendFrame
  <2>3. Quiet /\ UNCHANGED <<map_ready, loaded, increment>>
    BY <1>a, <1>2, <2>1, <2>2, QuietToClient DEF SendFrame, server, client, file, counter, Quiet
  <2> QED
    BY <2>3, QuietStep
<1>3. CASE ProcessRequest \/ ProcessAck
  <2>1. /\ c2s # <<>> /\ c2s' = Tail(c2s) /\ Head(c2s).type # "client_ready"
        /\ c2s \in Seq(ToServerMessages)
    BY <1>3, <1>a, Messages DEF ProcessRequest, ProcessAck, TypeOK
  <2>2. up /\ ~Connecting
    BY <1>a, <2>1 DEF SessionInv
  <2>3. Count(c2s', "client_ready") = Count(c2s, "client_ready")
    <3>1. Count(c2s, "client_ready") =
            Count(Tail(c2s), "client_ready") + (IF Head(c2s).type = "client_ready" THEN 1 ELSE 0)
      BY <2>1, CountTail, Zenon
    <3>2. Tail(c2s) \in Seq(ToServerMessages)
      BY <2>1
    <3>3. Count(Tail(c2s), "client_ready") \in Nat
      BY <3>2, CountType, Zenon
    <3> QED
      BY <2>1, <3>1, <3>3
  <2>4. \/ s2c' = s2c
        \/ \E e \in ToClientMessages : ToClient(<<e>>) /\ e.type # "map_change"
    <3>1. CASE s2c' = s2c
      BY <3>1
    <3>2. CASE s2c' # s2c /\ ProcessRequest
      <4>a. UploadNextFileChunk(Head(c2s).map, 0) /\ Head(c2s).type = "file_request"
        BY <3>2 DEF ProcessRequest
      <4>b. Head(c2s) \in ToServerMessages
        BY <2>1
      <4>1. /\ UploadNextFileChunk(Head(c2s).map, 0) /\ Head(c2s) \in ToServerMessages
            /\ Head(c2s).type = "file_request"
        BY <4>a, <4>b, Zenon
      <4>2. Chunk(Head(c2s).map, 1) \in ToClientMessages
        BY <4>1, Messages, BoundsAssumption DEF ToClientMessages
      <4>3. ToClient(<<Chunk(Head(c2s).map, 1)>>)
        BY <4>1 DEF UploadNextFileChunk
      <4> QED
        BY <4>2, <4>3, Messages
    <3>3. CASE s2c' # s2c /\ ProcessAck
      <4> DEFINE m == fileTransfer.map  n == fileTransfer.dp + 1
      <4>1. UploadNextFileChunk(fileTransfer.map, fileTransfer.dp) /\ ~TransferEnds(fileTransfer)
        BY <3>3 DEF ProcessAck
      <4>2. m \in Map /\ n \in 1 .. Chunks
        BY <1>a, <4>1, BoundsAssumption DEF TransferEnds, TypeOK
      <4>3. Chunk(m, n) \in ToClientMessages
        BY <4>2 DEF ToClientMessages
      <4>4. ToClient(<<Chunk(m, n)>>)
        BY <4>1 DEF UploadNextFileChunk
      <4> QED
        BY <4>3, <4>4, Messages
    <3> QED
      BY <1>3, <3>1, <3>2, <3>3
  <2>5. /\ Count(s2c', "map_change") = Count(s2c, "map_change")
        /\ Places(s2c', "map_change") = {} <=> Places(s2c, "map_change") = {}
        /\ \A m : LatestIs(s2c, m) => LatestIs(s2c', m)
    BY <1>a, <2>4, QuietToClient, Zenon
  <2>6. UNCHANGED <<map, awaiting_client_readies, up, connected, map_ready, loaded, servermap,
                    downloads, saved, clientReadiesWaiting, increment, decrement, raced,
                    messageQueue>>
    BY <1>3 DEF ProcessRequest, ProcessAck, client, file, counter
  <2>7. Quiet /\ UNCHANGED <<map_ready, loaded, increment>>
    BY <2>2, <2>3, <2>5, <2>6 DEF Quiet
  <2> QED
    BY <2>7, QuietStep
<1>4. CASE ReceiveFrame
  <2>1. PICK i \in DOMAIN s2c : s2c[i] = Frame /\ s2c' = RemoveAt(s2c, i)
    BY <1>4 DEF ReceiveFrame
  <2>2. s2c \in Seq(ToClientMessages) /\ i \in 1 .. Len(s2c) /\ s2c[i].type # "map_change"
    BY <1>a, <2>1, Messages DEF TypeOK
  <2>3. /\ s2c' \in Seq(ToClientMessages)
        /\ Count(s2c', "map_change") = Count(s2c, "map_change")
    BY <2>1, <2>2, CountRemove, Zenon
  <2>6. /\ Count(s2c, "map_change") = 0 <=> Places(s2c, "map_change") = {}
        /\ Count(s2c', "map_change") = 0 <=> Places(s2c', "map_change") = {}
    BY <2>2, <2>3, CountType, Zenon
  <2>7. \A m : LatestIs(s2c, m) => LatestIs(s2c', m)
    BY <2>1, <2>2, LatestRemove, Zenon
  <2>8. ~up => s2c' = s2c
    BY <1>a, <2>2 DEF SessionInv
  <2>9. Quiet /\ UNCHANGED <<map_ready, loaded, increment>>
    BY <1>4, <2>3, <2>6, <2>7, <2>8 DEF ReceiveFrame, server, client, file, counter, Quiet
  <2> QED
    BY <2>9, QuietStep
<1> QED
  BY <1>1, <1>2, <1>3, <1>4

LEMMA ServerNextMapStep ==
  ASSUME ReadiesInv, NEW m \in Map, ServerNextMap(m)
  PROVE  SessionInv' /\ CounterInv' /\ LatestInv' /\ ReadiesAreCounted'
<1> DEFINE e == MapChange(m)
<1>a. TypeOK /\ SessionInv /\ CounterInv /\ LatestInv /\ ReadiesAreCounted
  BY DEF ReadiesInv
<1>b. /\ map' = m
      /\ ToClient(<<e>>)
      /\ awaiting_client_readies' = IF up THEN awaiting_client_readies + 1
                                    ELSE awaiting_client_readies
      /\ UNCHANGED <<up, c2s, connected, map_ready, loaded, servermap, downloads, saved, disk,
                     clientReadiesWaiting, increment, decrement, raced, messageQueue>>
  BY DEF ServerNextMap, SendMapChange, client, file, counter
<1>c. e \in ToClientMessages /\ e.type = "map_change" /\ e.map = m
  BY Messages DEF ToClientMessages
<1> HIDE DEF e
<1>1. /\ s2c \in Seq(ToClientMessages) /\ s2c' \in Seq(ToClientMessages)
      /\ s2c' = IF up THEN Append(s2c, e) ELSE s2c
  BY <1>a, <1>b, <1>c, Queued, Zenon DEF TypeOK
<1>2. LatestIs(Append(s2c, e), m)
  BY <1>1, <1>c, LatestAppend, Zenon
<1>3. Count(Append(s2c, e), "map_change") = Count(s2c, "map_change") + 1
  <2>1. Count(Append(s2c, e), "map_change") =
          Count(s2c, "map_change") + (IF e.type = "map_change" THEN 1 ELSE 0)
    BY <1>1, <1>c, CountAppend, Zenon
  <2> QED
    BY <2>1, <1>c, Zenon
<1>4. /\ Count(s2c, "map_change") \in Nat /\ Count(messageQueue, "map_change") \in Nat
      /\ Count(c2s, "client_ready") \in Nat /\ Len(downloads) \in Nat
      /\ clientReadiesWaiting \in Nat /\ awaiting_client_readies \in Nat
  BY <1>a, Counts DEF TypeOK
<1>5. Count(s2c', "map_change") = 0 <=> Places(s2c', "map_change") = {}
  BY <1>1, CountType, Zenon
<1>6. ~up => s2c' = s2c
  BY <1>1
<1>7. up => /\ LatestIs(s2c', m) /\ Places(s2c', "map_change") # {}
            /\ Count(s2c', "map_change") = Count(s2c, "map_change") + 1
  BY <1>1, <1>2, <1>3, <1>4, <1>5
<1>8. SessionInv'
  BY <1>a, <1>b, <1>6, <1>7 DEF SessionInv, Connecting, InSession
<1>9. CounterInv'
  BY <1>a, <1>b DEF CounterInv
<1>10. LatestInv'
  BY <1>a, <1>b, <1>6, <1>7 DEF LatestInv, InSession, HasOrGets
<1>11. ReadiesAreCounted'
  <2>1. CASE InSession /\ ~raced
    <3> DEFINE one == IF decrement = None THEN 0 ELSE 1
    <3>1. one \in Nat
      OBVIOUS
    <3>2. awaiting_client_readies = Count(s2c, "map_change") + Count(messageQueue, "map_change")
            + Len(downloads) + clientReadiesWaiting - one + Count(c2s, "client_ready")
      BY <1>a, <2>1 DEF ReadiesAreCounted, OnTheWay
    <3>3. OnTheWay' = Count(s2c', "map_change") + Count(messageQueue, "map_change")
            + Len(downloads) + clientReadiesWaiting - one + Count(c2s, "client_ready")
      BY <1>b DEF OnTheWay
    <3> HIDE DEF one
    <3>4. awaiting_client_readies' = awaiting_client_readies + 1
          /\ Count(s2c', "map_change") = Count(s2c, "map_change") + 1
      BY <1>b, <1>7, <2>1 DEF InSession
    <3>5. awaiting_client_readies' = OnTheWay'
      BY <1>4, <3>1, <3>2, <3>3, <3>4, SMTT(30)
    <3> QED
      BY <3>5 DEF ReadiesAreCounted
  <2>2. CASE ~(InSession /\ ~raced)
    BY <1>b, <2>2 DEF ReadiesAreCounted, InSession
  <2> QED
    BY <2>1, <2>2
<1> QED
  BY <1>8, <1>9, <1>10, <1>11

LEMMA ProcessReadyStep ==
  ASSUME ReadiesInv, ProcessReady
  PROVE  SessionInv' /\ CounterInv' /\ LatestInv' /\ ReadiesAreCounted'
<1>a. TypeOK /\ SessionInv /\ CounterInv /\ LatestInv /\ ReadiesAreCounted
  BY DEF ReadiesInv
<1>b. /\ c2s # <<>> /\ c2s' = Tail(c2s) /\ Head(c2s) = Ready
      /\ awaiting_client_readies' = IF awaiting_client_readies = 0 THEN 0
                                    ELSE awaiting_client_readies - 1
      /\ UNCHANGED <<map, up, s2c, connected, map_ready, loaded, servermap, downloads, saved, disk,
                     clientReadiesWaiting, increment, decrement, raced, messageQueue>>
  BY DEF ProcessReady, client, file, counter
<1>c. up /\ connected
  BY <1>a, <1>b DEF SessionInv, Connecting, TypeOK
<1>1. c2s \in Seq(ToServerMessages) /\ c2s' \in Seq(ToServerMessages)
  BY <1>a, <1>b DEF TypeOK
<1>2. Count(c2s, "client_ready") = Count(c2s', "client_ready") + 1
  <2>1. Count(c2s, "client_ready") =
          Count(Tail(c2s), "client_ready") + (IF Head(c2s).type = "client_ready" THEN 1 ELSE 0)
    BY <1>1, <1>b, CountTail, Zenon
  <2>2. Head(c2s).type = "client_ready"
    BY <1>b, Messages
  <2> QED
    BY <2>1, <2>2, <1>b, Zenon
<1>3. Count(c2s', "client_ready") \in Nat
  BY <1>1, CountType, Zenon
<1>4. /\ Count(s2c, "map_change") \in Nat /\ Count(messageQueue, "map_change") \in Nat
      /\ Count(c2s, "client_ready") \in Nat /\ Len(downloads) \in Nat
      /\ clientReadiesWaiting \in Nat /\ awaiting_client_readies \in Nat
  BY <1>a, Counts DEF TypeOK
<1>5. SessionInv'
  BY <1>a, <1>b, <1>c DEF SessionInv, Connecting, InSession
<1>6. CounterInv'
  BY <1>a, <1>b DEF CounterInv
<1>7. LatestInv'
  BY <1>a, <1>b DEF LatestInv, InSession, HasOrGets
<1>8. ReadiesAreCounted'
  <2>1. CASE InSession /\ ~raced
    <3> DEFINE one == IF decrement = None THEN 0 ELSE 1
    <3>1. one \in Nat /\ one <= clientReadiesWaiting
      BY <1>a, <1>4, <2>1 DEF CounterInv
    <3>2. awaiting_client_readies = Count(s2c, "map_change") + Count(messageQueue, "map_change")
            + Len(downloads) + clientReadiesWaiting - one + Count(c2s, "client_ready")
      BY <1>a, <2>1 DEF ReadiesAreCounted, OnTheWay
    <3>3. OnTheWay' = Count(s2c, "map_change") + Count(messageQueue, "map_change")
            + Len(downloads) + clientReadiesWaiting - one + Count(c2s', "client_ready")
      BY <1>b DEF OnTheWay
    <3> HIDE DEF one
    <3> QED
      BY <1>b, <1>2, <1>3, <1>4, <2>1, <3>1, <3>2, <3>3 DEF ReadiesAreCounted, InSession
  <2>2. CASE ~(InSession /\ ~raced)
    BY <1>b, <2>2 DEF ReadiesAreCounted, InSession
  <2> QED
    BY <2>1, <2>2
<1> QED
  BY <1>5, <1>6, <1>7, <1>8

LEMMA ConnectStep ==
  ASSUME ReadiesInv, Connect
  PROVE  SessionInv' /\ CounterInv' /\ LatestInv' /\ ReadiesAreCounted'
<1> DEFINE e == MapChange(map)
<1>a. TypeOK /\ SessionInv /\ CounterInv /\ LatestInv /\ ReadiesAreCounted
  BY DEF ReadiesInv
<1>b. /\ ~up /\ ~connected /\ messageQueue = <<>> /\ increment = None /\ decrement = None
      /\ up' = TRUE /\ s2c' = <<e>> /\ c2s' = <<>> /\ awaiting_client_readies' = 1
      /\ messageQueue' = <<[type |-> "connected"]>>
      /\ UNCHANGED <<map, connected, map_ready, loaded, servermap, downloads, saved, disk,
                     clientReadiesWaiting, increment, decrement, raced>>
  BY DEF Connect, client, file, counter
<1>c. e \in ToClientMessages /\ e.type = "map_change" /\ e.map = map
  BY <1>a, Messages DEF ToClientMessages, TypeOK
<1> HIDE DEF e
<1>1. LatestIs(s2c', map)
  <2>1. <<>> \in Seq(ToClientMessages) /\ Append(<<>>, e) = <<e>>
    OBVIOUS
  <2>2. LatestIs(Append(<<>>, e), map)
    BY <2>1, <1>c, LatestAppend, Zenon
  <2> QED
    BY <2>1, <2>2, <1>b, Zenon
<1>2. Count(s2c', "map_change") = 1 /\ Places(s2c', "map_change") # {}
  <2>1. Count(<<e>>, "map_change") = IF e.type = "map_change" THEN 1 ELSE 0
    BY CountOne, Zenon
  <2>2. Count(<<e>>, "map_change") = 1
    BY <2>1, <1>c, Zenon
  <2>3. <<e>> \in Seq(ToClientMessages)
    BY <1>c
  <2>4. Count(<<e>>, "map_change") = 0 <=> Places(<<e>>, "map_change") = {}
    BY <2>3, CountType, Zenon
  <2> QED
    BY <2>2, <2>4, <1>b
<1>3. SessionInv'
  BY <1>a, <1>b, <1>2 DEF SessionInv, Connecting, InSession
<1>4. CounterInv'
  BY <1>a, <1>b DEF CounterInv
<1>5. LatestInv'
  BY <1>a, <1>b, <1>1 DEF LatestInv, InSession, HasOrGets
<1>6. ReadiesAreCounted'
  BY <1>b DEF ReadiesAreCounted, InSession
<1> QED
  BY <1>3, <1>4, <1>5, <1>6

LEMMA DisconnectStep ==
  ASSUME ReadiesInv, Disconnect
  PROVE  SessionInv' /\ CounterInv' /\ LatestInv' /\ ReadiesAreCounted'
<1> DEFINE e == [type |-> "disconnected"]
<1>a. TypeOK /\ SessionInv /\ CounterInv /\ LatestInv /\ ReadiesAreCounted
  BY DEF ReadiesInv
<1>b. /\ up /\ up' = FALSE /\ s2c' = <<>> /\ c2s' = <<>>
      /\ messageQueue' = Append(messageQueue, e)
      /\ UNCHANGED <<map, connected, map_ready, loaded, servermap, downloads, saved, disk,
                     clientReadiesWaiting, increment, decrement, raced>>
  BY DEF Disconnect, client, file, counter
<1>c. messageQueue \in Seq(ThreadMessages) /\ connected \in BOOLEAN
  BY <1>a DEF TypeOK
<1>1. SessionInv'
  <2>1. CASE ~connected
    <3>1. messageQueue = <<[type |-> "connected"]>>
      BY <1>a, <1>b, <2>1 DEF SessionInv, Connecting
    <3>2. messageQueue' = <<[type |-> "connected"], [type |-> "disconnected"]>>
      <4>1. ASSUME NEW a, NEW b PROVE Append(<<a>>, b) = <<a, b>>
        <5>1. <<a>> \in Seq({a, b}) /\ <<a, b>> \in Seq({a, b}) /\ Len(<<a, b>>) = 2
          OBVIOUS
        <5>2. Append(<<a>>, b) \in Seq({a, b}) /\ Len(Append(<<a>>, b)) = 2
          BY <5>1
        <5>3. \A i \in 1 .. 2 : Append(<<a>>, b)[i] = <<a, b>>[i]
          BY <5>1
        <5> QED
          BY <5>1, <5>2, <5>3, SeqEqual
      <4> QED
        BY <3>1, <4>1, <1>b, Zenon
    <3> QED
      BY <1>a, <1>b, <2>1, <3>2 DEF SessionInv, Connecting, InSession
  <2>2. CASE connected
    <3>1. \A i \in DOMAIN messageQueue : messageQueue[i].type = "map_change"
      BY <1>a, <1>b, <2>2 DEF SessionInv, InSession
    <3>2. /\ messageQueue' # <<>> /\ Last(messageQueue').type = "disconnected"
          /\ \A i \in 1 .. Len(messageQueue') - 1 : messageQueue'[i].type = "map_change"
      <4> DEFINE q == Append(messageQueue, e)  n == Len(messageQueue)
      <4>1. /\ n \in Nat /\ Len(q) = n + 1 /\ q # <<>> /\ q[n + 1] = e
            /\ \A i \in 1 .. n : q[i] = messageQueue[i]
            /\ DOMAIN messageQueue = 1 .. n
        BY <1>c
      <4> HIDE DEF q, n
      <4>2. q # <<>> /\ Last(q).type = "disconnected" /\ \A i \in 1 .. Len(q) - 1 : q[i].type = "map_change"
        BY <3>1, <4>1 DEF Last
      <4> QED
        BY <1>b, <4>2 DEF q
    <3> QED
      BY <1>a, <1>b, <2>2, <3>2 DEF SessionInv, Connecting, InSession
  <2> QED
    BY <1>c, <2>1, <2>2
<1>2. CounterInv'
  BY <1>a, <1>b DEF CounterInv
<1>3. LatestInv'
  BY <1>a, <1>b DEF LatestInv, InSession, HasOrGets
<1>4. ReadiesAreCounted'
  BY <1>b DEF ReadiesAreCounted, InSession
<1> QED
  BY <1>1, <1>2, <1>3, <1>4

LEMMA ReceiveMapChangeStep ==
  ASSUME ReadiesInv, ReceiveMapChange
  PROVE  SessionInv' /\ CounterInv' /\ LatestInv' /\ ReadiesAreCounted'
<1> DEFINE e == Message  q == messageQueue
<1>a. TypeOK /\ SessionInv /\ CounterInv /\ LatestInv /\ ReadiesAreCounted
  BY DEF ReadiesInv
<1>b. /\ HasMessage /\ e.type = "map_change" /\ TakeMessage
      /\ map_ready' = FALSE /\ q' = Append(q, e)
      /\ UNCHANGED <<map, awaiting_client_readies, up, c2s, connected, loaded, servermap, downloads,
                     saved, disk, clientReadiesWaiting, increment, decrement, raced>>
  BY DEF ReceiveMapChange, server, file, counter
<1>c. /\ connected /\ increment = None /\ s2c # <<>> /\ e \in ToClientMessages
      /\ Count(s2c, "map_change") = Count(s2c', "map_change") + 1
      /\ Count(s2c', "map_change") \in Nat
      /\ \A m : LatestIs(s2c, m) =>
              /\ LatestIs(s2c', m)
              /\ Places(s2c', "map_change") = {} => e.map = m
  BY <1>a, <1>b, Taken
<1>d. up
  BY <1>a, <1>c DEF SessionInv
<1>e. q \in Seq(ThreadMessages) /\ e \in ThreadMessages
  <2>1. q \in Seq(ThreadMessages)
    BY <1>a, <1>b DEF TypeOK
  <2>2. e \in ThreadMessages
    <3> HIDE DEF e
    <3>1. e.map \in Map /\ e = MapChange(e.map)
      BY <1>b, <1>c, Messages
    <3> QED
      BY <3>1, Zenon DEF ThreadMessages
  <2> QED
    BY <2>1, <2>2
<1> HIDE DEF e
<1>1. Count(q', "map_change") = Count(q, "map_change") + 1
  <2>1. Count(Append(q, e), "map_change") =
          Count(q, "map_change") + (IF e.type = "map_change" THEN 1 ELSE 0)
    BY <1>e, CountAppend, Zenon
  <2> QED
    BY <2>1, <1>b, Zenon
<1>2. /\ Count(s2c, "map_change") \in Nat /\ Count(q, "map_change") \in Nat
      /\ Count(c2s, "client_ready") \in Nat /\ Len(downloads) \in Nat
      /\ clientReadiesWaiting \in Nat /\ awaiting_client_readies \in Nat
  BY <1>a, Counts DEF TypeOK
<1>3. SessionInv'
  <2>1. \A i \in DOMAIN q' : q'[i].type = "map_change"
    <3>1. \A i \in DOMAIN q : q[i].type = "map_change"
      BY <1>a, <1>c, <1>d DEF SessionInv, InSession
    <3> QED
      BY <3>1, <1>b, <1>e
  <2> QED
    BY <1>a, <1>b, <1>c, <1>d, <2>1 DEF SessionInv, Connecting, InSession
<1>4. CounterInv'
  BY <1>a, <1>b DEF CounterInv
<1>5. LatestInv'
  <2>1. LatestIs(s2c', map)
    BY <1>a, <1>c, <1>d DEF LatestInv
  <2>2. ASSUME Places(s2c', "map_change") = {} PROVE LatestIs(q', map)
    <3>1. e.map = map
      BY <1>a, <1>c, <1>d, <2>2 DEF LatestInv
    <3>2. LatestIs(Append(q, e), map)
      BY <1>b, <1>e, <3>1, LatestAppend, Zenon
    <3> QED
      BY <3>2, <1>b, Zenon
  <2>3. q' # <<>>
    BY <1>b, <1>e
  <2> QED
    BY <1>a, <1>b, <1>c, <2>1, <2>2, <2>3 DEF LatestInv, InSession
<1>6. ReadiesAreCounted'
  <2>1. CASE InSession /\ ~raced
    <3> DEFINE one == IF decrement = None THEN 0 ELSE 1
    <3>1. one \in Nat
      OBVIOUS
    <3>2. awaiting_client_readies = Count(s2c, "map_change") + Count(q, "map_change")
            + Len(downloads) + clientReadiesWaiting - one + Count(c2s, "client_ready")
      BY <1>a, <2>1 DEF ReadiesAreCounted, OnTheWay
    <3>3. OnTheWay' = Count(s2c', "map_change") + Count(q', "map_change")
            + Len(downloads) + clientReadiesWaiting - one + Count(c2s, "client_ready")
      BY <1>b DEF OnTheWay
    <3> HIDE DEF one
    <3> QED
      BY <1>b, <1>c, <1>1, <1>2, <2>1, <3>1, <3>2, <3>3 DEF ReadiesAreCounted, InSession
  <2>2. CASE ~(InSession /\ ~raced)
    BY <1>b, <2>2 DEF ReadiesAreCounted, InSession
  <2> QED
    BY <2>1, <2>2
<1> QED
  BY <1>3, <1>4, <1>5, <1>6

LEMMA ReceiveChunkStep ==
  ASSUME ReadiesInv, ReceiveChunk
  PROVE  SessionInv' /\ CounterInv' /\ LatestInv' /\ ReadiesAreCounted'
<1> DEFINE bad == saved = -1 \/ saved + 1 # Message.chunk \/ Head(downloads) # Message.map
<1>a. TypeOK /\ SessionInv /\ CounterInv /\ LatestInv /\ ReadiesAreCounted
  BY DEF ReadiesInv
<1>b. /\ HasMessage /\ Message.type = "file_download" /\ TakeMessage
      /\ UNCHANGED <<map, awaiting_client_readies, up, connected, servermap, downloads,
                     clientReadiesWaiting, decrement, raced, messageQueue>>
  BY DEF ReceiveChunk, server, file
<1>c. /\ connected /\ increment = None /\ s2c # <<>> /\ s2c' \in Seq(ToClientMessages)
      /\ Count(s2c, "map_change") = Count(s2c', "map_change") + 0
      /\ Count(s2c', "map_change") \in Nat
      /\ \A m : LatestIs(s2c, m) => LatestIs(s2c', m)
  BY <1>a, <1>b, Taken
<1>d. up /\ ~Connecting
  BY <1>a, <1>c DEF SessionInv, Connecting
<1>1. /\ Count(s2c', "map_change") = Count(s2c, "map_change")
      /\ Places(s2c', "map_change") = {} <=> Places(s2c, "map_change") = {}
  <2>1. Count(s2c', "map_change") = 0 <=> Places(s2c', "map_change") = {}
    BY <1>c, CountType, Zenon
  <2> QED
    BY <1>a, <1>c, <2>1, Counts
<1>2. Count(c2s', "client_ready") = Count(c2s, "client_ready")
  <2>1. CASE bad
    BY <2>1 DEF ReceiveChunk
  <2>2. CASE ~bad
    <3>1. ToServer(<<Ack>>) /\ Ack \in ToServerMessages /\ Ack.type # "client_ready"
      BY <2>2, Messages DEF ReceiveChunk, ToServerMessages
    <3>2. c2s' = Append(c2s, Ack) /\ c2s \in Seq(ToServerMessages)
      BY <1>a, <1>d, <3>1, Queued, Zenon DEF TypeOK
    <3>3. Count(Append(c2s, Ack), "client_ready") =
            Count(c2s, "client_ready") + (IF Ack.type = "client_ready" THEN 1 ELSE 0)
      BY <3>1, <3>2, CountAppend, Zenon
    <3> QED
      BY <1>a, <3>1, <3>2, <3>3, Counts
  <2> QED
    BY <2>1, <2>2
<1>3. saved' # -1 => saved # -1
  BY DEF ReceiveChunk, file
<1>4. Quiet
  BY <1>b, <1>c, <1>d, <1>1, <1>2, <1>3 DEF Quiet
<1>5. CASE bad \/ ~Message.last
  <2>1. UNCHANGED <<map_ready, loaded, increment>>
    BY <1>5 DEF ReceiveChunk
  <2> QED
    BY <2>1, <1>4, QuietStep
<1>6. CASE ~bad /\ Message.last
  <2>1. /\ loaded' = IF Wanted(Message.map) THEN Message.map ELSE loaded
        /\ map_ready' = (map_ready \/ Wanted(Message.map))
        /\ increment' = clientReadiesWaiting
        /\ saved # -1 /\ Head(downloads) = Message.map
    BY <1>6 DEF ReceiveChunk
  <2>2. SessionInv'
    BY <1>a, <1>b, <1>c, <1>d, <1>4, <2>1 DEF SessionInv, Quiet, Connecting, InSession
  <2>3. CounterInv'
    BY <1>a, <1>b, <2>1 DEF CounterInv
  <2>4. LatestInv'
    BY <1>a, <1>4, <2>1 DEF LatestInv, Quiet, InSession, HasOrGets, Wanted
  <2>5. ReadiesAreCounted'
    BY <1>a, <1>4 DEF ReadiesAreCounted, OnTheWay, Quiet, InSession
  <2> QED
    BY <2>2, <2>3, <2>4, <2>5
<1> QED
  BY <1>5, <1>6

LEMMA CountReadyStep ==
  ASSUME ReadiesInv, CountReady
  PROVE  SessionInv' /\ CounterInv' /\ LatestInv' /\ ReadiesAreCounted'
<1>a. TypeOK /\ SessionInv /\ CounterInv /\ LatestInv /\ ReadiesAreCounted
  BY DEF ReadiesInv
<1>b. /\ increment # None /\ increment' = None
      /\ clientReadiesWaiting' = increment + 1
      /\ raced' = (raced \/ decrement # None)
      /\ UNCHANGED <<map, awaiting_client_readies, up, s2c, connected, map_ready, loaded, servermap,
                     decrement, messageQueue>>
  BY DEF CountReady, server, client
<1>c. downloads # <<>> /\ connected /\ increment \in Nat /\ decrement \in Nat \cup {None}
  BY <1>a, <1>b DEF SessionInv, TypeOK
<1>d. downloads \in Seq(Map) /\ Tail(downloads) \in Seq(Map) /\ FALSE \in BOOLEAN
  BY <1>a, <1>c DEF TypeOK
<1>e. CheckDownload(Tail(downloads), FALSE, disk, <<>>)
  BY <1>c DEF CountReady, NextDownload
<1>1. /\ downloads' = Tail(downloads)
      /\ Count(c2s', "client_ready") = Count(c2s, "client_ready")
      /\ saved' # -1 => downloads' # <<>>
      /\ ~up => c2s' = c2s
  BY <1>a, <1>d, <1>e, CheckDownloadType, Zenon
<1>2. /\ Count(s2c, "map_change") \in Nat /\ Count(messageQueue, "map_change") \in Nat
      /\ Count(c2s, "client_ready") \in Nat /\ Len(downloads) \in Nat
      /\ clientReadiesWaiting \in Nat /\ awaiting_client_readies \in Nat
  BY <1>a, Counts DEF TypeOK
<1>3. SessionInv'
  BY <1>a, <1>b, <1>c, <1>1 DEF SessionInv, Connecting, InSession
<1>4. CounterInv'
  BY <1>a, <1>b DEF CounterInv
<1>5. LatestInv'
  <2>1. HasOrGets(map) => HasOrGets(map)'
    <3>1. SUFFICES ASSUME HasOrGets(map), ~(map_ready /\ loaded = map)
                   PROVE  \E i \in DOMAIN downloads' : downloads'[i] = map
      BY <1>b DEF HasOrGets
    <3>2. PICK i \in DOMAIN downloads : downloads[i] = map
      BY <3>1 DEF HasOrGets
    <3>3. Head(downloads) # map
      BY <1>a, <1>b, <3>1 DEF LatestInv, HasOrGets
    <3>4. i # 1 /\ i \in 1 .. Len(downloads)
      BY <1>c, <1>d, <3>2, <3>3
    <3>5. i - 1 \in DOMAIN Tail(downloads) /\ Tail(downloads)[i - 1] = downloads[i]
      BY <1>c, <1>d, <3>4
    <3> QED
      BY <1>1, <3>2, <3>5, Zenon
  <2>2. (HasOrGets(map))' = (HasOrGets(map)')
    BY <1>b DEF HasOrGets
  <2> QED
    BY <1>a, <1>b, <1>c, <2>1 DEF LatestInv, InSession
<1>6. ReadiesAreCounted'
  <2>1. CASE InSession /\ ~raced /\ ~raced'
    <3>1. decrement = None /\ clientReadiesWaiting' = clientReadiesWaiting + 1
      BY <1>a, <1>b, <2>1 DEF CounterInv
    <3>2. awaiting_client_readies = Count(s2c, "map_change") + Count(messageQueue, "map_change")
            + Len(downloads) + clientReadiesWaiting - 0 + Count(c2s, "client_ready")
      BY <1>a, <2>1, <3>1 DEF ReadiesAreCounted, OnTheWay
    <3>3. OnTheWay' = Count(s2c, "map_change") + Count(messageQueue, "map_change")
            + Len(downloads') + clientReadiesWaiting' - 0 + Count(c2s, "client_ready")
      BY <1>b, <1>1, <3>1 DEF OnTheWay
    <3>4. Len(downloads') = Len(downloads) - 1
      BY <1>c, <1>d, <1>1
    <3> QED
      <4>1. awaiting_client_readies' = awaiting_client_readies
        BY <1>b
      <4>2. awaiting_client_readies = OnTheWay'
        BY <1>2, <3>1, <3>2, <3>3, <3>4, SMTT(30)
      <4> QED
        BY <4>1, <4>2 DEF ReadiesAreCounted
  <2>2. CASE ~(InSession /\ ~raced /\ ~raced')
    BY <1>b, <2>2 DEF ReadiesAreCounted, InSession
  <2> QED
    BY <2>1, <2>2
<1> QED
  BY <1>3, <1>4, <1>5, <1>6

LEMMA HandleConnectedStep ==
  ASSUME ReadiesInv, HandleConnected
  PROVE  SessionInv' /\ CounterInv' /\ LatestInv' /\ ReadiesAreCounted'
<1>a. TypeOK /\ SessionInv /\ CounterInv /\ LatestInv /\ ReadiesAreCounted
  BY DEF ReadiesInv
<1>b. /\ messageQueue # <<>> /\ Head(messageQueue).type = "connected"
      /\ messageQueue' = Tail(messageQueue) /\ increment = None /\ decrement = None
      /\ connected' = TRUE /\ clientReadiesWaiting' = 0
      /\ UNCHANGED <<map, awaiting_client_readies, up, s2c, c2s, downloads, saved,
                     increment, decrement, raced>>
  BY DEF HandleConnected, Handles, server, file
<1>c. messageQueue \in Seq(ThreadMessages) /\ connected \in BOOLEAN /\ up \in BOOLEAN
  BY <1>a DEF TypeOK
<1>d. Head(messageQueue) = messageQueue[1] /\ 1 \in DOMAIN messageQueue
      /\ Len(messageQueue) \in Nat \ {0}
  BY <1>b, <1>c
<1>1. ~connected
  <2>1. ASSUME connected, up PROVE FALSE
    BY <1>a, <1>b, <1>d, <2>1 DEF SessionInv, InSession
  <2>2. ASSUME connected, ~up PROVE FALSE
    <3>1. /\ Last(messageQueue).type = "disconnected"
          /\ \A i \in 1 .. Len(messageQueue) - 1 : messageQueue[i].type = "map_change"
      BY <1>a, <2>2 DEF SessionInv
    <3>2. CASE Len(messageQueue) = 1
      BY <1>b, <1>d, <3>1, <3>2 DEF Last
    <3>3. CASE Len(messageQueue) # 1
      <4>1. 1 \in 1 .. Len(messageQueue) - 1
        BY <1>d, <3>3
      <4> QED
        BY <1>b, <1>d, <3>1, <4>1
    <3> QED
      BY <3>2, <3>3
  <2> QED
    BY <1>c, <2>1, <2>2
<1>2. downloads = <<>>
  BY <1>a, <1>1 DEF SessionInv
<1>3. saved = -1
  BY <1>a, <1>2 DEF SessionInv
<1>4. CASE up
  <2>1. /\ messageQueue = <<[type |-> "connected"]>> /\ c2s = <<>>
        /\ awaiting_client_readies = Count(s2c, "map_change")
        /\ Places(s2c, "map_change") # {}
    BY <1>a, <1>1, <1>4 DEF SessionInv, Connecting
  <2>2. messageQueue' = <<>>
    BY <1>b, <2>1
  <2>3. SessionInv'
    BY <1>b, <1>2, <1>3, <1>4, <2>2 DEF SessionInv, Connecting, InSession
  <2>4. LatestInv'
    BY <1>a, <1>b, <1>4, <2>1 DEF LatestInv, InSession
  <2>5. ReadiesAreCounted'
    <3>1. Count(s2c, "map_change") \in Nat
      BY <1>a, Counts
    <3>2. Count(<<>>, "map_change") = 0 /\ Count(<<>>, "client_ready") = 0
      BY CountEmpty, Zenon
    <3>3. OnTheWay' = Count(s2c, "map_change") + 0 + 0 + 0 - 0 + 0
      BY <1>b, <1>2, <2>1, <2>2, <3>2 DEF OnTheWay
    <3> QED
      BY <1>b, <2>1, <3>1, <3>3 DEF ReadiesAreCounted
  <2> QED
    BY <1>a, <1>b, <2>3, <2>4, <2>5 DEF CounterInv
<1>5. CASE ~up
  <2>1. messageQueue = <<[type |-> "connected"], [type |-> "disconnected"]>>
    BY <1>a, <1>b, <1>1, <1>5 DEF SessionInv
  <2>2. messageQueue' = <<[type |-> "disconnected"]>>
    <3>1. \A x, y : Tail(<<x, y>>) = <<y>>
      OBVIOUS
    <3> QED
      BY <1>b, <2>1, <3>1, Zenon
  <2>3. SessionInv'
    <3>1. messageQueue' # <<>> /\ Last(messageQueue').type = "disconnected"
          /\ Len(messageQueue') = 1
      BY <2>2 DEF Last
    <3> QED
      BY <1>a, <1>b, <1>2, <1>3, <1>5, <3>1 DEF SessionInv, Connecting, InSession
  <2> QED
    BY <1>a, <1>b, <1>5, <2>3 DEF CounterInv, LatestInv, ReadiesAreCounted, InSession
<1> QED
  BY <1>4, <1>5

LEMMA HandleDisconnectedStep ==
  ASSUME ReadiesInv, HandleDisconnected
  PROVE  SessionInv' /\ CounterInv' /\ LatestInv' /\ ReadiesAreCounted'
<1>a. TypeOK /\ SessionInv /\ CounterInv /\ LatestInv /\ ReadiesAreCounted
  BY DEF ReadiesInv
<1>b. /\ messageQueue # <<>> /\ Head(messageQueue).type = "disconnected"
      /\ messageQueue' = Tail(messageQueue) /\ increment = None /\ decrement = None
      /\ connected' = FALSE /\ downloads' = <<>> /\ saved' = -1
      /\ UNCHANGED <<map, awaiting_client_readies, up, s2c, c2s, clientReadiesWaiting,
                     increment, decrement, raced>>
  BY DEF HandleDisconnected, Handles, server, counter
<1>c. messageQueue \in Seq(ThreadMessages) /\ connected \in BOOLEAN /\ up \in BOOLEAN
  BY <1>a DEF TypeOK
<1>d. Head(messageQueue) = messageQueue[1] /\ 1 \in DOMAIN messageQueue
      /\ Len(messageQueue) \in Nat \ {0}
  BY <1>b, <1>c
<1>1. connected /\ ~up
  <2>1. \A a, b : Head(<<a>>) = a /\ Head(<<a, b>>) = a
    OBVIOUS
  <2>2. ASSUME ~connected PROVE FALSE
    <3>1. messageQueue \in {<<[type |-> "connected"]>>,
                            <<[type |-> "connected"], [type |-> "disconnected"]>>}
      BY <1>a, <1>b, <1>c, <2>2 DEF SessionInv, Connecting
    <3>2. Head(messageQueue) = [type |-> "connected"]
      BY <2>1, <3>1, Zenon
    <3> QED
      BY <1>b, <3>2
  <2>3. ASSUME connected, up PROVE FALSE
    BY <1>a, <1>b, <1>d, <2>3 DEF SessionInv, InSession
  <2> QED
    BY <1>c, <2>2, <2>3
<1>2. messageQueue' = <<>>
  <2>1. \A i \in 1 .. Len(messageQueue) - 1 : messageQueue[i].type = "map_change"
    BY <1>a, <1>1 DEF SessionInv
  <2>2. Len(messageQueue) = 1
    <3>1. ASSUME Len(messageQueue) # 1 PROVE 1 \in 1 .. Len(messageQueue) - 1
      BY <1>d, <3>1
    <3> QED
      BY <1>b, <1>d, <2>1, <3>1
  <2> QED
    BY <1>b, <1>c, <2>2
<1>3. SessionInv'
  BY <1>a, <1>b, <1>1, <1>2 DEF SessionInv, Connecting, InSession
<1> QED
  BY <1>a, <1>b, <1>1, <1>3 DEF CounterInv, LatestInv, ReadiesAreCounted, InSession

LEMMA HandleMapChangeStep ==
  ASSUME ReadiesInv, HandleMapChange
  PROVE  SessionInv' /\ CounterInv' /\ LatestInv' /\ ReadiesAreCounted'
<1> DEFINE q == messageQueue  m == Head(q).map
<1>a. TypeOK /\ SessionInv /\ CounterInv /\ LatestInv /\ ReadiesAreCounted
  BY DEF ReadiesInv
<1>b. /\ q # <<>> /\ Head(q).type = "map_change" /\ q' = Tail(q)
      /\ increment = None /\ decrement = None /\ servermap' = m
      /\ UNCHANGED <<map, awaiting_client_readies, up, s2c, connected, increment, decrement, raced>>
  BY DEF HandleMapChange, Handles, server
<1>c. /\ q \in Seq(ThreadMessages) /\ connected \in BOOLEAN /\ up \in BOOLEAN
      /\ downloads \in Seq(Map) /\ clientReadiesWaiting \in Nat
  BY <1>a DEF TypeOK
<1>d. /\ Head(q) = q[1] /\ 1 \in DOMAIN q /\ Len(q) \in Nat \ {0} /\ q' \in Seq(ThreadMessages)
      /\ Len(q') = Len(q) - 1 /\ \A i \in 1 .. Len(q) - 1 : q'[i] = q[i + 1]
      /\ Head(q) \in ThreadMessages
  BY <1>b, <1>c
<1>e. m \in Map
  BY <1>b, <1>d, Messages
<1>1. connected
  <2>1. \A a, b : Head(<<a>>) = a /\ Head(<<a, b>>) = a
    OBVIOUS
  <2>2. ASSUME ~connected PROVE FALSE
    <3>1. q \in {<<[type |-> "connected"]>>, <<[type |-> "connected"], [type |-> "disconnected"]>>}
      BY <1>a, <1>b, <1>c, <2>2 DEF SessionInv, Connecting
    <3>2. Head(q) = [type |-> "connected"]
      BY <2>1, <3>1, Zenon
    <3> QED
      BY <1>b, <3>2
  <2> QED
    BY <1>c, <2>2
(* The map is loaded, or added to the downloads.                                  *)
<1>2. /\ \/ /\ loaded' = m /\ map_ready' = TRUE /\ downloads' = downloads
            /\ clientReadiesWaiting' = clientReadiesWaiting + 1
         \/ downloads' = Append(downloads, m) /\ clientReadiesWaiting' = clientReadiesWaiting
      /\ Count(c2s', "client_ready") = Count(c2s, "client_ready")
      /\ saved' # -1 => downloads' # <<>>
      /\ ~up => c2s' = c2s
  <2>1. CASE m \in disk
    <3>1. /\ loaded' = m /\ map_ready' = TRUE /\ clientReadiesWaiting' = clientReadiesWaiting + 1
          /\ UNCHANGED <<downloads, saved, c2s>>
      BY <2>1 DEF HandleMapChange, file
    <3> QED
      BY <1>a, <3>1 DEF SessionInv
  <2>2. CASE m \notin disk
    <3>1. CheckDownload(Append(downloads, m), saved >= 0, disk, <<>>)
          /\ clientReadiesWaiting' = clientReadiesWaiting
      BY <2>2 DEF HandleMapChange
    <3>2. Append(downloads, m) \in Seq(Map) /\ (saved >= 0) \in BOOLEAN
      BY <1>c, <1>e
    <3>3. /\ downloads' = Append(downloads, m)
          /\ Count(c2s', "client_ready") = Count(c2s, "client_ready")
          /\ saved' # -1 => downloads' # <<>>
          /\ ~up => c2s' = c2s
      BY <1>a, <3>1, <3>2, CheckDownloadType, Zenon
    <3> QED
      BY <3>1, <3>3, Zenon
  <2> QED
    BY <2>1, <2>2
<1>3. servermap' = m /\ ((map_ready' /\ loaded' = m) \/ \E i \in DOMAIN downloads' : downloads'[i] = m)
  <2>1. ASSUME downloads' = Append(downloads, m)
        PROVE  \E i \in DOMAIN downloads' : downloads'[i] = m
    <3>1. /\ Len(downloads) + 1 \in DOMAIN Append(downloads, m)
          /\ Append(downloads, m)[Len(downloads) + 1] = m
      BY <1>c, <1>e
    <3> QED
      BY <2>1, <3>1, Zenon
  <2> QED
    BY <1>b, <1>2, <2>1
<1>4. SessionInv'
  <2>1. CASE up
    <3>1. \A i \in DOMAIN q : q[i].type = "map_change"
      BY <1>a, <1>1, <2>1 DEF SessionInv, InSession
    <3>2. \A i \in DOMAIN q' : q'[i].type = "map_change"
      BY <1>c, <1>d, <3>1, SMTT(30)
    <3> QED
      BY <1>a, <1>b, <1>1, <1>2, <2>1, <3>2 DEF SessionInv, Connecting, InSession
  <2>2. CASE ~up
    <3>1. /\ Last(q).type = "disconnected"
          /\ \A i \in 1 .. Len(q) - 1 : q[i].type = "map_change"
      BY <1>a, <1>1, <2>2 DEF SessionInv
    <3>2. Len(q) # 1
      BY <1>b, <1>d, <3>1 DEF Last
    <3>3. /\ q' # <<>> /\ Last(q').type = "disconnected"
          /\ \A i \in 1 .. Len(q') - 1 : q'[i].type = "map_change"
      <4>1. Len(q) - 1 \in 1 .. Len(q) - 1 /\ q'[Len(q) - 1] = q[Len(q)]
        BY <1>d, <3>2
      <4>2. \A i \in 1 .. Len(q') - 1 : i + 1 \in 1 .. Len(q) - 1 /\ q'[i] = q[i + 1]
        BY <1>d
      <4> QED
        BY <1>d, <3>1, <4>1, <4>2 DEF Last
    <3> QED
      BY <1>a, <1>b, <1>1, <1>2, <2>2, <3>3 DEF SessionInv, Connecting, InSession
  <2> QED
    BY <1>c, <2>1, <2>2
<1>5. CounterInv'
  BY <1>a, <1>b DEF CounterInv
<1>6. LatestInv'
  <2>1. ASSUME up, Places(s2c, "map_change") = {}
        PROVE  LatestIs(q', map) /\ (q' = <<>> => m = map)
    <3>1. LatestIs(q, map)
      BY <1>a, <1>1, <2>1 DEF LatestInv, InSession
    <3>2. q' = SubSeq(q, 1 + 1, Len(q)) /\ 1 \in 1 .. Len(q)
      BY <1>b, <1>c, <1>d, TailIsSubSeq
    <3>3. LET u == SubSeq(q, 1 + 1, Len(q)) IN
          /\ LatestIs(u, map)
          /\ q[1].type = "map_change" /\ Places(u, "map_change") = {} => q[1].map = map
      BY <1>c, <3>1, <3>2, LatestSuffix, Zenon
    <3>4. LatestIs(q', map) /\ (Places(q', "map_change") = {} => m = map)
      BY <1>b, <1>d, <3>2, <3>3, Zenon
    <3> QED
      BY <3>4, CountEmpty
  <2>2. up => LatestIs(s2c, map)
    BY <1>a DEF LatestInv
  <2>3. up /\ Places(s2c, "map_change") = {} /\ q' = <<>> => HasOrGets(map)'
    BY <1>b, <1>3, <2>1 DEF HasOrGets
  <2> QED
    BY <1>b, <1>1, <2>1, <2>2, <2>3 DEF LatestInv, InSession
<1>7. ReadiesAreCounted'
  <2>1. CASE InSession /\ ~raced
    <3>1. Count(q, "map_change") = Count(q', "map_change") + 1 /\ Count(q', "map_change") \in Nat
      <4>1. Count(q, "map_change") =
              Count(Tail(q), "map_change") + (IF Head(q).type = "map_change" THEN 1 ELSE 0)
        BY <1>b, <1>c, CountTail, Zenon
      <4>2. Count(q', "map_change") \in Nat
        BY <1>d, CountType, Zenon
      <4> QED
        BY <4>1, <4>2, <1>b, Zenon
    <3>2. /\ Count(s2c, "map_change") \in Nat /\ Count(c2s, "client_ready") \in Nat
          /\ Len(downloads) \in Nat
      BY <1>a, Counts
    <3>3. awaiting_client_readies = Count(s2c, "map_change") + Count(q, "map_change")
            + Len(downloads) + clientReadiesWaiting - 0 + Count(c2s, "client_ready")
      BY <1>a, <1>b, <2>1 DEF ReadiesAreCounted, OnTheWay
    <3>4. OnTheWay' = Count(s2c, "map_change") + Count(q', "map_change")
            + Len(downloads') + clientReadiesWaiting' - 0 + Count(c2s, "client_ready")
      BY <1>b, <1>2 DEF OnTheWay
    <3>5. /\ Len(downloads') \in Nat /\ clientReadiesWaiting' \in Nat
          /\ Len(downloads') + clientReadiesWaiting' = Len(downloads) + clientReadiesWaiting + 1
      BY <1>c, <1>e, <1>2
    <3> DEFINE toClient == Count(s2c, "map_change")  before == Count(q, "map_change")
               after == Count(q', "map_change")  toServer == Count(c2s, "client_ready")
               old == Len(downloads)  new == Len(downloads')
               sum == awaiting_client_readies  rest == OnTheWay'
    <3>6. /\ toClient \in Nat /\ before = after + 1 /\ after \in Nat /\ toServer \in Nat
          /\ old \in Nat /\ new \in Nat
          /\ sum = toClient + before + old + clientReadiesWaiting - 0 + toServer
          /\ rest = toClient + after + new + clientReadiesWaiting' - 0 + toServer
      BY <3>1, <3>2, <3>3, <3>4, <3>5, Zenon
    <3>7. new + clientReadiesWaiting' = old + clientReadiesWaiting + 1 /\ clientReadiesWaiting' \in Nat
      BY <3>5, Zenon
    <3>8. sum = rest
      <4>1. clientReadiesWaiting \in Nat
        BY <1>c
      <4> HIDE DEF toClient, before, after, toServer, old, new, sum, rest
      <4>2. sum = (toClient + toServer) + after + (old + clientReadiesWaiting + 1)
        BY <4>1, <3>6
      <4>3. rest = (toClient + toServer) + after + (new + clientReadiesWaiting')
        BY <3>6, <3>7
      <4> QED
        BY <4>2, <4>3, <3>7, Zenon
    <3> QED
      BY <1>b, <3>8 DEF ReadiesAreCounted
  <2>2. CASE ~(InSession /\ ~raced)
    BY <1>b, <2>2 DEF ReadiesAreCounted, InSession
  <2> QED
    BY <2>1, <2>2
<1> QED
  BY <1>4, <1>5, <1>6, <1>7

LEMMA SendReadyStep ==
  ASSUME ReadiesInv, SendReady
  PROVE  SessionInv' /\ CounterInv' /\ LatestInv' /\ ReadiesAreCounted'
<1>a. TypeOK /\ SessionInv /\ CounterInv /\ LatestInv /\ ReadiesAreCounted
  BY DEF ReadiesInv
<1>b. /\ decrement = None /\ clientReadiesWaiting > 0 /\ ~Connecting
      /\ ToServer(<<Ready>>) /\ decrement' = clientReadiesWaiting
      /\ UNCHANGED <<map, awaiting_client_readies, up, s2c, connected, map_ready, loaded, servermap,
                     downloads, saved, disk, clientReadiesWaiting, increment, raced, messageQueue>>
  BY DEF SendReady, server, client, file
<1>c. Ready \in ToServerMessages /\ Ready.type = "client_ready"
  BY Messages DEF ToServerMessages
<1>1. /\ c2s \in Seq(ToServerMessages) /\ c2s' = IF up THEN Append(c2s, Ready) ELSE c2s
  BY <1>a, <1>b, <1>c, Queued, Zenon DEF TypeOK
<1>2. /\ Count(s2c, "map_change") \in Nat /\ Count(messageQueue, "map_change") \in Nat
      /\ Count(c2s, "client_ready") \in Nat /\ Len(downloads) \in Nat
      /\ clientReadiesWaiting \in Nat /\ awaiting_client_readies \in Nat
  BY <1>a, Counts DEF TypeOK
<1>3. up => Count(c2s', "client_ready") = Count(c2s, "client_ready") + 1
  <2>1. Count(Append(c2s, Ready), "client_ready") =
          Count(c2s, "client_ready") + (IF Ready.type = "client_ready" THEN 1 ELSE 0)
    BY <1>1, <1>c, CountAppend, Zenon
  <2> QED
    BY <1>1, <1>c, <2>1, Zenon
<1>4. SessionInv'
  BY <1>a, <1>b, <1>1 DEF SessionInv, Connecting, InSession
<1>5. CounterInv'
  BY <1>a, <1>b, <1>2 DEF CounterInv
<1>6. LatestInv'
  BY <1>a, <1>b DEF LatestInv, InSession, HasOrGets
<1>7. ReadiesAreCounted'
  <2>1. CASE InSession /\ ~raced
    <3>1. awaiting_client_readies = Count(s2c, "map_change") + Count(messageQueue, "map_change")
            + Len(downloads) + clientReadiesWaiting - 0 + Count(c2s, "client_ready")
      BY <1>a, <1>b, <2>1 DEF ReadiesAreCounted, OnTheWay
    <3>2. decrement' # None
      BY <1>b, <1>2, NoneIsNone
    <3>3. OnTheWay' = Count(s2c, "map_change") + Count(messageQueue, "map_change")
            + Len(downloads) + clientReadiesWaiting - 1 + Count(c2s', "client_ready")
      BY <1>b, <3>2 DEF OnTheWay
    <3>4. awaiting_client_readies = OnTheWay'
      BY <1>2, <1>3, <2>1, <3>1, <3>3 DEF InSession
    <3> QED
      BY <1>b, <3>4 DEF ReadiesAreCounted
  <2>2. CASE ~(InSession /\ ~raced)
    BY <1>b, <2>2 DEF ReadiesAreCounted, InSession
  <2> QED
    BY <2>1, <2>2
<1> QED
  BY <1>4, <1>5, <1>6, <1>7

LEMMA ReadySentStep ==
  ASSUME ReadiesInv, ReadySent
  PROVE  SessionInv' /\ CounterInv' /\ LatestInv' /\ ReadiesAreCounted'
<1>a. TypeOK /\ SessionInv /\ CounterInv /\ LatestInv /\ ReadiesAreCounted
  BY DEF ReadiesInv
<1>b. /\ decrement # None /\ decrement' = None /\ clientReadiesWaiting' = decrement - 1
      /\ raced' = (raced \/ increment # None)
      /\ UNCHANGED <<map, awaiting_client_readies, up, s2c, c2s, connected, map_ready, loaded,
                     servermap, downloads, saved, disk, increment, messageQueue>>
  BY DEF ReadySent, server, client, file
<1>1. /\ Count(s2c, "map_change") \in Nat /\ Count(messageQueue, "map_change") \in Nat
      /\ Count(c2s, "client_ready") \in Nat /\ Len(downloads) \in Nat
      /\ clientReadiesWaiting \in Nat /\ awaiting_client_readies \in Nat
  BY <1>a, Counts DEF TypeOK
<1>2. SessionInv'
  BY <1>a, <1>b DEF SessionInv, Connecting, InSession
<1>3. CounterInv'
  BY <1>a, <1>b DEF CounterInv
<1>4. LatestInv'
  BY <1>a, <1>b DEF LatestInv, InSession, HasOrGets
<1>5. ReadiesAreCounted'
  <2>1. CASE InSession /\ ~raced /\ ~raced'
    <3>1. decrement = clientReadiesWaiting
      BY <1>a, <1>b, <2>1 DEF CounterInv
    <3>2. awaiting_client_readies = Count(s2c, "map_change") + Count(messageQueue, "map_change")
            + Len(downloads) + clientReadiesWaiting - 1 + Count(c2s, "client_ready")
      BY <1>a, <1>b, <2>1 DEF ReadiesAreCounted, OnTheWay
    <3>3. OnTheWay' = Count(s2c, "map_change") + Count(messageQueue, "map_change")
            + Len(downloads) + clientReadiesWaiting' - 0 + Count(c2s, "client_ready")
      BY <1>b DEF OnTheWay
    <3>4. awaiting_client_readies = OnTheWay'
      BY <1>b, <1>1, <3>1, <3>2, <3>3
    <3> QED
      BY <1>b, <3>4 DEF ReadiesAreCounted
  <2>2. CASE ~(InSession /\ ~raced /\ ~raced')
    BY <1>b, <2>2 DEF ReadiesAreCounted, InSession
  <2> QED
    BY <2>1, <2>2
<1> QED
  BY <1>2, <1>3, <1>4, <1>5

--------------------------------------------------------------------------------
(* The theorems.                                                                  *)

LEMMA InitReadies ==
  Init => ReadiesInv
<1> SUFFICES ASSUME Init PROVE ReadiesInv
  OBVIOUS
<1>1. TypeOK
  BY InitType
<1>2. SessionInv
  BY DEF Init, SessionInv, Connecting, InSession
<1> QED
  BY <1>1, <1>2 DEF Init, ReadiesInv, CounterInv, LatestInv, ReadiesAreCounted, InSession

LEMMA NextReadies ==
  ASSUME ReadiesInv, [Next]_vars
  PROVE  ReadiesInv'
<1>1. TypeOK'
  BY TypeStep DEF ReadiesInv
<1>2. SessionInv' /\ CounterInv' /\ LatestInv' /\ ReadiesAreCounted'
  <2>1. CASE \E m \in Map : ServerNextMap(m)
    BY <2>1, ServerNextMapStep
  <2>2. CASE ProcessReady
    BY <2>2, ProcessReadyStep
  <2>3. CASE Connect
    BY <2>3, ConnectStep
  <2>4. CASE Disconnect
    BY <2>4, DisconnectStep
  <2>5. CASE ReceiveMapChange
    BY <2>5, ReceiveMapChangeStep
  <2>6. CASE ReceiveChunk
    BY <2>6, ReceiveChunkStep
  <2>7. CASE CountReady
    BY <2>7, CountReadyStep
  <2>8. CASE HandleConnected
    BY <2>8, HandleConnectedStep
  <2>9. CASE HandleDisconnected
    BY <2>9, HandleDisconnectedStep
  <2>10. CASE HandleMapChange
    BY <2>10, HandleMapChangeStep
  <2>11. CASE SendReady
    BY <2>11, SendReadyStep
  <2>12. CASE ReadySent
    BY <2>12, ReadySentStep
  <2>13. CASE StartGame \/ SendFrame \/ ProcessRequest \/ ProcessAck \/ ReceiveFrame
              \/ UNCHANGED vars
    BY <2>13, QuietSteps
  <2> QED
    BY <2>1, <2>2, <2>3, <2>4, <2>5, <2>6, <2>7, <2>8, <2>9, <2>10, <2>11, <2>12, <2>13, Zenon
    DEF Next, Server, NetworkThread, MainThread
<1> QED
  BY <1>1, <1>2 DEF ReadiesInv

(* The inductive invariant: the types, what is under way in each state of the      *)
(* connection, what a thread has read, and where the latest map change is.         *)
THEOREM ReadiesInvariance ==
  Spec => []ReadiesInv
<1>1. Init => ReadiesInv
  BY InitReadies
<1>2. ReadiesInv /\ [Next]_vars => ReadiesInv'
  BY NextReadies
<1> QED
  BY <1>1, <1>2, PTL DEF Spec

(* Every map change that the server counts (servnet.cpp:1150) is in exactly one   *)
(* place on its way through the client and back, whatever the lengths of files,   *)
(* the number of map changes and of sessions.                                     *)
THEOREM ReadiesAreCountedAlways ==
  Spec => []ReadiesAreCounted
<1>1. ReadiesInv => ReadiesAreCounted
  BY DEF ReadiesInv
<1> QED
  BY <1>1, ReadiesInvariance, PTL

(* A player that the server waits for no longer has the map it plays: nothing of  *)
(* the sum is left, so neither a map change nor a download is on its way.         *)
LEMMA NothingOnTheWay ==
  ASSUME ReadiesInv, InSession, ~raced, awaiting_client_readies = 0
  PROVE  map_ready /\ loaded = map /\ Places(s2c, "map_change") = {}
<1> DEFINE one == IF decrement = None THEN 0 ELSE 1
<1>a. TypeOK /\ SessionInv /\ CounterInv /\ LatestInv /\ ReadiesAreCounted
  BY DEF ReadiesInv
<1>1. /\ Count(s2c, "map_change") \in Nat /\ Count(messageQueue, "map_change") \in Nat
      /\ Count(c2s, "client_ready") \in Nat /\ Len(downloads) \in Nat
      /\ clientReadiesWaiting \in Nat /\ messageQueue \in Seq(ThreadMessages)
      /\ downloads \in Seq(Map)
  BY <1>a, Counts DEF TypeOK
<1>2. one \in Nat /\ one <= clientReadiesWaiting
  BY <1>a, <1>1 DEF CounterInv
<1>3. 0 = Count(s2c, "map_change") + Count(messageQueue, "map_change")
          + Len(downloads) + clientReadiesWaiting - one + Count(c2s, "client_ready")
  BY <1>a DEF ReadiesAreCounted, OnTheWay
<1> HIDE DEF one
<1>4. Count(s2c, "map_change") = 0 /\ Count(messageQueue, "map_change") = 0 /\ Len(downloads) = 0
  BY <1>1, <1>2, <1>3
<1>5. Places(s2c, "map_change") = {} /\ Places(messageQueue, "map_change") = {}
  BY <1>1, <1>4, <1>a, CountType DEF TypeOK
<1>6. messageQueue = <<>>
  <2>1. \A i \in DOMAIN messageQueue : messageQueue[i].type = "map_change"
    BY <1>a DEF SessionInv
  <2>2. DOMAIN messageQueue = {}
    BY <1>5, <2>1 DEF Places
  <2> QED
    BY <1>1, <2>2
<1>7. HasOrGets(map) /\ DOMAIN downloads = {}
  BY <1>1, <1>4, <1>5, <1>6, <1>a DEF LatestInv
<1> QED
  BY <1>5, <1>7 DEF HasOrGets

(* So whoever gets into the game plays on the map that the server plays.          *)
THEOREM PlayersHaveTheMapAlways ==
  Spec => []PlayersHaveTheMap
<1>1. ReadiesInv => PlayersHaveTheMap
  BY NothingOnTheWay DEF PlayersHaveTheMap
<1> QED
  BY <1>1, ReadiesInvariance, PTL

--------------------------------------------------------------------------------
(* The order of the messages in a sequence that grows at the end, or that is a    *)
(* part of another one.                                                           *)

LEMMA PlacesAppend ==
  ASSUME NEW S, NEW s \in Seq(S), NEW e \in S, NEW type
  PROVE  /\ Append(s, e) \in Seq(S)
         /\ Places(Append(s, e), type) =
              Places(s, type) \cup (IF e.type = type THEN {Len(s) + 1} ELSE {})
         /\ Append(s, e)[Len(s) + 1] = e
         /\ \A i \in Places(s, type) : i \in 1 .. Len(s) /\ Append(s, e)[i] = s[i]
<1>1. /\ DOMAIN Append(s, e) = 1 .. Len(s) + 1 /\ DOMAIN s = 1 .. Len(s) /\ Len(s) \in Nat
      /\ Append(s, e)[Len(s) + 1] = e /\ \A i \in 1 .. Len(s) : Append(s, e)[i] = s[i]
      /\ Append(s, e) \in Seq(S)
  OBVIOUS
<1>2. 1 .. Len(s) + 1 = 1 .. Len(s) \cup {Len(s) + 1} /\ Len(s) + 1 \notin 1 .. Len(s)
  BY <1>1
<1> DEFINE u == Append(s, e)  n == Len(s) + 1
<1> HIDE DEF u, n
<1>3. Places(u, type) = Places(s, type) \cup (IF e.type = type THEN {n} ELSE {})
  BY <1>1, <1>2 DEF Places, u, n
<1> QED
  BY <1>1, <1>3 DEF u, n, Places

LEMMA OrderAppend ==
  ASSUME NEW S, NEW s \in Seq(S), NEW e \in S
  PROVE  /\ \A a, b : Before(s, a, b) /\ (e.type = a => Places(s, b) = {} /\ a # b) =>
                        Before(Append(s, e), a, b)
         /\ \A a, x : Only(s, a, x) /\ (e.type = a => e = x) => Only(Append(s, e), a, x)
         /\ \A a : e.type # a => Places(Append(s, e), a) = Places(s, a)
<1> DEFINE u == Append(s, e)  n == Len(s) + 1
<1>1. /\ n \in Nat /\ u[n] = e
      /\ \A a : /\ Places(u, a) = Places(s, a) \cup (IF e.type = a THEN {n} ELSE {})
                /\ \A i \in Places(s, a) : i < n /\ u[i] = s[i]
  <2>1. n \in Nat /\ \A i \in 1 .. Len(s) : i < n
    OBVIOUS
  <2>2. u[n] = e
    OBVIOUS
  <2>3. ASSUME NEW a
        PROVE  /\ Places(u, a) = Places(s, a) \cup (IF e.type = a THEN {n} ELSE {})
               /\ \A i \in Places(s, a) : i \in 1 .. Len(s) /\ u[i] = s[i]
    <3>1. e.type = a \/ e.type # a
      OBVIOUS
    <3> HIDE DEF Places
    <3> QED
      BY <3>1, PlacesAppend, SMT
  <2> QED
    BY <2>1, <2>2, <2>3, Zenon
<1> HIDE DEF u, n
<1>2. ASSUME NEW a, NEW b, Before(s, a, b), e.type = a => Places(s, b) = {} /\ a # b
      PROVE  Before(u, a, b)
  <2>1. ASSUME NEW i \in Places(u, a), NEW j \in Places(u, b) PROVE i < j
    <3>1. CASE i \in Places(s, a) /\ j \in Places(s, b)
      BY <1>2, <3>1 DEF Before
    <3>2. CASE i \in Places(s, a) /\ j = n
      BY <1>1, <3>2
    <3>3. CASE i \notin Places(s, a)
      BY <1>1, <1>2, <3>3, <2>1
    <3> QED
      BY <1>1, <2>1, <3>1, <3>2, <3>3
  <2> QED
    BY <2>1 DEF Before
<1>3. ASSUME NEW a, NEW x, Only(s, a, x), e.type = a => e = x
      PROVE  Only(u, a, x)
  BY <1>1, <1>3 DEF Only
<1> QED
  BY <1>1, <1>2, <1>3 DEF u

LEMMA OrderPart ==
  ASSUME NEW u, NEW s, NEW k \in [DOMAIN u -> DOMAIN s],
         \A i \in DOMAIN u : u[i] = s[k[i]],
         \A i, j \in DOMAIN u : k[i] < k[j] => i < j
  PROVE  /\ \A a, b : Before(s, a, b) => Before(u, a, b)
         /\ \A a, x : Only(s, a, x) => Only(u, a, x)
         /\ \A a : Places(s, a) = {} => Places(u, a) = {}
<1>1. \A a : \A i \in Places(u, a) : i \in DOMAIN u /\ k[i] \in Places(s, a)
  BY DEF Places
<1> QED
  BY <1>1 DEF Before, Only

LEMMA OrderSuffix ==
  ASSUME NEW S, NEW s \in Seq(S), NEW n \in 1 .. Len(s)
  PROVE  LET u == SubSeq(s, n + 1, Len(s)) IN
         /\ \A a, b : Before(s, a, b) => Before(u, a, b)
         /\ \A a, x : Only(s, a, x) => Only(u, a, x)
         /\ \A a : Places(s, a) = {} => Places(u, a) = {}
         /\ \A a : \A i \in Places(u, a) : i + n \in Places(s, a) /\ i > 0
<1> DEFINE u == SubSeq(s, n + 1, Len(s))  k == [i \in DOMAIN u |-> i + n]
<1>1. /\ DOMAIN u = 1 .. Len(s) - n /\ DOMAIN s = 1 .. Len(s) /\ Len(s) \in Nat
      /\ \A i \in 1 .. Len(s) - n : u[i] = s[i + n]
  OBVIOUS
<1> HIDE DEF u
<1>2. /\ k \in [DOMAIN u -> DOMAIN s] /\ \A i \in DOMAIN u : u[i] = s[k[i]]
      /\ \A i, j \in DOMAIN u : k[i] < k[j] => i < j
  BY <1>1
<1>3. \A a : \A i \in Places(u, a) : i + n \in Places(s, a) /\ i > 0
  BY <1>1 DEF Places
<1> HIDE DEF k
<1>4. /\ \A a, b : Before(s, a, b) => Before(u, a, b)
      /\ \A a, x : Only(s, a, x) => Only(u, a, x)
      /\ \A a : Places(s, a) = {} => Places(u, a) = {}
  BY <1>2, OrderPart, Zenon
<1> QED
  BY <1>3, <1>4, Zenon DEF u

LEMMA OrderTail ==
  ASSUME NEW S, NEW s \in Seq(S), s # <<>>
  PROVE  /\ \A a, b : Before(s, a, b) => Before(Tail(s), a, b)
         /\ \A a, x : Only(s, a, x) => Only(Tail(s), a, x)
         /\ \A a : Places(s, a) = {} => Places(Tail(s), a) = {}
<1>1. 1 \in 1 .. Len(s) /\ Tail(s) = SubSeq(s, 1 + 1, Len(s))
  BY TailIsSubSeq
<1>2. LET u == SubSeq(s, 1 + 1, Len(s)) IN
      /\ \A a, b : Before(s, a, b) => Before(u, a, b)
      /\ \A a, x : Only(s, a, x) => Only(u, a, x)
      /\ \A a : Places(s, a) = {} => Places(u, a) = {}
  BY <1>1, OrderSuffix, Zenon
<1> QED
  BY <1>1, <1>2, Zenon

LEMMA OrderRemove ==
  ASSUME NEW S, NEW s \in Seq(S), NEW n \in 1 .. Len(s)
  PROVE  /\ \A a, b : Before(s, a, b) => Before(RemoveAt(s, n), a, b)
         /\ \A a, x : Only(s, a, x) => Only(RemoveAt(s, n), a, x)
         /\ \A a : Places(s, a) = {} => Places(RemoveAt(s, n), a) = {}
<1> DEFINE u == RemoveAt(s, n)  k == [i \in DOMAIN u |-> IF i < n THEN i ELSE i + 1]
<1>1. /\ DOMAIN u = 1 .. Len(s) - 1 /\ DOMAIN s = 1 .. Len(s) /\ Len(s) \in Nat
      /\ \A i \in 1 .. Len(s) - 1 : u[i] = IF i < n THEN s[i] ELSE s[i + 1]
  BY RemoveAtIs, Zenon
<1> HIDE DEF u
<1>2. k \in [DOMAIN u -> DOMAIN s] /\ \A i \in DOMAIN u : u[i] = s[k[i]]
  BY <1>1
<1>3. \A i, j \in DOMAIN u : k[i] < k[j] => i < j
  BY <1>1
<1> HIDE DEF k
<1>4. /\ \A a, b : Before(s, a, b) => Before(u, a, b)
      /\ \A a, x : Only(s, a, x) => Only(u, a, x)
      /\ \A a : Places(s, a) = {} => Places(u, a) = {}
  BY <1>2, <1>3, OrderPart, Zenon
<1> QED
  BY <1>4, Zenon DEF u

LEMMA NoneOf ==
  ASSUME NEW S, NEW s \in Seq(S), NEW type
  PROVE  /\ Count(s, type) \in Nat
         /\ Count(s, type) = 0 <=> Places(s, type) = {}
         /\ Count(s, type) = 0 => /\ \A e : Only(s, type, e)
                                  /\ \A a : Before(s, type, a) /\ Before(s, a, type)
<1>1. Count(s, type) \in Nat /\ (Count(s, type) = 0 <=> Places(s, type) = {})
  BY CountType, Zenon
<1> QED
  BY <1>1 DEF Only, Before

--------------------------------------------------------------------------------
(* What one more message changes, on either side.                                 *)

LEMMA Numbers ==
  ASSUME TypeOK
  PROVE  /\ Sent \in Nat /\ Acked \in Nat /\ Asked \in Nat
         /\ Sent = 0 => \A x : Only(s2c, "file_download", x)
         /\ Asked = 0 => /\ \A x : Only(c2s, "file_request", x)
                         /\ Before(c2s, "file_ack", "file_request")
         /\ Acked = 0 => Before(c2s, "file_ack", "file_request")
<1>1. s2c \in Seq(ToClientMessages) /\ c2s \in Seq(ToServerMessages)
  BY DEF TypeOK
<1> QED
  BY <1>1, NoneOf, Zenon DEF Sent, Acked, Asked

LEMMA Successor ==
  \A n \in Nat : n + 1 # 0 /\ (n + 1 = 1 => n = 0)
OBVIOUS

LEMMA Transfers ==
  \A m \in Map, n \in Nat : [map |-> m, dp |-> n] # None
BY MapsAssumption

LEMMA SentToClient ==
  ASSUME TypeOK, up, NEW e \in ToClientMessages, ToClient(<<e>>)
  PROVE  /\ Sent' = Sent + (IF e.type = "file_download" THEN 1 ELSE 0)
         /\ \A x : Only(s2c, "file_download", x) /\ (e.type = "file_download" => e = x) =>
                     Only(s2c', "file_download", x)
         /\ e.type # "frame" => Places(s2c', "frame") = Places(s2c, "frame")
         /\ Before(s2c, "frame", "map_change")
            /\ (e.type = "frame" => Places(s2c, "map_change") = {}) =>
              Before(s2c', "frame", "map_change")
<1>1. s2c \in Seq(ToClientMessages) /\ s2c' = Append(s2c, e)
  BY Queued, Zenon DEF TypeOK
<1>2. Count(Append(s2c, e), "file_download") =
        Count(s2c, "file_download") + (IF e.type = "file_download" THEN 1 ELSE 0)
  BY <1>1, CountAppend, Zenon
<1>3. "frame" # "map_change"
  OBVIOUS
<1>4. /\ \A a, b : Before(s2c, a, b) /\ (e.type = a => Places(s2c, b) = {} /\ a # b) =>
                     Before(s2c', a, b)
      /\ \A a, x : Only(s2c, a, x) /\ (e.type = a => e = x) => Only(s2c', a, x)
      /\ \A a : e.type # a => Places(s2c', a) = Places(s2c, a)
  BY <1>1, OrderAppend, Zenon
<1> QED
  BY <1>1, <1>2, <1>3, <1>4, Zenon DEF Sent

LEMMA SentToServer ==
  ASSUME TypeOK, up, NEW e \in ToServerMessages, ToServer(<<e>>)
  PROVE  /\ Acked' = Acked + (IF e.type = "file_ack" THEN 1 ELSE 0)
         /\ Asked' = Asked + (IF e.type = "file_request" THEN 1 ELSE 0)
         /\ \A x : Only(c2s, "file_request", x) /\ (e.type = "file_request" => e = x) =>
                     Only(c2s', "file_request", x)
         /\ Before(c2s, "file_ack", "file_request") /\ (e.type = "file_ack" => Asked = 0) =>
              Before(c2s', "file_ack", "file_request")
<1>1. c2s \in Seq(ToServerMessages) /\ c2s' = Append(c2s, e)
  BY Queued, Zenon DEF TypeOK
<1>2. \A a : Count(Append(c2s, e), a) = Count(c2s, a) + (IF e.type = a THEN 1 ELSE 0)
  BY <1>1, CountAppend, Zenon
<1>3. "file_ack" # "file_request" /\ (Asked = 0 => Places(c2s, "file_request") = {})
  BY <1>1, NoneOf DEF Asked
<1>4. /\ \A a, b : Before(c2s, a, b) /\ (e.type = a => Places(c2s, b) = {} /\ a # b) =>
                     Before(c2s', a, b)
      /\ \A a, x : Only(c2s, a, x) /\ (e.type = a => e = x) => Only(c2s', a, x)
  BY <1>1, OrderAppend, Zenon
<1> QED
  BY <1>1, <1>2, <1>3, <1>4, Zenon DEF Acked, Asked

LEMMA TakenByServer ==
  ASSUME TypeOK, c2s # <<>>, c2s' = Tail(c2s)
  PROVE  /\ Head(c2s) \in ToServerMessages
         /\ Acked = Acked' + (IF Head(c2s).type = "file_ack" THEN 1 ELSE 0)
         /\ Asked = Asked' + (IF Head(c2s).type = "file_request" THEN 1 ELSE 0)
         /\ Acked' \in Nat /\ Asked' \in Nat
         /\ Head(c2s).type = "file_request" /\ Before(c2s, "file_ack", "file_request") =>
              Acked = 0
         /\ \A x : Only(c2s, "file_request", x) =>
              /\ Only(c2s', "file_request", x)
              /\ Head(c2s).type = "file_request" => Head(c2s) = x
         /\ Before(c2s, "file_ack", "file_request") => Before(c2s', "file_ack", "file_request")
<1>1. /\ c2s \in Seq(ToServerMessages) /\ Tail(c2s) \in Seq(ToServerMessages)
      /\ Head(c2s) \in ToServerMessages /\ Head(c2s) = c2s[1] /\ 1 \in DOMAIN c2s
      /\ DOMAIN c2s \subseteq Nat \ {0}
  BY DEF TypeOK
<1>2. \A a : Count(c2s, a) = Count(Tail(c2s), a) + (IF Head(c2s).type = a THEN 1 ELSE 0)
  BY <1>1, CountTail, Zenon
<1>3. \A a : Count(Tail(c2s), a) \in Nat
  BY <1>1, CountType, Zenon
<1>4. ASSUME Head(c2s).type = "file_request", Before(c2s, "file_ack", "file_request")
      PROVE  Acked = 0
  <2>1. 1 \in Places(c2s, "file_request")
    BY <1>1, <1>4 DEF Places
  <2>2. Places(c2s, "file_ack") = {}
    <3>1. ASSUME NEW i \in Places(c2s, "file_ack") PROVE FALSE
      <4>1. i < 1 /\ i \in Nat \ {0}
        BY <1>1, <1>4, <2>1 DEF Before, Places
      <4> QED
        BY <4>1
    <3> QED
      BY <3>1
  <2> QED
    BY <1>1, <2>2, NoneOf DEF Acked
<1>5. \A x : Only(c2s, "file_request", x) /\ Head(c2s).type = "file_request" => Head(c2s) = x
  BY <1>1 DEF Only, Places
<1>6. /\ \A a, b : Before(c2s, a, b) => Before(Tail(c2s), a, b)
      /\ \A a, x : Only(c2s, a, x) => Only(Tail(c2s), a, x)
  BY <1>1, OrderTail, Zenon
<1> QED
  BY <1>1, <1>2, <1>3, <1>4, <1>5, <1>6, Zenon DEF Acked, Asked

LEMMA TakenByClient ==
  ASSUME TypeOK, HasMessage, TakeMessage
  PROVE  /\ Sent = Sent' + (IF Message.type = "file_download" THEN 1 ELSE 0)
         /\ Sent' \in Nat
         /\ \A x : Only(s2c, "file_download", x) =>
              /\ Only(s2c', "file_download", x)
              /\ Message.type = "file_download" => Message = x
         /\ Before(s2c, "frame", "map_change") => Before(s2c', "frame", "map_change")
         /\ Before(s2c, "frame", "map_change") /\ Message.type = "map_change" =>
              Places(s2c', "frame") = {}
         /\ Places(s2c, "frame") = {} => Places(s2c', "frame") = {}
<1> DEFINE n == NextMessage  a == SubSeq(s2c, 1, n - 1)
<1>1. /\ s2c \in Seq(ToClientMessages) /\ n \in 1 .. Len(s2c) /\ Message = s2c[n]
      /\ s2c' = SubSeq(s2c, n + 1, Len(s2c))
  BY DEF TypeOK, HasMessage, TakeMessage, Message, Receives
<1>2. n = 1 \/ (n = 2 /\ s2c[1] = Frame)
  BY <1>1 DEF NextMessage
<1> HIDE DEF n
<1>3. /\ s2c' \in Seq(ToClientMessages) /\ a \in Seq(ToClientMessages)
      /\ Count(s2c, "file_download") = Count(a, "file_download")
                                       + (IF s2c[n].type = "file_download" THEN 1 ELSE 0)
                                       + Count(s2c', "file_download")
  BY <1>1, CountTake, ZenonT(30)
<1>4. Count(a, "file_download") = 0
  <2>1. \A i \in DOMAIN a : a[i] = Frame
    <3>1. DOMAIN a = 1 .. n - 1 /\ \A i \in 1 .. n - 1 : a[i] = s2c[i]
      BY <1>1
    <3>2. \A i \in 1 .. n - 1 : i = 1 /\ n = 2
      BY <1>2
    <3> QED
      BY <1>2, <3>1, <3>2
  <2>2. Places(a, "file_download") = {}
    BY <2>1, Messages DEF Places
  <2> QED
    BY <1>3, <2>2, NoneOf, Zenon
<1>5. Count(s2c', "file_download") \in Nat
  BY <1>3, NoneOf, Zenon
<1>6. LET u == SubSeq(s2c, n + 1, Len(s2c)) IN
      /\ \A b, c : Before(s2c, b, c) => Before(u, b, c)
      /\ \A b, x : Only(s2c, b, x) => Only(u, b, x)
      /\ \A b : Places(s2c, b) = {} => Places(u, b) = {}
      /\ \A b : \A i \in Places(u, b) : i + n \in Places(s2c, b) /\ i > 0
  BY <1>1, OrderSuffix, Zenon
<1>7. ASSUME Before(s2c, "frame", "map_change"), Message.type = "map_change"
      PROVE  Places(s2c', "frame") = {}
  <2>1. n \in Places(s2c, "map_change")
    BY <1>1, <1>7 DEF Places
  <2>2. ASSUME NEW i \in Places(s2c', "frame") PROVE FALSE
    <3>1. i + n \in Places(s2c, "frame") /\ i > 0 /\ i \in Nat
      BY <1>1, <1>3, <1>6, <2>2 DEF Places
    <3>2. i + n < n /\ n \in Nat
      BY <1>1, <1>7, <2>1, <3>1 DEF Before
    <3> QED
      BY <3>1, <3>2
  <2> QED
    BY <2>2
<1>8. \A x : Only(s2c, "file_download", x) /\ Message.type = "file_download" => Message = x
  BY <1>1 DEF Only, Places
<1> DEFINE one == IF Message.type = "file_download" THEN 1 ELSE 0
<1>9. one \in Nat
  OBVIOUS
<1> HIDE DEF one
<1>10. Sent = 0 + one + Sent' /\ Sent' \in Nat
  BY <1>1, <1>3, <1>4, <1>5, Zenon DEF one, Sent
<1>11. Sent = Sent' + one
  BY <1>9, <1>10
<1> QED
  BY <1>1, <1>5, <1>6, <1>7, <1>8, <1>11, Zenon DEF one, Sent

--------------------------------------------------------------------------------
(* The downloads, action by action.                                               *)

Order ==
  /\ Before(c2s, "file_ack", "file_request")
  /\ Only(c2s, "file_request", Request(Head(downloads)))
  /\ Only(s2c, "file_download", Chunk(Head(downloads), saved + 1))

LEMMA TransferKept ==
  ASSUME TransferInv, UNCHANGED <<Sent, Acked, Asked, fileTransfer, saved, downloads, increment>>,
         InSession' => InSession, Order'
  PROVE  TransferInv'
BY DEF TransferInv, Downloading, Complete, Order

(* No file's message is sent or taken.                                            *)
LEMMA NoTransfer ==
  ASSUME TransferInv, UNCHANGED <<s2c, c2s, fileTransfer, saved, downloads, increment>>,
         InSession' => InSession
  PROVE  TransferInv'
BY DEF TransferInv, Downloading, Complete, Sent, Acked, Asked

LEMMA ToClientKeepsTransfer ==
  ASSUME TypeOK, TransferInv, up, NEW e \in ToClientMessages, ToClient(<<e>>),
         e.type # "file_download", InSession' => InSession,
         UNCHANGED <<c2s, fileTransfer, saved, downloads, increment>>
  PROVE  TransferInv'
<1>1. Sent' = Sent
  BY SentToClient, Numbers
<1>2. Order'
  BY SentToClient DEF TransferInv, Order
<1>3. UNCHANGED <<Acked, Asked>>
  BY DEF Acked, Asked
<1> QED
  BY <1>1, <1>2, <1>3, TransferKept

(* What the server takes and sends while no download is asked for.                *)
LEMMA ProcessReadyKeepsTransfer ==
  ASSUME TypeOK, TransferInv, ProcessReady
  PROVE  TransferInv'
<1>1. /\ c2s # <<>> /\ c2s' = Tail(c2s) /\ Head(c2s).type = "client_ready"
      /\ UNCHANGED <<up, connected, s2c, fileTransfer, saved, downloads, increment>>
  BY Messages DEF ProcessReady, client, file, counter
<1>2. UNCHANGED <<Sent, Acked, Asked>>
  BY <1>1, TakenByServer, Numbers DEF Sent
<1>3. Order'
  BY <1>1, TakenByServer DEF TransferInv, Order
<1> QED
  BY <1>1, <1>2, <1>3, TransferKept DEF InSession

LEMMA ServerNextMapKeepsTransfer ==
  ASSUME TypeOK, TransferInv, NEW m \in Map, ServerNextMap(m)
  PROVE  TransferInv'
<1>1. /\ ToClient(<<MapChange(m)>>)
      /\ UNCHANGED <<up, connected, c2s, fileTransfer, saved, downloads, increment>>
  BY DEF ServerNextMap, SendMapChange, client, file, counter
<1>2. CASE up
  <2>1. MapChange(m) \in ToClientMessages /\ MapChange(m).type # "file_download"
    BY Messages DEF ToClientMessages
  <2> QED
    BY <1>1, <1>2, <2>1, ToClientKeepsTransfer DEF InSession
<1>3. CASE ~up
  BY <1>1, <1>3, NoTransfer DEF InSession, ToClient
<1> QED
  BY <1>2, <1>3

LEMMA SendFrameKeepsTransfer ==
  ASSUME TypeOK, TransferInv, SendFrame
  PROVE  TransferInv'
<1>1. /\ up /\ ToClient(<<Frame>>)
      /\ UNCHANGED <<up, connected, c2s, fileTransfer, saved, downloads, increment>>
  BY DEF SendFrame, server, client, file, counter
<1>2. Frame \in ToClientMessages /\ Frame.type # "file_download"
  BY Messages DEF ToClientMessages
<1> QED
  BY <1>1, <1>2, ToClientKeepsTransfer DEF InSession

(* A request comes after the last ack, so the transfer before it has ended.       *)
LEMMA ProcessRequestKeepsTransfer ==
  ASSUME TypeOK, SessionInv, TransferInv, ProcessRequest
  PROVE  TransferInv' /\ failed' = failed
<1>1. /\ c2s # <<>> /\ c2s' = Tail(c2s) /\ Head(c2s).type = "file_request"
      /\ UNCHANGED <<up, connected, saved, downloads, increment>>
  BY DEF ProcessRequest, client, file, counter
<1>2. /\ Acked = 0 /\ Acked' = 0 /\ Asked = Asked' + 1 /\ Asked' \in Nat
      /\ Head(c2s) \in ToServerMessages /\ Head(c2s) = Request(Head(downloads))
      /\ Before(c2s', "file_ack", "file_request")
      /\ Only(c2s', "file_request", Request(Head(downloads)))
  BY <1>1, TakenByServer, Numbers DEF TransferInv
<1>3. up /\ InSession
  BY <1>1 DEF SessionInv, InSession, Connecting
<1>4. /\ Downloading /\ Asked = 1 /\ Sent = 0 /\ saved = 0 /\ fileTransfer = None
  <2>1. Asked # 0
    <3>1. Asked = Asked' + 1 /\ Asked' \in Nat
      BY <1>2, Zenon
    <3> QED
      BY <3>1, Successor, Zenon
  <2>2. Downloading /\ Asked = 1 /\ Sent = 0 /\ saved = 0
    BY <1>3, <2>1 DEF TransferInv
  <2>3. 0 + 0 = IF fileTransfer = None THEN 0 ELSE 1
    BY <1>2, <2>2 DEF TransferInv
  <2> QED
    BY <2>2, <2>3
<1> DEFINE m == Head(downloads)
<1>5. m \in Map /\ Head(c2s).map = m
  BY <1>1, <1>2, Messages
<1>6. ToClient(<<Chunk(m, 1)>>) /\ fileTransfer' = [map |-> m, dp |-> 1] /\ failed' = failed
  BY <1>4, <1>5 DEF ProcessRequest, UploadNextFileChunk
<1> HIDE DEF m
<1>7. Chunk(m, 1) \in ToClientMessages /\ Chunk(m, 1).type = "file_download"
  BY <1>5, BoundsAssumption, Messages DEF ToClientMessages
<1>8. Sent' = 1 /\ Only(s2c', "file_download", Chunk(m, 1))
  BY <1>3, <1>4, <1>6, <1>7, SentToClient, Numbers
<1>9. fileTransfer' # None
  <2>1. m \in Map /\ 1 \in Nat
    BY <1>5
  <2> QED
    BY <1>6, <2>1, Transfers, Zenon
<1>10. Sent' + Acked' = 1 /\ Asked' = 0 /\ fileTransfer'.dp = saved' + Sent'
  <2>1. Asked = Asked' + 1 /\ Asked' \in Nat /\ Asked = 1
    BY <1>2, <1>4, Zenon
  <2>2. Asked' = 0
    BY <2>1, Successor, Zenon
  <2>3. Acked' = 0 /\ Sent' = 1 /\ saved' = 0 /\ fileTransfer'.dp = 1
    BY <1>1, <1>2, <1>4, <1>6, <1>8
  <2> QED
    BY <2>2, <2>3
<1>11. TransferInv'
  BY <1>1, <1>2, <1>4, <1>6, <1>8, <1>9, <1>10 DEF TransferInv, Downloading, Complete, m
<1> QED
  BY <1>6, <1>11

LEMMA ProcessAckKeepsTransfer ==
  ASSUME TypeOK, SessionInv, TransferInv, ProcessAck
  PROVE  TransferInv'
<1>1. /\ c2s # <<>> /\ c2s' = Tail(c2s) /\ Head(c2s).type = "file_ack"
      /\ UNCHANGED <<up, connected, saved, downloads, increment>>
  BY Messages DEF ProcessAck, client, file, counter
<1>2. /\ Acked = Acked' + 1 /\ Acked' \in Nat /\ Asked = Asked'
      /\ Before(c2s', "file_ack", "file_request")
      /\ Only(c2s', "file_request", Request(Head(downloads)))
  BY <1>1, TakenByServer, Numbers DEF TransferInv
<1>3. up /\ InSession
  BY <1>1 DEF SessionInv, InSession, Connecting
<1>4. Sent = 0 /\ Acked' = 0 /\ fileTransfer # None /\ fileTransfer \in [map : Map, dp : 1 .. Chunks]
  <2>1. Sent + Acked = IF fileTransfer = None THEN 0 ELSE 1
    BY DEF TransferInv
  <2>2. Sent = 0 /\ Acked' = 0 /\ fileTransfer # None
    BY <1>2, <2>1, Numbers
  <2> QED
    BY <2>2 DEF TypeOK
<1>5. CASE TransferEnds(fileTransfer)
  <2>1. fileTransfer' = None /\ s2c' = s2c /\ fileTransfer.dp >= Chunks
    BY <1>4, <1>5 DEF ProcessAck, TransferEnds
  <2>2. Sent' = 0
    BY <1>4, <2>1 DEF Sent
  <2>3. Downloading => Asked = 1 /\ saved = 0
    BY <1>3, <1>4, <2>1, BoundsAssumption DEF TransferInv, Downloading
  <2> QED
    BY <1>1, <1>2, <1>4, <2>1, <2>2, <2>3 DEF TransferInv, Downloading, Complete
<1>6. CASE ~TransferEnds(fileTransfer)
  <2> DEFINE m == Head(downloads)
  <2>1. fileTransfer.dp < Chunks /\ fileTransfer.dp \in Nat
    BY <1>4, <1>6, BoundsAssumption DEF TransferEnds
  <2>2. /\ Downloading /\ Asked = 0 /\ fileTransfer = [map |-> m, dp |-> saved]
    <3>1. ~Complete
      BY <1>4, <2>1 DEF Complete
    <3>2. Downloading /\ Asked = 0 /\ fileTransfer = [map |-> m, dp |-> saved + Sent]
      BY <1>3, <3>1 DEF TransferInv
    <3> QED
      BY <1>4, <3>2 DEF Downloading
  <2>3. /\ ToClient(<<Chunk(m, saved + 1)>>)
        /\ fileTransfer' = [map |-> m, dp |-> saved + 1]
    BY <1>6, <2>2 DEF ProcessAck, UploadNextFileChunk
  <2>4. m \in Map /\ saved + 1 \in 1 .. Chunks
    BY <1>4, <2>1, <2>2, BoundsAssumption
  <2> HIDE DEF m
  <2>5. Chunk(m, saved + 1) \in ToClientMessages /\ Chunk(m, saved + 1).type = "file_download"
    BY <2>4, Messages DEF ToClientMessages
  <2>6. Sent' = 1 /\ Only(s2c', "file_download", Chunk(m, saved + 1))
    BY <1>3, <1>4, <2>3, <2>5, SentToClient, Numbers
  <2>7. fileTransfer' # None
    <3>1. m \in Map /\ saved + 1 \in Nat
      BY <2>4
    <3> QED
      BY <2>3, <3>1, Transfers, Zenon
  <2> QED
    BY <1>1, <1>2, <1>4, <2>2, <2>3, <2>6, <2>7 DEF TransferInv, Downloading, Complete, m
<1> QED
  BY <1>5, <1>6

(* The connection begins and ends without files' messages under way.              *)
LEMMA ConnectKeepsTransfer ==
  ASSUME TypeOK, SessionInv, TransferInv, Connect
  PROVE  TransferInv'
<1>1. /\ ~up /\ ~connected /\ connected' = connected
      /\ s2c' = <<MapChange(map)>> /\ c2s' = <<>> /\ s2c = <<>> /\ c2s = <<>>
      /\ UNCHANGED <<fileTransfer, saved, downloads, increment>>
  BY DEF Connect, client, file, counter, SessionInv
<1>2. Sent = 0 /\ Acked = 0 /\ Asked = 0 /\ Acked' = 0 /\ Asked' = 0 /\ Sent' = 0
  <2>1. Count(<<MapChange(map)>>, "file_download") =
          IF MapChange(map).type = "file_download" THEN 1 ELSE 0
    BY CountOne, Zenon
  <2>2. Count(<<MapChange(map)>>, "file_download") = 0
    BY <2>1, Messages
  <2> QED
    BY <1>1, <2>2, CountEmpty, Zenon DEF Sent, Acked, Asked
<1>3. Order'
  <2>1. Places(s2c', "file_download") = {} /\ Places(c2s', "file_request") = {}
    BY <1>1, Messages DEF Places
  <2> QED
    BY <2>1 DEF Order, Before, Only
<1> QED
  BY <1>1, <1>2, <1>3, TransferKept DEF InSession

LEMMA DisconnectKeepsTransfer ==
  ASSUME TypeOK, TransferInv, Disconnect
  PROVE  TransferInv'
<1>1. /\ ~up' /\ s2c' = <<>> /\ c2s' = <<>> /\ fileTransfer' = None
      /\ UNCHANGED <<saved, downloads, increment>>
  BY DEF Disconnect, EndTransfer, client, file, counter
<1>2. Acked' = 0 /\ Asked' = 0 /\ Sent' = 0
  BY <1>1, CountEmpty, Zenon DEF Sent, Acked, Asked
<1>3. Order'
  <2>1. Places(s2c', "file_download") = {} /\ Places(c2s', "file_request") = {}
    BY <1>1 DEF Places
  <2> QED
    BY <2>1 DEF Order, Before, Only
<1> QED
  BY <1>1, <1>2, <1>3 DEF TransferInv, Order, Complete, InSession

(* The messages that the client takes.                                            *)
LEMMA ReceiveFrameKeepsTransfer ==
  ASSUME TypeOK, TransferInv, ReceiveFrame
  PROVE  TransferInv'
<1>1. PICK i \in DOMAIN s2c : s2c[i] = Frame /\ s2c' = RemoveAt(s2c, i)
  BY DEF ReceiveFrame
<1>2. s2c \in Seq(ToClientMessages) /\ i \in 1 .. Len(s2c) /\ s2c[i].type # "file_download"
  BY <1>1, Messages DEF TypeOK
<1>3. Sent' = Sent
  BY <1>1, <1>2, CountRemove, Zenon DEF Sent
<1>4. UNCHANGED <<c2s, fileTransfer, saved, downloads, increment, up, connected>>
  BY DEF ReceiveFrame, server, client, file, counter
<1>5. \A x : Only(s2c, "file_download", x) => Only(s2c', "file_download", x)
  BY <1>1, <1>2, OrderRemove, Zenon
<1>6. Order'
  BY <1>4, <1>5 DEF TransferInv, Order
<1>7. UNCHANGED <<Acked, Asked>>
  BY <1>4 DEF Acked, Asked
<1> QED
  BY <1>3, <1>4, <1>6, <1>7, TransferKept DEF InSession

LEMMA ReceiveMapChangeKeepsTransfer ==
  ASSUME TypeOK, TransferInv, ReceiveMapChange
  PROVE  TransferInv'
<1>1. /\ HasMessage /\ TakeMessage /\ Message.type # "file_download"
      /\ UNCHANGED <<c2s, fileTransfer, saved, downloads, increment, up, connected>>
  BY DEF ReceiveMapChange, server, file, counter
<1>2. Sent' = Sent
  BY <1>1, TakenByClient, Numbers
<1>3. Order'
  BY <1>1, TakenByClient DEF TransferInv, Order
<1>4. UNCHANGED <<Acked, Asked>>
  BY <1>1 DEF Acked, Asked
<1> QED
  BY <1>1, <1>2, <1>3, <1>4, TransferKept DEF InSession

(* The chunk is the next one of the active download, so the client does not give  *)
(* up the connection.                                                             *)
LEMMA ReceiveChunkKeepsTransfer ==
  ASSUME TypeOK, SessionInv, TransferInv, ReceiveChunk
  PROVE  TransferInv' /\ failed' = failed /\ (map_ready => map_ready')
<1>1. /\ HasMessage /\ TakeMessage /\ Message.type = "file_download" /\ s2c # <<>>
      /\ connected /\ increment = None
      /\ UNCHANGED <<fileTransfer, up, connected>>
  BY DEF ReceiveChunk, HasMessage, Receives, server
<1> DEFINE m == Head(downloads)
<1>2. Message = Chunk(m, saved + 1)
  BY <1>1, TakenByClient DEF TransferInv
<1>3. Sent = Sent' + 1 /\ Sent' \in Nat
  BY <1>1, TakenByClient
<1>4. up /\ InSession
  BY <1>1 DEF SessionInv, InSession
<1>5. /\ Downloading /\ Asked = 0 /\ fileTransfer = [map |-> m, dp |-> saved + Sent]
  <2>1. Sent # 0
    BY <1>3, Successor, Zenon
  <2> QED
    BY <1>4, <2>1 DEF TransferInv
<1>6. Sent = 1 /\ Acked = 0 /\ fileTransfer # None
  <2>1. Sent \in Nat /\ Acked \in Nat /\ Sent # 0
    BY <1>3, Numbers, Successor, Zenon
  <2>2. Sent + Acked \in {0, 1} /\ (fileTransfer = None => Sent + Acked = 0)
    BY DEF TransferInv
  <2> QED
    BY <2>1, <2>2
<1>7. Sent' = 0
  BY <1>3, <1>6, Successor, Zenon
<1>8. saved + 1 = Message.chunk /\ m = Message.map /\ saved # -1
      /\ Message.last = (saved + 1 = Chunks)
  <2>1. Message.last = (saved + 1 = Chunks)
    BY <1>2 DEF Chunk
  <2>2. saved + 1 = Message.chunk /\ m = Message.map
    BY <1>2 DEF Chunk
  <2>3. saved # -1
    BY <1>5 DEF Downloading
  <2> QED
    BY <2>1, <2>2, <2>3, Zenon
<1>9. /\ failed' = failed /\ saved' = saved + 1 /\ ToServer(<<Ack>>) /\ downloads' = downloads
      /\ IF saved + 1 = Chunks THEN increment' = clientReadiesWaiting ELSE increment' = increment
      /\ map_ready => map_ready'
  BY <1>8 DEF ReceiveChunk
<1>10. increment' # None <=> saved + 1 = Chunks
  BY <1>1, <1>9, NoneIsNone DEF TypeOK
<1>11. Ack \in ToServerMessages /\ Ack.type = "file_ack"
  BY Messages DEF ToServerMessages
<1>12. /\ Acked' = 1 /\ Asked' = 0 /\ Before(c2s', "file_ack", "file_request")
       /\ Only(c2s', "file_request", Request(m))
  BY <1>4, <1>5, <1>6, <1>9, <1>11, SentToServer, Numbers DEF TransferInv
<1>13. Only(s2c', "file_download", Chunk(m, saved + 2))
  <2>1. s2c' \in Seq(ToClientMessages)
    BY <1>1, Taken
  <2> QED
    BY <1>7, <2>1, NoneOf, Zenon DEF Sent
<1>14. (saved + 1) + 1 = saved + 2 /\ saved + 1 \in 1 .. Chunks /\ Chunks \in Nat
       /\ saved + 1 - 0 = saved + 1
  BY <1>5, BoundsAssumption DEF Downloading
<1>15. /\ Order'
  BY <1>9, <1>12, <1>13, <1>14 DEF Order
<1>16. Sent' + Acked' = IF fileTransfer' = None THEN 0 ELSE 1
  BY <1>1, <1>6, <1>7, <1>12
<1>17. ~Downloading' => Asked' = 0 /\ Sent' = 0 /\ Complete'
  BY <1>1, <1>5, <1>6, <1>7, <1>9, <1>12, <1>14 DEF Downloading, Complete
<1>18. Asked' = 0 /\ fileTransfer' = [map |-> m, dp |-> saved' + Sent']
  BY <1>1, <1>5, <1>6, <1>7, <1>9, <1>12, <1>14
<1>19. saved' = Chunks <=> increment' # None
  BY <1>9, <1>10
<1> QED
  BY <1>9, <1>15, <1>16, <1>17, <1>18, <1>19, Zenon DEF TransferInv, Order, m

(* The next download begins when no other is active.                              *)
LEMMA CheckDownloadKeepsTransfer ==
  ASSUME TypeOK, SessionInv, TransferInv, ~Downloading, NEW ds \in Seq(Map),
         CheckDownload(ds, FALSE, disk, <<>>), increment' = None,
         UNCHANGED <<s2c, fileTransfer, up, connected>>
  PROVE  TransferInv'
<1>1. Asked = 0 /\ Sent = 0 /\ Complete /\ Sent' = 0
  BY DEF TransferInv, Sent
<1>2. \A x : Only(s2c', "file_download", x)
  <2>1. \A x : Only(s2c, "file_download", x)
    BY <1>1, Numbers
  <2> QED
    BY <2>1
<1>3. CASE ds = <<>>
  <2>1. /\ downloads' = ds /\ saved' = -1 /\ c2s' = IF up THEN c2s \o <<>> ELSE c2s
    BY <1>3 DEF CheckDownload, ToServer
  <2>2. c2s' = c2s
    BY <2>1 DEF TypeOK
  <2>3. Acked' = Acked /\ Asked' = 0
    BY <1>1, <2>2 DEF Acked, Asked
  <2>4. Order'
    BY <1>1, <1>2, <2>2, Numbers DEF Order
  <2>5. ~Downloading' /\ saved' # Chunks /\ Complete'
    BY <1>1, <2>1, BoundsAssumption DEF Downloading, Complete
  <2> QED
    BY <1>1, <2>3, <2>4, <2>5 DEF TransferInv, Order
<1>4. CASE ds # <<>>
  <2> DEFINE e == Request(Head(ds))
  <2>1. /\ downloads' = ds /\ saved' = 0 /\ ToServer(Append(<<>>, e))
    BY <1>4 DEF CheckDownload
  <2>2. e \in ToServerMessages /\ e.type = "file_request"
    BY <1>4, Messages DEF ToServerMessages
  <2>3. e = Request(Head(downloads'))
    BY <2>1
  <2> HIDE DEF e
  <2>4. Append(<<>>, e) = <<e>>
    OBVIOUS
  <2>5. ToServer(<<e>>)
    BY <2>1, <2>4, Zenon
  <2>6. Downloading' /\ saved' # Chunks /\ saved' = 0 /\ Complete'
    BY <1>1, <2>1, BoundsAssumption DEF Downloading, Complete
  <2>7. CASE up
    <3>1. /\ Acked' = Acked + 0 /\ Asked' = 0 + 1
          /\ Before(c2s', "file_ack", "file_request")
          /\ Only(c2s', "file_request", e)
      BY <1>1, <2>2, <2>5, <2>7, SentToServer, Numbers DEF TransferInv
    <3>2. Acked' = Acked /\ Asked' = 1
      BY <3>1, Numbers
    <3>3. Order'
      BY <1>2, <2>3, <3>1 DEF Order
    <3> QED
      BY <1>1, <2>6, <3>2, <3>3 DEF TransferInv, Order
  <2>8. CASE ~up
    <3>1. c2s' = c2s
      BY <2>5, <2>8 DEF ToServer
    <3>2. Acked' = Acked /\ Asked' = 0
      BY <1>1, <3>1 DEF Acked, Asked
    <3>3. Order'
      BY <1>1, <1>2, <3>1, Numbers DEF Order
    <3> QED
      BY <1>1, <2>6, <2>8, <3>2, <3>3 DEF TransferInv, Order, InSession
  <2> QED
    BY <2>7, <2>8
<1> QED
  BY <1>3, <1>4

LEMMA CountReadyKeepsTransfer ==
  ASSUME TypeOK, SessionInv, TransferInv, CountReady
  PROVE  TransferInv'
<1>1. /\ increment # None /\ increment' = None /\ downloads # <<>>
      /\ CheckDownload(Tail(downloads), FALSE, disk, <<>>)
      /\ UNCHANGED <<s2c, fileTransfer, up, connected>>
  BY DEF CountReady, SessionInv, NextDownload, server, client
<1>2. Tail(downloads) \in Seq(Map) /\ ~Downloading
  BY <1>1, BoundsAssumption DEF TypeOK, TransferInv, Downloading
<1> QED
  BY <1>1, <1>2, CheckDownloadKeepsTransfer

(* What the main thread does.                                                     *)
LEMMA HandleConnectedKeepsTransfer ==
  ASSUME TypeOK, SessionInv, TransferInv, HandleConnected
  PROVE  TransferInv' /\ ~connected
<1>1. /\ messageQueue # <<>> /\ Head(messageQueue).type = "connected"
      /\ UNCHANGED <<up, s2c, c2s, fileTransfer, saved, downloads, increment>>
  BY DEF HandleConnected, Handles, server, file
<1>2. ~connected
  <2>1. 1 \in DOMAIN messageQueue /\ messageQueue[1].type = "connected"
        /\ messageQueue[1] = Head(messageQueue) /\ Len(messageQueue) \in Nat
    BY <1>1 DEF TypeOK
  <2>2. ~InSession
    BY <2>1 DEF SessionInv
  <2>3. ~(connected /\ ~up)
    <3>1. SUFFICES ASSUME connected, ~up PROVE FALSE
      OBVIOUS
    <3>2. 1 \notin 1 .. Len(messageQueue) - 1
      BY <2>1, <3>1 DEF SessionInv
    <3>3. Len(messageQueue) = 1
      <4>1. 1 \in 1 .. Len(messageQueue)
        BY <2>1 DEF TypeOK
      <4> QED
        BY <2>1, <3>2, <4>1
    <3> QED
      BY <2>1, <3>1, <3>3 DEF SessionInv, Last
  <2> QED
    BY <2>2, <2>3 DEF InSession
<1>3. saved = -1
  BY <1>2 DEF SessionInv
<1>4. UNCHANGED <<Sent, Acked, Asked>> /\ ~Downloading'
  BY <1>1, <1>3, BoundsAssumption DEF Sent, Acked, Asked, Downloading
<1> QED
  BY <1>1, <1>2, <1>3, <1>4 DEF TransferInv, Complete, Downloading

LEMMA HandleDisconnectedKeepsTransfer ==
  ASSUME TypeOK, SessionInv, TransferInv, HandleDisconnected
  PROVE  TransferInv' /\ ~up
<1>1. /\ messageQueue # <<>> /\ Head(messageQueue).type = "disconnected"
      /\ increment = None /\ increment' = None /\ downloads' = <<>> /\ saved' = -1
      /\ UNCHANGED <<up, s2c, c2s, fileTransfer>>
  BY DEF HandleDisconnected, Handles, server, counter
<1>2. ~up
  <2>1. 1 \in DOMAIN messageQueue /\ messageQueue[1].type = "disconnected"
    BY <1>1 DEF TypeOK
  <2> QED
    BY <1>1, <2>1 DEF SessionInv, InSession, Connecting
<1>3. Sent = 0 /\ Acked = 0 /\ Asked = 0
  <2>1. s2c = <<>> /\ c2s = <<>>
    BY <1>2 DEF SessionInv
  <2> QED
    BY <2>1, CountEmpty, Zenon DEF Sent, Acked, Asked
<1>4. UNCHANGED <<Sent, Acked, Asked>>
  BY <1>1 DEF Sent, Acked, Asked
<1>5. Order'
  BY <1>1, <1>3, Numbers DEF Order
<1>6. fileTransfer = None
  BY <1>3 DEF TransferInv
<1> QED
  BY <1>1, <1>2, <1>3, <1>4, <1>5, <1>6, BoundsAssumption
  DEF TransferInv, Order, Complete, Downloading, InSession

LEMMA HandleMapChangeKeepsTransfer ==
  ASSUME TypeOK, SessionInv, TransferInv, HandleMapChange
  PROVE  TransferInv' /\ (map_ready => map_ready')
<1> DEFINE m == Head(messageQueue).map
<1>1. /\ messageQueue # <<>> /\ Head(messageQueue).type = "map_change"
      /\ increment = None /\ increment' = None
      /\ UNCHANGED <<up, connected, s2c, fileTransfer>>
  BY DEF HandleMapChange, Handles, server
<1>2. m \in Map /\ downloads \in Seq(Map) /\ Append(downloads, m) \in Seq(Map)
  BY <1>1, Messages DEF TypeOK
<1> HIDE DEF m
<1>3. CASE m \in disk
  <2>1. map_ready' /\ UNCHANGED <<downloads, saved, c2s>>
    BY <1>3 DEF HandleMapChange, file, m
  <2> QED
    BY <1>1, <2>1, NoTransfer DEF InSession
<1>4. CASE m \notin disk
  <2>1. CheckDownload(Append(downloads, m), saved >= 0, disk, <<>>) /\ UNCHANGED map_ready
    BY <1>4 DEF HandleMapChange, m
  <2>2. CASE saved >= 0
    <3>1. /\ Append(downloads, m) # <<>> /\ downloads' = Append(downloads, m)
          /\ saved' = saved /\ c2s' = IF up THEN c2s \o <<>> ELSE c2s
      BY <1>2, <2>1, <2>2 DEF CheckDownload, ToServer
    <3>2. c2s' = c2s
      BY <3>1 DEF TypeOK
    <3>3. downloads # <<>> /\ Head(downloads') = Head(downloads)
      BY <1>2, <2>2, <3>1 DEF SessionInv
    <3>4. UNCHANGED <<Sent, Acked, Asked>>
      BY <1>1, <3>2 DEF Sent, Acked, Asked
    <3>5. TransferInv'
      BY <1>1, <3>1, <3>2, <3>3, <3>4 DEF TransferInv, Downloading, Complete, InSession
    <3> QED
      BY <2>1, <3>5
  <2>3. CASE ~(saved >= 0)
    <3>1. (saved >= 0) = FALSE
      BY <2>3
    <3>2. CheckDownload(Append(downloads, m), FALSE, disk, <<>>)
      BY <2>1, <3>1, Zenon
    <3>3. ~Downloading
      BY <2>3, BoundsAssumption DEF Downloading
    <3> QED
      BY <1>1, <1>2, <2>1, <3>2, <3>3, CheckDownloadKeepsTransfer
  <2> QED
    BY <2>2, <2>3
<1> QED
  BY <1>3, <1>4

LEMMA SendReadyKeepsTransfer ==
  ASSUME TypeOK, TransferInv, SendReady
  PROVE  TransferInv'
<1>1. /\ ToServer(<<Ready>>)
      /\ UNCHANGED <<up, connected, s2c, fileTransfer, saved, downloads, increment>>
  BY DEF SendReady, server, client, file
<1>2. CASE up
  <2>1. Ready \in ToServerMessages /\ Ready.type = "client_ready"
    BY Messages DEF ToServerMessages
  <2>2. UNCHANGED <<Sent, Acked, Asked>>
    BY <1>1, <1>2, <2>1, SentToServer, Numbers DEF Sent
  <2>3. Order'
    BY <1>1, <1>2, <2>1, SentToServer DEF TransferInv, Order
  <2> QED
    BY <1>1, <2>2, <2>3, TransferKept DEF InSession
<1>3. CASE ~up
  BY <1>1, <1>3, NoTransfer DEF InSession, ToServer
<1> QED
  BY <1>2, <1>3

--------------------------------------------------------------------------------
(* The frames.                                                                    *)

LEMMA FramesKept ==
  ASSUME FrameInv, UNCHANGED <<s2c, up, connected>>, raced => raced', map_ready => map_ready'
  PROVE  FrameInv'
BY DEF FrameInv, Connecting, InSession

LEMMA ServerNextMapKeepsFrames ==
  ASSUME TypeOK, FrameInv, NEW m \in Map, ServerNextMap(m)
  PROVE  FrameInv'
<1>1. ToClient(<<MapChange(m)>>) /\ UNCHANGED <<up, connected, map_ready, raced>>
  BY DEF ServerNextMap, SendMapChange, client, counter
<1>2. CASE up
  <2>1. MapChange(m) \in ToClientMessages /\ MapChange(m).type = "map_change"
    BY Messages DEF ToClientMessages
  <2>2. /\ Places(s2c', "frame") = Places(s2c, "frame")
        /\ Before(s2c, "frame", "map_change") => Before(s2c', "frame", "map_change")
    BY <1>1, <1>2, <2>1, SentToClient
  <2> QED
    BY <1>1, <2>2 DEF FrameInv, Connecting, InSession
<1>3. CASE ~up
  BY <1>1, <1>3, FramesKept DEF ToClient
<1> QED
  BY <1>2, <1>3

LEMMA ChunkKeepsFrames ==
  ASSUME TypeOK, FrameInv, up, NEW m \in Map, NEW n \in 1 .. Chunks, ToClient(<<Chunk(m, n)>>),
         UNCHANGED <<up, connected, map_ready, raced>>
  PROVE  FrameInv'
<1>1. Chunk(m, n) \in ToClientMessages /\ Chunk(m, n).type = "file_download"
  BY Messages DEF ToClientMessages
<1>2. /\ Places(s2c', "frame") = Places(s2c, "frame")
      /\ Before(s2c, "frame", "map_change") => Before(s2c', "frame", "map_change")
  BY <1>1, SentToClient
<1> QED
  BY <1>2 DEF FrameInv, Connecting, InSession

LEMMA ProcessRequestKeepsFrames ==
  ASSUME TypeOK, SessionInv, FrameInv, ProcessRequest
  PROVE  FrameInv'
<1>1. c2s # <<>> /\ up /\ UNCHANGED <<up, connected, map_ready, raced>>
  BY DEF ProcessRequest, SessionInv, client, counter
<1>2. CASE s2c' = s2c
  BY <1>1, <1>2, FramesKept
<1>3. CASE s2c' # s2c
  <2>1. Head(c2s).type = "file_request" /\ Head(c2s) \in ToServerMessages
    <3>1. Head(c2s).type = "file_request"
      BY DEF ProcessRequest
    <3>2. Head(c2s) \in ToServerMessages
      BY <1>1 DEF TypeOK
    <3> QED
      BY <3>1, <3>2
  <2>2. Head(c2s).map \in Map /\ 1 \in 1 .. Chunks
    BY <2>1, Messages, BoundsAssumption
  <2>3. ToClient(<<Chunk(Head(c2s).map, 1)>>)
    <3>1. UploadNextFileChunk(Head(c2s).map, 0)
      BY <1>3 DEF ProcessRequest
    <3>2. ToClient(<<Chunk(Head(c2s).map, 0 + 1)>>)
      BY <3>1 DEF UploadNextFileChunk
    <3>3. 0 + 1 = 1
      OBVIOUS
    <3> QED
      BY <3>2, <3>3, Zenon
  <2> QED
    BY <1>1, <2>2, <2>3, ChunkKeepsFrames
<1> QED
  BY <1>2, <1>3

LEMMA ProcessAckKeepsFrames ==
  ASSUME TypeOK, SessionInv, FrameInv, ProcessAck
  PROVE  FrameInv'
<1>1. c2s # <<>> /\ up /\ UNCHANGED <<up, connected, map_ready, raced>>
  BY DEF ProcessAck, SessionInv, client, counter
<1>2. CASE TransferEnds(fileTransfer)
  BY <1>1, <1>2, FramesKept DEF ProcessAck
<1>3. CASE ~TransferEnds(fileTransfer)
  <2>1. fileTransfer.map \in Map /\ fileTransfer.dp + 1 \in 1 .. Chunks
    BY <1>3, BoundsAssumption DEF TransferEnds, TypeOK
  <2>2. ToClient(<<Chunk(fileTransfer.map, fileTransfer.dp + 1)>>)
    BY <1>3 DEF ProcessAck, UploadNextFileChunk
  <2> QED
    BY <1>1, <2>1, <2>2, ChunkKeepsFrames
<1> QED
  BY <1>2, <1>3

(* The client has the map, and no map change is on its way.                       *)
LEMMA SendFrameKeepsFrames ==
  ASSUME ReadiesInv, FrameInv, SendFrame
  PROVE  FrameInv'
<1>1. /\ up /\ awaiting_client_readies = 0 /\ ToClient(<<Frame>>)
      /\ UNCHANGED <<up, connected, map_ready, raced>>
  BY DEF SendFrame, client, counter
<1>2. ~Connecting
  BY <1>1, Counts DEF ReadiesInv, SessionInv
<1>3. ASSUME ~raced PROVE map_ready /\ Before(s2c', "frame", "map_change")
  <2>1. InSession
    BY <1>1, <1>2 DEF InSession, Connecting
  <2>2. map_ready /\ Places(s2c, "map_change") = {}
    BY <1>1, <1>3, <2>1, NothingOnTheWay
  <2>3. Before(s2c, "frame", "map_change")
    BY <1>3, <2>1 DEF FrameInv
  <2>4. Frame \in ToClientMessages /\ TypeOK
    BY DEF ToClientMessages, ReadiesInv
  <2> QED
    BY <1>1, <2>2, <2>3, <2>4, SentToClient
<1> QED
  BY <1>1, <1>2, <1>3 DEF FrameInv, Connecting, InSession

LEMMA ConnectKeepsFrames ==
  ASSUME Connect
  PROVE  FrameInv'
<1>1. s2c' = <<MapChange(map)>> /\ ~InSession'
  BY DEF Connect, InSession, client
<1>2. Places(s2c', "frame") = {}
  BY <1>1, Messages DEF Places
<1> QED
  BY <1>1, <1>2 DEF FrameInv

LEMMA DisconnectKeepsFrames ==
  ASSUME Disconnect
  PROVE  FrameInv'
<1>1. ~up'
  BY DEF Disconnect
<1> QED
  BY <1>1 DEF FrameInv, Connecting, InSession

(* The map is loaded when a frame comes.                                          *)
LEMMA ReceiveFrameKeepsFrames ==
  ASSUME TypeOK, SessionInv, FrameInv, ReceiveFrame
  PROVE  FrameInv' /\ (failed' = failed \/ raced)
<1>1. PICK i \in DOMAIN s2c : s2c[i] = Frame /\ s2c' = RemoveAt(s2c, i)
  BY DEF ReceiveFrame
<1>2. connected /\ UNCHANGED <<up, connected, map_ready, raced>>
  BY DEF ReceiveFrame, Receives, server, client, counter
<1>3. s2c \in Seq(ToClientMessages) /\ i \in 1 .. Len(s2c) /\ i \in Places(s2c, "frame")
  BY <1>1, Messages DEF TypeOK, Places
<1>4. /\ Before(s2c, "frame", "map_change") => Before(s2c', "frame", "map_change")
      /\ Places(s2c, "frame") = {} => Places(s2c', "frame") = {}
  BY <1>1, <1>3, OrderRemove, Zenon
<1>5. FrameInv'
  BY <1>2, <1>4 DEF FrameInv, Connecting, InSession
<1>6. InSession
  BY <1>2, <1>3 DEF SessionInv, InSession, Places
<1>7. raced \/ map_ready
  BY <1>3, <1>6 DEF FrameInv
<1> QED
  BY <1>5, <1>7 DEF ReceiveFrame

LEMMA ReceiveMapChangeKeepsFrames ==
  ASSUME TypeOK, FrameInv, ReceiveMapChange
  PROVE  FrameInv'
<1>1. /\ HasMessage /\ TakeMessage /\ Message.type = "map_change" /\ connected
      /\ UNCHANGED <<up, connected, raced>>
  BY DEF ReceiveMapChange, HasMessage, Receives, counter
<1>2. Before(s2c, "frame", "map_change") => Places(s2c', "frame") = {}
  BY <1>1, TakenByClient
<1> QED
  BY <1>1, <1>2 DEF FrameInv, Connecting, InSession, Before

LEMMA ReceiveChunkKeepsFrames ==
  ASSUME TypeOK, SessionInv, TransferInv, FrameInv, ReceiveChunk
  PROVE  FrameInv'
<1>1. HasMessage /\ TakeMessage /\ UNCHANGED <<up, connected, raced>>
  BY DEF ReceiveChunk, server
<1>2. /\ Before(s2c, "frame", "map_change") => Before(s2c', "frame", "map_change")
      /\ Places(s2c, "frame") = {} => Places(s2c', "frame") = {}
  BY <1>1, TakenByClient
<1>3. map_ready => map_ready'
  BY ReceiveChunkKeepsTransfer
<1> QED
  BY <1>1, <1>2, <1>3 DEF FrameInv, Connecting, InSession

LEMMA HandleConnectedKeepsFrames ==
  ASSUME TypeOK, SessionInv, TransferInv, FrameInv, HandleConnected
  PROVE  FrameInv'
<1>1. ~connected /\ connected' /\ UNCHANGED <<up, s2c>>
  BY HandleConnectedKeepsTransfer DEF HandleConnected
<1>2. up => Places(s2c, "frame") = {}
  BY <1>1 DEF FrameInv, Connecting
<1> QED
  BY <1>1, <1>2 DEF FrameInv, Connecting, InSession, Before

LEMMA HandleDisconnectedKeepsFrames ==
  ASSUME TypeOK, SessionInv, TransferInv, HandleDisconnected
  PROVE  FrameInv'
<1>1. ~up /\ up' = up
  BY HandleDisconnectedKeepsTransfer DEF HandleDisconnected
<1> QED
  BY <1>1 DEF FrameInv, Connecting, InSession

--------------------------------------------------------------------------------
(* The theorems.                                                                  *)

LEMMA InitDownloads ==
  Init => DownloadsInv
<1> SUFFICES ASSUME Init PROVE DownloadsInv
  OBVIOUS
<1>1. Sent = 0 /\ Acked = 0 /\ Asked = 0
  BY CountEmpty, Zenon DEF Init, Sent, Acked, Asked
<1>2. TypeOK
  BY InitType
<1>3. Order
  BY <1>1, <1>2, Numbers DEF Order
<1>4. ~Downloading /\ saved # Chunks
  BY BoundsAssumption DEF Init, Downloading
<1>5. TransferInv
  BY <1>1, <1>3, <1>4 DEF Init, TransferInv, Order, Complete
<1> QED
  BY <1>5 DEF Init, DownloadsInv, FrameInv, NobodyMisbehaves, Connecting, InSession

LEMMA NextDownloads ==
  ASSUME ReadiesInv, DownloadsInv, [Next]_vars
  PROVE  DownloadsInv'
<1>a. TypeOK /\ SessionInv /\ TransferInv /\ FrameInv /\ NobodyMisbehaves
  BY DEF ReadiesInv, DownloadsInv
<1> DEFINE Goal == TransferInv' /\ FrameInv' /\ (failed' = failed \/ raced) /\ (raced => raced')
<1>1. ASSUME NEW m \in Map, ServerNextMap(m) PROVE Goal
  BY <1>a, <1>1, ServerNextMapKeepsTransfer, ServerNextMapKeepsFrames DEF ServerNextMap, counter
<1>2. ASSUME ProcessReady PROVE Goal
  <2>1. UNCHANGED <<s2c, up, connected, map_ready, raced, failed>>
    BY <1>2 DEF ProcessReady, client, counter, history
  <2> QED
    BY <1>a, <1>2, <2>1, ProcessReadyKeepsTransfer, FramesKept
<1>3. ASSUME ProcessRequest PROVE Goal
  <2>1. UNCHANGED <<up, connected, map_ready, raced>>
    BY <1>3 DEF ProcessRequest, client, counter
  <2> QED
    BY <1>a, <1>3, <2>1, ProcessRequestKeepsTransfer, ProcessRequestKeepsFrames
<1>4. ASSUME ProcessAck PROVE Goal
  <2>1. UNCHANGED <<raced, failed>>
    BY <1>4 DEF ProcessAck, counter, history
  <2> QED
    BY <1>a, <1>4, <2>1, ProcessAckKeepsTransfer, ProcessAckKeepsFrames
<1>5. ASSUME Connect PROVE Goal
  BY <1>a, <1>5, ConnectKeepsTransfer, ConnectKeepsFrames DEF Connect, counter
<1>6. ASSUME Disconnect PROVE Goal
  BY <1>a, <1>6, DisconnectKeepsTransfer, DisconnectKeepsFrames DEF Disconnect, counter, history
<1>7. ASSUME ReceiveMapChange PROVE Goal
  BY <1>a, <1>7, ReceiveMapChangeKeepsTransfer, ReceiveMapChangeKeepsFrames
  DEF ReceiveMapChange, counter, history
<1>8. ASSUME ReceiveChunk PROVE Goal
  BY <1>a, <1>8, ReceiveChunkKeepsTransfer, ReceiveChunkKeepsFrames DEF ReceiveChunk
<1>9. ASSUME CountReady PROVE Goal
  <2>1. UNCHANGED <<s2c, up, connected, map_ready, failed>> /\ (raced => raced')
    BY <1>9 DEF CountReady, client, history
  <2> QED
    BY <1>a, <1>9, <2>1, CountReadyKeepsTransfer, FramesKept
<1>10. ASSUME HandleConnected PROVE Goal
  BY <1>a, <1>10, HandleConnectedKeepsTransfer, HandleConnectedKeepsFrames
  DEF HandleConnected, history
<1>11. ASSUME HandleDisconnected PROVE Goal
  BY <1>a, <1>11, HandleDisconnectedKeepsTransfer, HandleDisconnectedKeepsFrames
  DEF HandleDisconnected, counter, history
<1>12. ASSUME HandleMapChange PROVE Goal
  <2>1. UNCHANGED <<s2c, up, connected, raced, failed>>
    BY <1>12 DEF HandleMapChange, history
  <2> QED
    BY <1>a, <1>12, <2>1, HandleMapChangeKeepsTransfer, FramesKept
<1>13. ASSUME SendReady PROVE Goal
  <2>1. UNCHANGED <<s2c, up, connected, map_ready, raced, failed>>
    BY <1>13 DEF SendReady, client, history
  <2> QED
    BY <1>a, <1>13, <2>1, SendReadyKeepsTransfer, FramesKept
<1>14. ASSUME ReadySent \/ StartGame \/ UNCHANGED vars PROVE Goal
  <2>1. /\ UNCHANGED <<s2c, c2s, up, connected, map_ready, fileTransfer, saved, downloads, increment,
                       failed>>
        /\ raced => raced'
    <3>1. CASE ReadySent
      BY <3>1 DEF ReadySent, server, client, file, history
    <3>2. CASE StartGame
      BY <3>2 DEF StartGame, client, file, counter, history
    <3>3. CASE UNCHANGED vars
      BY <3>3 DEF vars, server, client, file, counter, history
    <3> QED
      BY <1>14, <3>1, <3>2, <3>3
  <2> QED
    BY <1>a, <2>1, NoTransfer, FramesKept DEF InSession
<1>15. ASSUME SendFrame PROVE Goal
  BY <1>a, <1>15, SendFrameKeepsTransfer, SendFrameKeepsFrames DEF SendFrame, counter, history
<1>16. ASSUME ReceiveFrame PROVE Goal
  BY <1>a, <1>16, ReceiveFrameKeepsTransfer, ReceiveFrameKeepsFrames DEF ReceiveFrame, counter
<1>17. Goal
  BY <1>1, <1>2, <1>3, <1>4, <1>5, <1>6, <1>7, <1>8, <1>9, <1>10, <1>11, <1>12, <1>13, <1>14, <1>15,
     <1>16, Zenon
  DEF Next, Server, NetworkThread, MainThread
<1> QED
  BY <1>a, <1>17 DEF DownloadsInv, NobodyMisbehaves

(* The inductive invariant of the whole map change: the readies that are counted,  *)
(* the transfer that serves the client's active download, and the frames.          *)
THEOREM Invariance ==
  Spec => []IInv
<1>1. Init => IInv
  BY InitReadies, InitDownloads DEF IInv
<1>2. IInv /\ [Next]_vars => IInv'
  BY NextReadies, NextDownloads DEF IInv
<1> QED
  BY <1>1, <1>2, PTL DEF Spec

(* No side throws the other out for what the map change makes it do: a second      *)
(* download is asked for after the last ack of the first (servnet.cpp:1673), chunks *)
(* come for the active download (guiclient.cpp:668), and frames come to clients    *)
(* that have loaded the map (clientbase.cpp:477); whatever the lengths of files    *)
(* and the numbers of maps, map changes and sessions.                              *)
THEOREM NobodyMisbehavesEver ==
  Spec => []NobodyMisbehaves
<1>1. IInv => NobodyMisbehaves
  BY DEF IInv, DownloadsInv
<1> QED
  BY <1>1, Invariance, PTL

(* An active download has its request, a chunk or an ack under way: neither side   *)
(* waits for the other (guiclient.cpp:679, servnet.cpp:1690).                      *)
THEOREM DownloadsGoOn ==
  Spec => []DownloadGoesOn
<1>1. IInv => DownloadGoesOn
  <2> SUFFICES ASSUME IInv, InSession, Downloading PROVE Sent + Acked + Asked > 0
    BY DEF DownloadGoesOn
  <2>1. TypeOK /\ TransferInv
    BY DEF IInv, ReadiesInv, DownloadsInv
  <2>2. Sent \in Nat /\ Acked \in Nat /\ Asked \in Nat
    BY <2>1, Numbers
  <2>3. CASE Asked = 1
    BY <2>2, <2>3
  <2>4. CASE fileTransfer = [map |-> Head(downloads), dp |-> saved + Sent]
    <3>1. fileTransfer # None
      <4>1. Head(downloads) \in Map /\ saved + Sent \in Nat
        BY <2>1, <2>2 DEF TypeOK, IInv, ReadiesInv, SessionInv, Downloading
      <4> QED
        BY <2>4, <4>1, Transfers, Zenon
    <3> QED
      BY <2>1, <2>2, <3>1 DEF TransferInv
  <2> QED
    BY <2>1, <2>3, <2>4 DEF TransferInv
<1> QED
  BY <1>1, Invariance, PTL
================================================================================
