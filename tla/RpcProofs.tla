----------------------------- MODULE RpcProofs -----------------------------
(***************************************************************************)
(* For every number of providers, services and callers, and wherever a     *)
(* provider dies: an address that a caller can find is that of a provider  *)
(* whose session the ZooKeeper server still keeps; onMessage takes the     *)
(* package that CallMethod builds apart into its request; and, where bytes *)
(* arrive in one piece and each call has a channel of its own, a method    *)
(* runs at most once for a call and a call hands over no other's answer.   *)
(***************************************************************************)
EXTENDS Rpc, SequenceTheorems, FiniteSetTheorems, TLAPS

-----------------------------------------------------------------------------
(* Sequences *)

\* ConcatProperties, with the lengths as they are known.
LEMMA ConcatAt ==
  ASSUME NEW S, NEW s \in Seq(S), NEW t \in Seq(S), NEW m, NEW n, Len(s) = m, Len(t) = n
  PROVE  /\ s \o t \in Seq(S) /\ Len(s \o t) = m + n
         /\ \A i \in 1 .. m + n : (s \o t)[i] = IF i <= m THEN s[i] ELSE t[i - m]
BY ConcatProperties

\* The n elements behind the first k
LEMMA SubSeqAt ==
  ASSUME NEW S, NEW s \in Seq(S), NEW k \in Nat, NEW n \in Nat, k + n <= Len(s)
  PROVE  /\ SubSeq(s, k + 1, k + n) \in Seq(S)
         /\ Len(SubSeq(s, k + 1, k + n)) = n
         /\ \A i \in 1 .. n : SubSeq(s, k + 1, k + n)[i] = s[k + i]
<1> DEFINE t == SubSeq(s, k + 1, k + n)
<1>1. \A i \in k + 1 .. k + n : s[i] \in S
  <2>1. Len(s) \in Nat
    BY LenProperties
  <2>2. \A i \in k + 1 .. k + n : i \in 1 .. Len(s)
    BY <2>1
  <2> QED BY <2>2, ElementOfSeq
<1>2. /\ t \in Seq(S)
      /\ Len(t) = IF k + 1 <= k + n THEN (k + n) - (k + 1) + 1 ELSE 0
      /\ \A i \in 1 .. (k + n) - (k + 1) + 1 : t[i] = s[(k + 1) + i - 1]
  <2> DEFINE p == k + 1
             q == k + n
  <2>1. p \in Int /\ q \in Int /\ \A i \in p .. q : s[i] \in S
    BY <1>1
  <2> HIDE DEF p, q
  <2>2. /\ SubSeq(s, p, q) \in Seq(S)
        /\ Len(SubSeq(s, p, q)) = IF p <= q THEN q - p + 1 ELSE 0
        /\ \A i \in 1 .. q - p + 1 : SubSeq(s, p, q)[i] = s[p + i - 1]
    BY <2>1, SubSeqProperties
  <2> QED BY <2>2 DEF p, q
<1> HIDE DEF t
<1>3. (k + n) - (k + 1) + 1 = n /\ (k + 1 <= k + n <=> n # 0)
  OBVIOUS
<1>4. \A i \in 1 .. n : (k + 1) + i - 1 = k + i
  OBVIOUS
<1>5. Len(t) = n
  BY <1>2, <1>3
<1>6. \A i \in 1 .. n : t[i] = s[k + i]
  BY <1>2, <1>3, <1>4
<1> QED BY <1>2, <1>5, <1>6 DEF t

\* s \o t, for arguments that need no more than that it is associative: what the
\* provers know of \o besides would keep them busy.
Cat(s, t) == s \o t

\* Concatenation is associative, and stays among sequences over one set.
LEMMA CatAssociative ==
  \A S : \A s, t, u \in Seq(S) : /\ Cat(s, t) \in Seq(S)
                                 /\ Cat(Cat(s, t), u) = Cat(s, Cat(t, u))
<1> TAKE S
<1> TAKE s, t, u \in Seq(S)
<1>1. s \o t \in Seq(S)
  BY ConcatProperties
<1>2. (s \o t) \o u = s \o (t \o u)
  BY ConcatAssociative
<1> QED BY <1>1, <1>2 DEF Cat

-----------------------------------------------------------------------------
(* The messages: what the generated classes promise of every message of up to *)
(* three fields, whatever their values and defaults are                        *)

\* m is a message of the type: a tuple with as many fields.
IsMessage(Type, m) ==
  \E n \in 1 .. FieldCount : \E S, D : /\ m \in [1 .. n -> S] /\ Type \in [1 .. n -> D]

Written(Type, m, k) == k \in 1 .. Len(Type) /\ m[k] # Type[k]

\* Whatever the bytes of m may be made of
Units(m) == {Tag(k) : k \in 1 .. FieldCount} \cup {Value(m[k]) : k \in 1 .. FieldCount}

\* Field k as it is written
LEMMA FieldShape ==
  ASSUME NEW Type, NEW m, NEW k \in 1 .. FieldCount
  PROVE  /\ FieldBytes(Type, m, k) \in Seq(Units(m))
         /\ Len(FieldBytes(Type, m, k)) = FieldSize(Type, m, k)
         /\ Written(Type, m, k) =>
              /\ FieldBytes(Type, m, k)[1] = Tag(k)
              /\ FieldBytes(Type, m, k)[2] = Value(m[k])
<1>1. Tag(k) \in Units(m) /\ Value(m[k]) \in Units(m)
  BY DEF Units
<1>2. CASE Written(Type, m, k)
  <2>1. FieldBytes(Type, m, k) = <<Tag(k), Value(m[k])>> /\ FieldSize(Type, m, k) = 2
    BY <1>2 DEF Written, FieldBytes, FieldSize
  <2> QED BY <1>1, <2>1
<1>3. CASE ~Written(Type, m, k)
  <2>1. FieldBytes(Type, m, k) = <<>> /\ FieldSize(Type, m, k) = 0
    BY <1>3 DEF Written, FieldBytes, FieldSize
  <2> QED BY <1>3, <2>1, EmptySeq
<1> QED BY <1>2, <1>3

\* Where field k starts, if it is written
Pos(Type, m, k) ==
  1 + (IF k > 1 THEN FieldSize(Type, m, 1) ELSE 0) + (IF k > 2 THEN FieldSize(Type, m, 2) ELSE 0)

\* The fields stand one after the other, and nothing else does.
LEMMA Shape ==
  ASSUME NEW Type, NEW m
  PROVE  LET s == Serialize(Type, m)
         IN  /\ s \in Seq(Units(m))
             /\ Len(s) = ByteSizeLong(Type, m)
             /\ \A k \in 1 .. FieldCount : Written(Type, m, k) =>
                  /\ Pos(Type, m, k) \in 1 .. Len(s) - 1
                  /\ s[Pos(Type, m, k)] = Tag(k)
                  /\ s[Pos(Type, m, k) + 1] = Value(m[k])
             /\ \A i \in 1 .. Len(s) : \E k \in 1 .. FieldCount :
                  Written(Type, m, k) /\ i \in {Pos(Type, m, k), Pos(Type, m, k) + 1}
<1> DEFINE a == FieldBytes(Type, m, 1)
           b == FieldBytes(Type, m, 2)
           c == FieldBytes(Type, m, 3)
           S == Units(m)
           s == Serialize(Type, m)
<1>1. /\ a \in Seq(S) /\ Len(a) = FieldSize(Type, m, 1)
      /\ b \in Seq(S) /\ Len(b) = FieldSize(Type, m, 2)
      /\ c \in Seq(S) /\ Len(c) = FieldSize(Type, m, 3)
  BY FieldShape DEF FieldCount
<1>2. /\ Written(Type, m, 1) => a[1] = Tag(1) /\ a[2] = Value(m[1])
      /\ Written(Type, m, 2) => b[1] = Tag(2) /\ b[2] = Value(m[2])
      /\ Written(Type, m, 3) => c[1] = Tag(3) /\ c[2] = Value(m[3])
  BY FieldShape DEF FieldCount
<1>3. \A k \in 1 .. FieldCount :
        FieldSize(Type, m, k) = IF Written(Type, m, k) THEN 2 ELSE 0
  BY DEF FieldSize, Written
<1>4. s = (a \o b) \o c
  BY DEF Serialize
<1> HIDE DEF a, b, c, S, s
<1>5. /\ a \o b \in Seq(S) /\ Len(a \o b) = Len(a) + Len(b)
      /\ \A i \in 1 .. Len(a) + Len(b) :
           (a \o b)[i] = IF i <= Len(a) THEN a[i] ELSE b[i - Len(a)]
  BY <1>1, ConcatProperties
<1>6. /\ s \in Seq(S) /\ Len(s) = Len(a) + Len(b) + Len(c)
      /\ \A i \in 1 .. Len(a) + Len(b) + Len(c) :
           s[i] = IF i <= Len(a) + Len(b) THEN (a \o b)[i] ELSE c[i - (Len(a) + Len(b))]
  <2>1. \A t \in Seq(S) :
          /\ t \o c \in Seq(S) /\ Len(t \o c) = Len(t) + Len(c)
          /\ \A i \in 1 .. Len(t) + Len(c) :
               (t \o c)[i] = IF i <= Len(t) THEN t[i] ELSE c[i - Len(t)]
    BY <1>1, ConcatProperties
  <2> QED BY <1>4, <1>5, <2>1
<1>7. Len(s) = ByteSizeLong(Type, m)
  BY <1>1, <1>6 DEF ByteSizeLong
<1>8. ASSUME NEW k \in 1 .. FieldCount, Written(Type, m, k)
      PROVE  /\ Pos(Type, m, k) \in 1 .. Len(s) - 1
             /\ s[Pos(Type, m, k)] = Tag(k)
             /\ s[Pos(Type, m, k) + 1] = Value(m[k])
  <2> DEFINE p == Pos(Type, m, k)
  <2>1. CASE k = 1
    BY <1>1, <1>2, <1>3, <1>5, <1>6, <1>8, <2>1 DEF Pos, FieldCount
  <2>2. CASE k = 2
    <3>1. Len(b) = 2 /\ p = 1 + Len(a)
      BY <1>1, <1>3, <1>8, <2>2 DEF Pos, FieldCount
    <3>2. {Len(a), Len(b), Len(c)} \subseteq {0, 2}
      BY <1>1, <1>3 DEF FieldCount
    <3>3. s[p] = b[1] /\ s[p + 1] = b[2] /\ p \in 1 .. Len(s) - 1
      BY <1>5, <1>6, <3>1, <3>2
    <3> QED BY <1>2, <1>8, <2>2, <3>3
  <2>3. CASE k = 3
    <3>1. Len(c) = 2 /\ p = 1 + Len(a) + Len(b)
      BY <1>1, <1>3, <1>8, <2>3 DEF Pos, FieldCount
    <3>2. {Len(a), Len(b), Len(c)} \subseteq {0, 2}
      BY <1>1, <1>3 DEF FieldCount
    <3>3. s[p] = c[1] /\ s[p + 1] = c[2] /\ p \in 1 .. Len(s) - 1
      BY <1>5, <1>6, <3>1, <3>2
    <3> QED BY <1>2, <1>8, <2>3, <3>3
  <2> QED BY <2>1, <2>2, <2>3 DEF FieldCount
<1>9. ASSUME NEW i \in 1 .. Len(s)
      PROVE  \E k \in 1 .. FieldCount :
               Written(Type, m, k) /\ i \in {Pos(Type, m, k), Pos(Type, m, k) + 1}
  BY <1>1, <1>3, <1>6 DEF Pos, FieldCount
<1> QED BY <1>6, <1>7, <1>8, <1>9 DEF s, S

\* A serialized message parses.
LEMMA SerializedWellFormed ==
  ASSUME NEW Type, NEW m
  PROVE  WellFormed(Serialize(Type, m))
<1> DEFINE s == Serialize(Type, m)
<1>1. \A k \in 1 .. FieldCount :
        FieldSize(Type, m, k) = IF Written(Type, m, k) THEN 2 ELSE 0
  BY DEF FieldSize, Written
<1>2. Len(s) % 2 = 0
  <2>1. ByteSizeLong(Type, m) \in {0, 2, 4, 6}
    BY <1>1 DEF ByteSizeLong, FieldCount
  <2>2. Len(s) = ByteSizeLong(Type, m)
    BY Shape
  <2>3. 0 % 2 = 0 /\ 2 % 2 = 0 /\ 4 % 2 = 0 /\ 6 % 2 = 0
    OBVIOUS
  <2> QED BY <2>1, <2>2, <2>3
<1>3. \A k \in 1 .. FieldCount : Pos(Type, m, k) \in {1, 3, 5}
  BY <1>1 DEF Pos, FieldCount
<1>4. ASSUME NEW i \in 1 .. Len(s)
      PROVE  s[i][1] = IF i % 2 = 1 THEN "tag" ELSE "value"
  <2>1. PICK k \in 1 .. FieldCount :
          Written(Type, m, k) /\ i \in {Pos(Type, m, k), Pos(Type, m, k) + 1}
    BY Shape
  <2>2. /\ s[Pos(Type, m, k)] = Tag(k)
        /\ s[Pos(Type, m, k) + 1] = Value(m[k])
    BY Shape, <2>1
  <2> QED BY <1>3, <2>1, <2>2 DEF Tag, Value
<1> QED BY <1>2, <1>4 DEF WellFormed

\* What is serialized and parsed again is the message.
THEOREM RoundTrip ==
  ASSUME NEW Type, NEW m, IsMessage(Type, m)
  PROVE  Parse(Type, Serialize(Type, m)) = m
<1> DEFINE s == Serialize(Type, m)
<1>0. PICK n \in 1 .. FieldCount : \E S, D : m \in [1 .. n -> S] /\ Type \in [1 .. n -> D]
  BY DEF IsMessage
<1>1. PICK S, D : m \in [1 .. n -> S] /\ Type \in [1 .. n -> D]
  BY <1>0
<1>2. Len(m) = n /\ Len(Type) = n
  BY <1>1, LenProperties DEF FieldCount
<1>3. \A k \in 1 .. FieldCount :
        FieldSize(Type, m, k) = IF Written(Type, m, k) THEN 2 ELSE 0
  BY DEF FieldSize, Written
<1>4. ASSUME NEW k \in 1 .. n
      PROVE  At(k, s) = IF Written(Type, m, k) THEN {Pos(Type, m, k)} ELSE {}
  <2>1. \A i \in 1 .. Len(s) : i \in At(k, s) <=> Written(Type, m, k) /\ i = Pos(Type, m, k)
    <3> TAKE i \in 1 .. Len(s)
    <3>1. PICK j \in 1 .. FieldCount :
            Written(Type, m, j) /\ i \in {Pos(Type, m, j), Pos(Type, m, j) + 1}
      BY Shape
    <3>2. /\ s[Pos(Type, m, j)] = Tag(j)
          /\ s[Pos(Type, m, j) + 1] = Value(m[j])
      BY Shape, <3>1
    <3>3. k \in 1 .. FieldCount
      BY DEF FieldCount
    <3>4. s[i][1] = "tag" /\ s[i][2] = k <=> j = k /\ i = Pos(Type, m, j)
      BY <3>1, <3>2, <3>3, <1>3 DEF Tag, Value, Pos, FieldCount
    <3>5. \A l \in 1 .. FieldCount : Written(Type, m, l) /\ i = Pos(Type, m, l) => l = j
      BY <3>1, <1>3 DEF Pos, FieldCount
    <3> QED BY <3>1, <3>3, <3>4, <3>5 DEF At
  <2>2. Written(Type, m, k) => Pos(Type, m, k) \in 1 .. Len(s) 
    <3>1. k \in 1 .. FieldCount
      BY DEF FieldCount
    <3>2. Len(s) \in Nat
      BY Shape, LenProperties
    <3> QED BY Shape, <3>1, <3>2
  <2> QED BY <2>1, <2>2 DEF At
<1>5. ASSUME NEW k \in 1 .. n
      PROVE  Parse(Type, s)[k] = m[k]
  <2>1. CASE Written(Type, m, k)
    <3>1. s[Pos(Type, m, k) + 1][2] = m[k]
      <4>1. k \in 1 .. FieldCount
        BY DEF FieldCount
      <4>2. s[Pos(Type, m, k) + 1] = Value(m[k])
        BY Shape, <2>1, <4>1
      <4> QED BY <4>2 DEF Value
    <3>2. At(k, s) = {Pos(Type, m, k)}
      BY <1>4, <2>1
    <3> DEFINE last == CHOOSE i \in At(k, s) : \A j \in At(k, s) : j <= i
    <3>3. last = Pos(Type, m, k)
      <4>1. Pos(Type, m, k) <= Pos(Type, m, k)
        BY <1>3 DEF Pos, FieldCount
      <4> QED BY <3>2, <4>1
    <3> HIDE DEF last
    <3>4. Parse(Type, s)[k] = s[last + 1][2]
      BY <1>2, <3>2 DEF Parse, ParseFromString, MergeFromBytes, Clear, last
    <3> QED BY <3>1, <3>3, <3>4
  <2>2. CASE ~Written(Type, m, k)
    <3>1. At(k, s) = {}
      BY <1>4, <2>2
    <3>2. m[k] = Type[k]
      BY <1>2, <2>2 DEF Written
    <3> QED BY <1>2, <3>1, <3>2 DEF Parse, ParseFromString, MergeFromBytes, Clear
  <2> QED BY <2>1, <2>2
<1>6. Parse(Type, s) = [k \in 1 .. n |-> Parse(Type, s)[k]]
  BY <1>2 DEF Parse, ParseFromString, MergeFromBytes, Clear
<1> QED BY <1>1, <1>5, <1>6

-----------------------------------------------------------------------------
(* The registry *)

Session(p) == [id |-> session[p], provider |-> p]

Paths == {ServicePath(s) : s \in Service} \cup {MethodPath(s, m) : s \in Service, m \in Method}

TypeInv ==
  /\ nextId \in Nat \ {0}
  /\ sessions \subseteq [id : Nat \ {0}, provider : Provider]
  /\ session \in [Provider -> Nat]
  /\ phase \in [Provider -> Phases]
  /\ todo \in [Provider -> Seq(Paths)]

\* A provider that talks to the server has a session, and the server keeps it: the
\* owner of the ephemeral znode that the provider creates next.
SessionInv ==
  \A p \in Provider :
    /\ session[p] # 0 => Session(p) \in sessions
    /\ phase[p] \in {"exists", "create", "serving"} => session[p] # 0

\* The znodes that hold an address are those of methods.
PathInv ==
  /\ \A p \in Provider : phase[p] = "create" => todo[p] # <<>>
  /\ \A n \in znodes : n.data # {} => n.path[1] \in Service /\ n.path[2] \in Method

IInv == TypeInv /\ SessionInv /\ PathInv /\ AddressesFresh

\* The first state
LEMMA InitIInv == Init => IInv
<1> SUFFICES ASSUME RegistryInit
             PROVE  IInv
  BY DEF Init
<1>1. todo \in [Provider -> Seq(Paths)]
  BY EmptySeq DEF RegistryInit
<1> QED
  BY <1>1 DEF RegistryInit, IInv, TypeInv, SessionInv, PathInv, AddressesFresh, Phases

\* A process that ends, of a provider or of none, leaves the server as it is.
LEMMA DiesKeeps ==
  ASSUME IInv, NEW p, Dies(p), UNCHANGED zkVars
  PROVE  IInv'
<1> USE DEF IInv, Dies, zkVars
<1>1. TypeInv'
  BY EmptySeq DEF TypeInv, Phases
<1>2. SessionInv'
  BY DEF TypeInv, SessionInv, Session
<1>3. AddressesFresh'
  BY DEF AddressesFresh
<1>4. PathInv'
  BY DEF TypeInv, PathInv
<1> QED BY <1>1, <1>2, <1>3, <1>4

\* The steps of a provider that leave the server alone
LEMMA IdleKeeps ==
  ASSUME IInv, NEW p \in Provider, NEW next \in Phases, NEW paths \in Seq(Paths),
         phase' = [phase EXCEPT ![p] = next],
         todo' = [todo EXCEPT ![p] = paths],
         next \in {"exists", "create", "serving"} => session[p] # 0,
         next = "create" => paths # <<>>,
         UNCHANGED <<zkVars, session>>
  PROVE  IInv'
<1> USE DEF IInv, zkVars
<1>1. TypeInv'
  BY DEF TypeInv
<1>2. SessionInv'
  BY DEF TypeInv, SessionInv, Session
<1>3. AddressesFresh'
  BY DEF AddressesFresh
<1>4. PathInv'
  BY DEF TypeInv, PathInv
<1> QED BY <1>1, <1>2, <1>3, <1>4

\* A session is established under a number of its own.
LEMMA ConnectedKeeps ==
  ASSUME IInv, NEW p \in Provider, Connected(p)
  PROVE  IInv'
<1> DEFINE s == [id |-> nextId, provider |-> p]
<1>1. /\ sessions' = sessions \cup {s}
      /\ nextId' = nextId + 1
      /\ UNCHANGED znodes
      /\ \/ Dies(p)
         \/ /\ phase' = [phase EXCEPT ![p] = "exists"]
            /\ session' = [session EXCEPT ![p] = nextId]
            /\ \E q \in Orders : todo' = [todo EXCEPT ![p] = q]
  BY DEF Connected
<1>2. s \in [id : Nat \ {0}, provider : Provider] /\ nextId \in Nat \ {0}
  BY DEF IInv, TypeInv
<1>3. \A q \in Orders : q \in Seq(Paths)
  <2> DEFINE n == Cardinality(Service) * (1 + Cardinality(Method))
  <2>1. \A q \in Orders : q \in [1 .. n -> Paths]
    BY DEF Orders, Paths
  <2>2. n \in Nat
    <3>1. Cardinality(Service) \in Nat /\ Cardinality(Method) \in Nat
      BY RegistryAssumption, FS_CardinalityType
    <3> QED BY <3>1
  <2> HIDE DEF n
  <2> QED BY <2>1, <2>2, SeqDef
<1>4. TypeInv'
  <2>1. nextId' \in Nat \ {0} /\ sessions' \subseteq [id : Nat \ {0}, provider : Provider]
    BY <1>1, <1>2 DEF IInv, TypeInv
  <2>2. phase' \in [Provider -> Phases] /\ session' \in [Provider -> Nat]
    <3>1. phase \in [Provider -> Phases] /\ session \in [Provider -> Nat]
      BY DEF IInv, TypeInv
    <3>2. \E ph \in Phases : phase' = [phase EXCEPT ![p] = ph]
      BY <1>1 DEF Dies, Phases
    <3>3. \E n \in Nat : session' = [session EXCEPT ![p] = n]
      BY <1>1, <1>2 DEF Dies
    <3> QED BY <3>1, <3>2, <3>3
  <2>3. todo' \in [Provider -> Seq(Paths)]
    BY <1>1, <1>3, EmptySeq DEF IInv, TypeInv, Dies
  <2> QED BY <2>1, <2>2, <2>3 DEF TypeInv
<1>5. SessionInv'
  BY <1>1, <1>2 DEF IInv, TypeInv, SessionInv, Session, Dies
<1>6. AddressesFresh'
  BY <1>1 DEF IInv, AddressesFresh
<1>7. PathInv'
  BY <1>1 DEF IInv, TypeInv, PathInv, Dies
<1> QED BY <1>4, <1>5, <1>6, <1>7 DEF IInv

\* zoo_create makes a znode no other has the path of, and its session is the
\* provider's.
LEMMA CreateKeeps ==
  ASSUME IInv, NEW p \in Provider, Create(p)
  PROVE  IInv'
<1> DEFINE path == Head(todo[p])
           n == [path |-> path, data |-> IF Len(path) = 2 THEN {p} ELSE {},
                 owner |-> Owner(p, path)]
<1>1. CASE path \in Existing
  BY <1>1, DiesKeeps DEF Create
<1>2. CASE path \notin Existing
  <2>1. /\ znodes' = znodes \cup {n}
        /\ phase' = [phase EXCEPT ![p] = "exists"]
        /\ todo' = [todo EXCEPT ![p] = Tail(todo[p])]
        /\ phase[p] = "create"
        /\ UNCHANGED <<sessions, nextId, session>>
    BY <1>2 DEF Create
  <2>2. path \in Paths /\ Tail(todo[p]) \in Seq(Paths)
    <3>1. todo[p] \in Seq(Paths) /\ todo[p] # <<>>
      BY <2>1 DEF IInv, TypeInv, PathInv
    <3> QED BY <3>1, HeadTailProperties
  <2>3. Len(path) = 2 => path[1] \in Service /\ path[2] \in Method
    BY <2>2 DEF Paths, ServicePath, MethodPath
  <2>4. session[p] # 0 /\ Session(p) \in sessions
    BY <2>1 DEF IInv, SessionInv
  <2>5. /\ n.owner # 0 => \E s \in sessions : s.id = n.owner /\ n.data = {s.provider}
        /\ n.data # {} => n.owner # 0
        /\ n.data # {} => n.path[1] \in Service /\ n.path[2] \in Method
    BY <2>3, <2>4 DEF Owner, Session
  <2>6. \A o \in znodes : o.path # n.path
    BY <1>2 DEF Existing
  <2> HIDE DEF n
  <2>7. TypeInv' /\ SessionInv' /\ PathInv'
    BY <2>1, <2>2, <2>5 DEF IInv, TypeInv, SessionInv, Session, PathInv, Phases
  <2>8. AddressesFresh'
    BY <2>1, <2>5, <2>6 DEF IInv, AddressesFresh
  <2> QED BY <2>7, <2>8 DEF IInv
<1> QED BY <1>1, <1>2

\* With a session go the znodes it owns.
LEMMA ExpireKeeps ==
  ASSUME IInv, NEW s \in sessions, Expire(s)
  PROVE  IInv'
<1>1. /\ session[s.provider] # s.id
      /\ sessions' = sessions \ {s}
      /\ znodes' = {n \in znodes : n.owner # s.id}
      /\ UNCHANGED <<nextId, phase, session, todo>>
  BY DEF Expire, providerVars
<1>2. TypeInv'
  BY <1>1 DEF IInv, TypeInv
<1>3. SessionInv'
  <2>1. ASSUME NEW p \in Provider
        PROVE  Session(p) # s
    BY <1>1 DEF Session
  <2> QED BY <1>1, <2>1 DEF IInv, SessionInv, Session
<1>4. AddressesFresh'
  <2>1. ASSUME NEW n \in znodes', n.owner # 0
        PROVE  \E t \in sessions' : t.id = n.owner /\ n.data = {t.provider}
    BY <1>1, <2>1 DEF IInv, AddressesFresh
  <2> QED BY <1>1, <2>1 DEF IInv, AddressesFresh
<1>5. PathInv'
  BY <1>1 DEF IInv, PathInv
<1> QED BY <1>2, <1>3, <1>4, <1>5 DEF IInv

\* Every step of the providers, of the server and of the callers keeps it.
LEMMA NextIInv == IInv /\ [Next]_vars => IInv'
<1> SUFFICES ASSUME IInv, [Next]_vars
             PROVE  IInv'
  OBVIOUS
<1>1. ASSUME NEW p \in Provider,
             Start(p) \/ SetContext(p) \/ Connected(p) \/ Exists(p) \/ Create(p) \/ Serve(p)
      PROVE  IInv'
  <2> DEFINE paths == todo[p]
  <2>1. /\ paths \in Seq(Paths) /\ todo = [todo EXCEPT ![p] = paths]
        /\ phase = [phase EXCEPT ![p] = phase[p]] /\ phase[p] \in Phases
    BY DEF IInv, TypeInv
  <2>2. CASE Start(p)
    BY <2>1, <2>2, IdleKeeps DEF Start, Phases
  <2>3. CASE SetContext(p)
    BY <2>1, <2>3, IdleKeeps DEF SetContext, Phases
  <2>4. CASE Exists(p)
    <3>1. session[p] # 0 /\ paths # <<>>
      BY <2>4 DEF Exists, IInv, SessionInv
    <3>2. CASE todo' = todo /\ phase' = [phase EXCEPT ![p] = "create"]
      BY <2>1, <2>4, <3>1, <3>2, IdleKeeps DEF Exists, Phases
    <3>3. CASE todo' = [todo EXCEPT ![p] = Tail(paths)] /\ phase' = phase
      <4>1. Tail(paths) \in Seq(Paths)
        BY <2>1, <3>1, HeadTailProperties
      <4>2. phase[p] = "exists"
        BY <2>4 DEF Exists
      <4> QED BY <2>1, <2>4, <3>1, <3>3, <4>1, <4>2, IdleKeeps DEF Exists, Phases
    <3> QED BY <2>4, <3>2, <3>3 DEF Exists
  <2>5. CASE Serve(p)
    <3>1. session[p] # 0
      BY <2>5 DEF Serve, IInv, SessionInv
    <3> QED BY <2>1, <2>5, <3>1, IdleKeeps DEF Serve, Phases
  <2> QED BY <1>1, <2>2, <2>3, <2>4, <2>5, ConnectedKeeps, CreateKeeps
<1>2. ASSUME NEW s \in sessions, Expire(s)
      PROVE  IInv'
  BY <1>2, ExpireKeeps
<1>3. UNCHANGED registryVars => IInv'
  BY DEF registryVars, zkVars, providerVars, IInv, TypeInv, SessionInv, Session, PathInv,
         AddressesFresh
<1>4. ASSUME NEW c \in Caller, CallerNext(c)
      PROVE  IInv'
  BY <1>3, <1>4 DEF CallerNext, CallMethod, Lookup, Connect, OnMessage, OnConnectionDown
<1>5. ASSUME NEW c \in Caller, ProviderOnMessage(c)
      PROVE  IInv'
  <2>1. PICK n \in Arrived(conn[c].out) : \E o \in Outcomes(SubSeq(conn[c].out, 1, n)) :
              Handled(c, [conn EXCEPT ![c].out = SubSeq(@, n + 1, Len(@))], o)
    BY <1>5 DEF ProviderOnMessage
  <2>2. ASSUME NEW rest, NEW message, NEW o \in Outcomes(message), Handled(c, rest, o)
        PROVE  UNCHANGED registryVars \/ (Dies(conn[c].to) /\ UNCHANGED zkVars)
    <3>1. o.is \in {"throws", "ignored", "runs"}
      BY <2>2 DEF Outcomes
    <3> QED BY <2>2, <3>1 DEF Handled
  <2>3. UNCHANGED registryVars \/ (Dies(conn[c].to) /\ UNCHANGED zkVars)
    BY <2>1, <2>2
  <2> QED BY <1>3, <2>3, DiesKeeps
<1>6. ASSUME NEW p \in Provider, Crash(p)
      PROVE  IInv'
  BY <1>6, DiesKeeps DEF Crash
<1> QED BY <1>1, <1>2, <1>3, <1>4, <1>5, <1>6 DEF Next, RegistryNext, vars

\* Whenever providers die, restart and run into each other's znodes, and sessions
\* expire late: no address outlives the session it was registered in, and no path
\* is registered twice.
THEOREM AddressesStayFresh == Spec => []AddressesFresh
<1>1. IInv => AddressesFresh
  BY DEF IInv
<1> QED BY <1>1, InitIInv, NextIInv, PTL DEF Spec

-----------------------------------------------------------------------------
(* The package *)

\* Substr tells the parts of s apart that have the lengths of a, b and c.
Apart(s, a, b, c) ==
  /\ Len(s) = Len(a) + Len(b) + Len(c)
  /\ Substr(s, Len(a), Len(b)) = b
  /\ Substr(s, Len(a) + Len(b), Len(c)) = c
  /\ \A i \in 1 .. Len(a) : s[i] = a[i]

\* The parts Substr finds are those the sequence was put together from.
LEMMA SubstrOfConcat ==
  ASSUME NEW S, NEW a \in Seq(S), NEW b \in Seq(S), NEW c \in Seq(S),
         NEW s, s = (a \o b) \o c
  PROVE  Apart(s, a, b, c)
<1> DEFINE l == Len(a)
           m == Len(b)
           n == Len(c)
<1>0. Len(a) = l /\ Len(b) = m /\ Len(c) = n
  OBVIOUS
<1>1. l \in Nat /\ m \in Nat /\ n \in Nat
  BY LenProperties
<1> HIDE DEF l, m, n
<1>2. /\ a \o b \in Seq(S) /\ Len(a \o b) = l + m
      /\ \A i \in 1 .. l + m : (a \o b)[i] = IF i <= l THEN a[i] ELSE b[i - l]
  BY <1>0, ConcatAt
<1>3. /\ s \in Seq(S) /\ Len(s) = l + m + n
      /\ \A i \in 1 .. l + m + n : s[i] = IF i <= l + m THEN (a \o b)[i] ELSE c[i - (l + m)]
  <2> DEFINE ab == a \o b
             k == l + m
  <2>1. ab \in Seq(S) /\ Len(ab) = k
    BY <1>2
  <2> HIDE DEF ab, k
  <2>2. /\ ab \o c \in Seq(S) /\ Len(ab \o c) = k + n
        /\ \A i \in 1 .. k + n : (ab \o c)[i] = IF i <= k THEN ab[i] ELSE c[i - k]
    BY <1>0, <2>1, ConcatAt
  <2> QED BY <2>2 DEF ab, k
<1>4. /\ \A i \in 1 .. l : s[i] = a[i]
      /\ \A i \in 1 .. m : s[l + i] = b[i]
      /\ \A i \in 1 .. n : s[l + m + i] = c[i]
  <2> DEFINE ab == a \o b
  <2>1. /\ \A i \in 1 .. l + m : ab[i] = IF i <= l THEN a[i] ELSE b[i - l]
        /\ \A i \in 1 .. l + m + n : s[i] = IF i <= l + m THEN ab[i] ELSE c[i - (l + m)]
    BY <1>2, <1>3
  <2> HIDE DEF ab
  <2>2. ASSUME NEW i \in 1 .. l
        PROVE  s[i] = a[i]
    <3>1. i \in 1 .. l + m /\ i \in 1 .. l + m + n /\ i <= l + m /\ i <= l
      BY <1>1
    <3> QED BY <2>1, <3>1
  <2>3. ASSUME NEW i \in 1 .. m
        PROVE  s[l + i] = b[i]
    <3> DEFINE j == l + i
    <3>1. j \in 1 .. l + m /\ j \in 1 .. l + m + n /\ j <= l + m /\ ~(j <= l) /\ j - l = i
      BY <1>1
    <3> HIDE DEF j
    <3>2. s[j] = ab[j] /\ ab[j] = b[j - l]
      BY <2>1, <3>1
    <3> QED BY <3>1, <3>2 DEF j
  <2>4. ASSUME NEW i \in 1 .. n
        PROVE  s[l + m + i] = c[i]
    <3> DEFINE j == l + m + i
    <3>1. j \in 1 .. l + m + n /\ ~(j <= l + m) /\ j - (l + m) = i
      BY <1>1
    <3> HIDE DEF j
    <3>2. s[j] = c[j - (l + m)]
      BY <2>1, <3>1
    <3> QED BY <3>1, <3>2 DEF j
  <2> QED BY <2>2, <2>3, <2>4
<1>5. Substr(s, l, m) = b
  <2> DEFINE t == SubSeq(s, l + 1, l + m)
  <2>1. Substr(s, l, m) = t
    <3>1. (IF l + m < Len(s) THEN l + m ELSE Len(s)) = l + m
      BY <1>1, <1>3
    <3> QED BY <3>1 DEF Substr
  <2>2. t \in Seq(S) /\ Len(t) = m /\ \A i \in 1 .. m : t[i] = s[l + i]
    <3>1. l + m <= Len(s) /\ s \in Seq(S)
      BY <1>1, <1>3
    <3> QED BY <1>1, <3>1, SubSeqAt
  <2> HIDE DEF t
  <2>3. Len(t) = Len(b) /\ \A i \in 1 .. Len(t) : t[i] = b[i]
    BY <1>0, <1>4, <2>2
  <2> QED BY <2>1, <2>2, <2>3, SeqEqual
<1>6. Substr(s, l + m, n) = c
  <2> DEFINE k == l + m
             t == SubSeq(s, k + 1, k + n)
  <2>1. Substr(s, k, n) = t
    <3>1. (IF k + n < Len(s) THEN k + n ELSE Len(s)) = k + n
      BY <1>1, <1>3
    <3> QED BY <3>1 DEF Substr
  <2>2. t \in Seq(S) /\ Len(t) = n /\ \A i \in 1 .. n : t[i] = s[k + i]
    <3>1. k + n <= Len(s) /\ k \in Nat /\ s \in Seq(S)
      BY <1>1, <1>3
    <3> HIDE DEF k
    <3> QED BY <1>1, <3>1, SubSeqAt
  <2> HIDE DEF t
  <2>3. Len(t) = Len(c) /\ \A i \in 1 .. Len(t) : t[i] = c[i]
    BY <1>0, <1>4, <2>2
  <2> QED BY <2>1, <2>2, <2>3, SeqEqual
<1> QED BY <1>0, <1>3, <1>4, <1>5, <1>6 DEF Apart

\* The header CallMethod builds is a message, and has the fields it was given.
LEMMA HeaderFields ==
  ASSUME NEW target, NEW size
  PROVE  /\ IsMessage(RpcHeader, Header(target, size))
         /\ Header(target, size)[1] = target[1]
         /\ Header(target, size)[2] = target[2]
         /\ Header(target, size)[3] = size
<1> DEFINE h == Header(target, size)
<1>1. h = [i \in 1 .. 3 |-> IF i = 1 THEN target[1] ELSE IF i = 2 THEN target[2] ELSE size]
  BY DEF Header, SetArgsSize, SetMethodName, SetServiceName, Set, RpcHeader
<1> DEFINE S == {target[1], target[2], size}
           D == {None, 0}
<1>2. h \in [1 .. 3 -> S]
  BY <1>1
<1>3. RpcHeader \in [1 .. 3 -> D]
  BY DEF RpcHeader
<1>4. IsMessage(RpcHeader, h)
  <2> HIDE DEF h, S, D
  <2> QED BY <1>2, <1>3 DEF IsMessage, FieldCount
<1> QED BY <1>1, <1>4

\* What a package is made of, and where onMessage finds it
LEMMA PackageParts ==
  ASSUME NEW target, NEW request
  PROVE  LET args    == RequestBytes(request)
             header  == Serialize(RpcHeader, Header(target, Len(args)))
             n       == Len(header)
             message == Package(target, request)
         IN  /\ \E S : message \in Seq(S)
             /\ n \in Nat /\ Len(args) \in Nat
             /\ Len(message) = SizeBytes + n + Len(args)
             /\ Substr(message, SizeBytes, n) = header
             /\ Substr(message, SizeBytes + n, Len(args)) = args
             /\ \A i \in 1 .. SizeBytes : message[i] = <<"size", n>>
<1> DEFINE args == RequestBytes(request)
           h == Header(target, Len(args))
           header == Serialize(RpcHeader, h)
           n == Len(header)
           size == [i \in 1 .. SizeBytes |-> <<"size", n>>]
           message == Package(target, request)
           S == {<<"size", n>>} \cup Units(h) \cup Units(request)
<1>1. args \in Seq(S) /\ header \in Seq(S)
  <2>1. args \in Seq(Units(request)) /\ header \in Seq(Units(h))
    BY Shape DEF RequestBytes
  <2>2. Units(request) \subseteq S /\ Units(h) \subseteq S
    OBVIOUS
  <2> HIDE DEF args, header, S
  <2> QED BY <2>1, <2>2, SeqMonotonic
<1>2. size \in Seq(S) /\ Len(size) = SizeBytes /\ \A i \in 1 .. SizeBytes : size[i] = <<"size", n>>
  <2> HIDE DEF n
  <2>1. size \in [1 .. SizeBytes -> S] /\ SizeBytes \in Nat
    BY DEF SizeBytes
  <2> QED BY <2>1, SeqDef, LenProperties DEF SizeBytes
<1>3. message = (size \o header) \o args
  BY DEF Package
<1>4. n \in Nat /\ Len(args) \in Nat
  BY <1>1, LenProperties
<1>5. /\ \E T : message \in Seq(T)
      /\ Len(message) = SizeBytes + n + Len(args)
      /\ Substr(message, SizeBytes, n) = header
      /\ Substr(message, SizeBytes + n, Len(args)) = args
      /\ \A i \in 1 .. SizeBytes : message[i] = <<"size", n>>
  <2> HIDE DEF args, header, size, S, message, n
  <2>1. size \in Seq(S)
    BY <1>2
  <2>2. Apart(message, size, header, args)
    BY <1>1, <1>3, <2>1, SubstrOfConcat
  <2>3. message \in Seq(S)
    BY <1>1, <1>3, <2>1, CatAssociative DEF Cat
  <2> QED BY <1>2, <2>2, <2>3 DEF Apart, n
<1> QED BY <1>4, <1>5

\* What the provider's onMessage makes of a whole package, of any request for a
\* method it has: it runs the method with that request, and does nothing else.
THEOREM PackageUnderstood ==
  ASSUME NEW target, target[1] \in Service, target[2] \in Method,
         NEW request, IsMessage(LoginRequest, request)
  PROVE  Outcomes(Package(target, request)) = {[is |-> "runs", request |-> request]}
<1> DEFINE args == RequestBytes(request)
           h == Header(target, Len(args))
           header == Serialize(RpcHeader, h)
           n == Len(header)
           message == Package(target, request)
<1>1. /\ n \in Nat /\ Len(args) \in Nat
      /\ Len(message) = SizeBytes + n + Len(args)
      /\ Substr(message, SizeBytes, n) = header
      /\ Substr(message, SizeBytes + n, Len(args)) = args
      /\ \A i \in 1 .. SizeBytes : message[i] = <<"size", n>>
  BY PackageParts
<1>2. HeaderSizes(message) = {n}
  <2> HIDE DEF message, n
  <2> QED BY <1>1 DEF HeaderSizes, SizeBytes
<1>3. /\ Parse(RpcHeader, header) = h
      /\ h[1] \in Service /\ h[2] \in Method /\ h[3] = Len(args)
  <2> HIDE DEF args
  <2>1. IsMessage(RpcHeader, h)
    BY HeaderFields
  <2>2. h[1] = target[1] /\ h[2] = target[2] /\ h[3] = Len(args)
    BY HeaderFields
  <2> HIDE DEF h
  <2> QED BY <2>1, <2>2, RoundTrip
<1>4. ParseRequest(args) = request
  BY RoundTrip DEF ParseRequest, RequestBytes
<1>5. WellFormed(header) /\ WellFormed(args)
  BY SerializedWellFormed DEF RequestBytes
<1>6. ~(Len(message) < SizeBytes) /\ ~(SizeBytes + n > Len(message))
  BY <1>1 DEF SizeBytes
<1> HIDE DEF message, n, header, args, h
<1>7. Outcomes(message) = {[is |-> "runs", request |-> request]}
  <2>1. Substr(message, SizeBytes, n) = header
    BY <1>1
  <2>2. Substr(message, SizeBytes + n, h[3]) = args
    BY <1>1, <1>3
  <2> QED BY <1>2, <1>3, <1>4, <1>5, <1>6, <2>1, <2>2 DEF Outcomes
<1> QED BY <1>7 DEF message

-----------------------------------------------------------------------------
(* The calls *)

\* A message of a call's request names the caller and the number of its call.
LEMMA RequestIs ==
  ASSUME NEW c
  PROVE  Request(c) = <<c, calls[c]>> /\ IsMessage(LoginRequest, Request(c))
<1>1. Request(c) = <<c, calls[c]>>
  BY DEF Request, SetPwd, SetName, Set, LoginRequest
<1>2. IsMessage(LoginRequest, <<c, calls[c]>>)
  <2> DEFINE m == <<c, calls[c]>>
             S == {c, calls[c]}
             D == {None, 0}
  <2>1. m \in [1 .. 2 -> S] /\ LoginRequest \in [1 .. 2 -> D]
    BY DEF LoginRequest
  <2> HIDE DEF m, S, D
  <2>2. IsMessage(LoginRequest, m)
    BY <2>1 DEF IsMessage, FieldCount
  <2> QED BY <2>2 DEF m
<1> QED BY <1>1, <1>2

\* A package is a sequence, and not an empty one.
LEMMA PackageShape ==
  ASSUME NEW target, NEW request
  PROVE  \E S : Package(target, request) \in Seq(S) /\ Package(target, request) # <<>>
<1> DEFINE message == Package(target, request)
           args == RequestBytes(request)
           n == Len(Serialize(RpcHeader, Header(target, Len(args))))
<1>1. /\ \E S : message \in Seq(S)
      /\ n \in Nat /\ Len(args) \in Nat
      /\ Len(message) = SizeBytes + n + Len(args)
  BY PackageParts
<1> HIDE DEF message, args, n
<1>2. Len(message) # 0
  BY <1>1 DEF SizeBytes
<1> QED BY <1>1, <1>2, EmptySeq DEF message

\* No bytes at all are a response, one no field of which is set.
LEMMA NoResponseParsed ==
  ASSUME NEW response
  PROVE  WellFormed(<<>>) /\ ParseResponse(response, <<>>) = LoginResponse
<1>1. Len(<<>>) = 0
  BY EmptySeq
<1>2. WellFormed(<<>>)
  BY <1>1 DEF WellFormed
<1>3. \A k : At(k, <<>>) = {}
  BY <1>1 DEF At
<1>4. ParseFromString(LoginResponse, response, <<>>) = LoginResponse
  <2>1. MergeFromBytes(LoginResponse, <<>>) = [k \in 1 .. Len(LoginResponse) |-> LoginResponse[k]]
    BY <1>3 DEF MergeFromBytes
  <2>2. [k \in 1 .. Len(LoginResponse) |-> LoginResponse[k]] = LoginResponse
    BY DEF LoginResponse
  <2> QED BY <2>1, <2>2 DEF ParseFromString, Clear
<1> QED BY <1>2, <1>3, <1>4 DEF ParseResponse

\* Setting a field of a message that has two
LEMMA SetPair ==
  \A a, b, v : Set(<<a, b>>, 1, v) = <<v, b>> /\ Set(<<a, b>>, 2, v) = <<a, v>>
<1> SUFFICES ASSUME NEW a, NEW b, NEW v
             PROVE Set(<<a, b>>, 1, v) = <<v, b>> /\ Set(<<a, b>>, 2, v) = <<a, v>>
  OBVIOUS
<1>1. [<<a, b>> EXCEPT ![1] = v] = <<v, b>>
  OBVIOUS
<1>2. [<<a, b>> EXCEPT ![2] = v] = <<a, v>>
  OBVIOUS
<1> QED BY <1>1, <1>2 DEF Set

\* The fields of Login's response
LEMMA AnswerIs ==
  ASSUME NEW request
  PROVE Answer(request) = <<<<0, request>>, TRUE>>
<1>1. SetErrcode(ResultCode, 0) = <<0, None>>
  BY SetPair DEF SetErrcode, ResultCode
<1>2. SetErrmsg(<<0, None>>, request) = <<0, request>>
  BY SetPair DEF SetErrmsg
<1>3. \A code : SetSuccess(SetResult(LoginResponse, code), TRUE) = <<code, TRUE>>
  <2>1. TAKE code
  <2>2. SetResult(LoginResponse, code) = <<code, FALSE>>
    BY SetPair DEF SetResult, LoginResponse
  <2>3. SetSuccess(<<code, FALSE>>, TRUE) = <<code, TRUE>>
    BY SetPair DEF SetSuccess
  <2> QED BY <2>2, <2>3
<1> QED BY <1>1, <1>2, <1>3 DEF Answer

\* The response with the bytes of its result in place of it, or the result in place of the bytes
LEMMA ResultIs ==
  ASSUME NEW code, NEW result
  PROVE  SetResult(<<code, TRUE>>, result) = <<result, TRUE>>
  BY SetPair DEF SetResult

\* Two fields are a message of a type that has two.
LEMMA PairIsMessage ==
  ASSUME NEW a, NEW b, NEW d, NEW e
  PROVE  IsMessage(<<d, e>>, <<a, b>>)
<1> DEFINE S == {a, b}
           D == {d, e}
           m == <<a, b>>
           type == <<d, e>>
<1>1. m \in [1 .. 2 -> S]
  OBVIOUS
<1>2. type \in [1 .. 2 -> D]
  OBVIOUS
<1> HIDE DEF S, D, m, type
<1>3. IsMessage(type, m)
  BY <1>1, <1>2 DEF IsMessage, FieldCount
<1> QED BY <1>3 DEF m, type

\* The bytes of an answer are parsed to that answer, whatever the response was.
LEMMA ResponseParsed ==
  ASSUME \A S : None \notin Seq(S), NEW request, NEW response
  PROVE  LET bytes == ResponseBytes(Answer(request))
         IN  /\ \E S : bytes \in Seq(S)
             /\ WellFormed(bytes)
             /\ ParseResponse(response, bytes) = Answer(request)
<1> DEFINE code == <<0, request>>
           result == ResultBytes(code)
           m == <<result, TRUE>>
           bytes == Serialize(LoginResponse, m)
<1>1. Answer(request) = <<code, TRUE>>
  BY AnswerIs
<1>2. code # None
  <2>1. code \in Seq({0, request})
    OBVIOUS
  <2> HIDE DEF code
  <2> QED BY <2>1
<1>3. result # None
  <2>1. result \in Seq(Units(code))
    BY Shape DEF ResultBytes
  <2> HIDE DEF result, code
  <2> QED BY <2>1
<1>4. ResponseBytes(Answer(request)) = bytes
  <2> HIDE DEF code, result
  <2>1. ResponseBytes(<<code, TRUE>>) = Serialize(LoginResponse, SetResult(<<code, TRUE>>, result))
    BY <1>2 DEF ResponseBytes, result
  <2>2. SetResult(<<code, TRUE>>, result) = m
    BY ResultIs
  <2> QED BY <1>1, <2>1, <2>2
<1>5. IsMessage(ResultCode, code) /\ IsMessage(LoginResponse, m)
  BY ONLY PairIsMessage, Zenon DEF ResultCode, LoginResponse, code, m
<1>6. ParseFromString(LoginResponse, response, bytes) = m
  <2>1. Parse(LoginResponse, bytes) = m
    <3> HIDE DEF m
    <3> QED BY <1>5, RoundTrip
  <2> QED BY <2>1 DEF Parse, ParseFromString
<1>7. ParseResult(result) = code
  <2> HIDE DEF code
  <2> QED BY <1>5, RoundTrip DEF ParseResult, ResultBytes, result
<1>8. /\ \E S : bytes \in Seq(S)
      /\ WellFormed(bytes)
      /\ At(1, bytes) # {}
  <2>1. Written(LoginResponse, m, 1)
    <3> HIDE DEF result
    <3> QED BY <1>3 DEF Written, LoginResponse
  <2> HIDE DEF m
  <2>2. /\ bytes \in Seq(Units(m))
        /\ Pos(LoginResponse, m, 1) \in 1 .. Len(bytes) - 1
        /\ bytes[Pos(LoginResponse, m, 1)] = Tag(1)
    BY <2>1, Shape DEF FieldCount
  <2>3. Len(bytes) \in Nat
    BY <2>2, LenProperties
  <2>4. WellFormed(bytes)
    BY SerializedWellFormed
  <2> DEFINE i == Pos(LoginResponse, m, 1)
  <2> HIDE DEF bytes, i
  <2>5. i \in 1 .. Len(bytes) /\ bytes[i][1] = "tag" /\ bytes[i][2] = 1
    BY <2>2, <2>3 DEF Tag, i
  <2>6. i \in At(1, bytes)
    BY <2>5 DEF At
  <2> QED BY <2>2, <2>4, <2>6
<1>9. ParseResponse(response, bytes) = <<code, TRUE>>
  <2>1. m[1] = result
    OBVIOUS
  <2>2. SetResult(m, code) = <<code, TRUE>>
    <3> HIDE DEF code, result
    <3> QED BY ResultIs DEF m
  <2> HIDE DEF bytes, m
  <2> QED BY <1>6, <1>7, <1>8, <2>1, <2>2 DEF ParseResponse
<1> HIDE DEF bytes, code
<1> QED BY <1>1, <1>4, <1>8, <1>9

-----------------------------------------------------------------------------
(* Callers whose bytes arrive in one piece, each on a channel of its own *)

Response(c, n) == ResponseBytes(Answer(<<c, n>>))

\* k is a connection with these bytes on the way to and from the provider.
Conn(k, out, in, fin) ==
  DOMAIN k = {"to", "out", "in", "fin"} /\ k.out = out /\ k.in = in /\ k.fin = fin

\* What is on the way on the connection of caller c in its call number n, and in
\* result_: the package of the call, or no answer, or its own.
Exchange(c, n, target, k, r) ==
  \/ Conn(k, Package(target, <<c, n>>), <<>>, FALSE) /\ r = <<>>
  \/ \E bytes \in {<<>>, Response(c, n)} :
       \/ Conn(k, <<>>, bytes, TRUE) /\ r = <<>>
       \/ Conn(k, <<>>, <<>>, TRUE) /\ r = bytes

\* Caller c in its call number n, at p, with its method, connection, result_ and outcome
Fine(c, n, p, target, k, r, o) ==
  /\ n \in Nat /\ p \in {"idle", "lookup", "connecting", "up"} /\ (p # "idle" => n # 0)
  /\ p # "up" => Conn(k, <<>>, <<>>, FALSE)
  /\ p \in {"lookup", "connecting"} => r = <<>>
  /\ p \in {"connecting", "up"} => target[1] \in Service /\ target[2] \in Method
  /\ p = "up" => Exchange(c, n, target, k, r)
  /\ p = "idle" /\ n # 0 /\ ~o.failed => o.response \in {LoginResponse, Answer(<<c, n>>)}

CallersInv ==
  /\ calls = [c \in Caller |-> calls[c]] /\ pc = [c \in Caller |-> pc[c]]
  /\ method = [c \in Caller |-> method[c]] /\ conn = [c \in Caller |-> conn[c]]
  /\ result_ = [c \in Caller |-> result_[c]] /\ outcome = [c \in Caller |-> outcome[c]]
  /\ \A c \in Caller : Fine(c, calls[c], pc[c], method[c], conn[c], result_[c], outcome[c])

\* Whether the method may still be run for the last call of c
Pending(c) == pc[c] \in {"lookup", "connecting"} \/ conn[c].out # <<>>

\* A call the method may still be run for is not among those it was run for.
RanInv ==
  /\ ran \in Seq(Caller \X Nat)
  /\ \A i \in 1 .. Len(ran) :
       /\ ran[i][2] \in 1 .. calls[ran[i][1]]
       /\ Pending(ran[i][1]) => ran[i][2] # calls[ran[i][1]]
  /\ \A i, j \in 1 .. Len(ran) : ran[i] = ran[j] => i = j

CallInv == IInv /\ CallersInv /\ RanInv

\* What SubSeq takes when a read finds all the bytes
LEMMA SequenceEnds ==
  ASSUME NEW S, NEW s \in Seq(S)
  PROVE  /\ SubSeq(s, 1, Len(s)) = s
         /\ SubSeq(s, Len(s) + 1, Len(s)) = <<>>
         /\ <<>> \o s = s
  BY LenProperties, EmptySeq

\* The first state
LEMMA InitCallInv == Init => CallInv
<1> SUFFICES ASSUME Init
             PROVE  CallersInv /\ RanInv
  BY InitIInv DEF CallInv
<1>1. CallersInv
  BY DEF Init, CallersInv, Fine, NoConn, Conn
<1>2. RanInv
  BY EmptySeq DEF Init, RanInv
<1> QED BY <1>1, <1>2

\* A step of one caller, or of the provider on its connection
LEMMA CallerMoves ==
  ASSUME CallersInv, NEW c \in Caller,
         NEW n, NEW p, NEW t, NEW k, NEW r, NEW o, Fine(c, n, p, t, k, r, o),
         calls' = [calls EXCEPT ![c] = n], pc' = [pc EXCEPT ![c] = p],
         method' = [method EXCEPT ![c] = t], conn' = [conn EXCEPT ![c] = k],
         result_' = [result_ EXCEPT ![c] = r], outcome' = [outcome EXCEPT ![c] = o]
  PROVE  CallersInv'
<1>1. /\ calls' = [d \in Caller |-> IF d = c THEN n ELSE calls[d]]
      /\ pc' = [d \in Caller |-> IF d = c THEN p ELSE pc[d]]
      /\ method' = [d \in Caller |-> IF d = c THEN t ELSE method[d]]
      /\ conn' = [d \in Caller |-> IF d = c THEN k ELSE conn[d]]
      /\ result_' = [d \in Caller |-> IF d = c THEN r ELSE result_[d]]
      /\ outcome' = [d \in Caller |-> IF d = c THEN o ELSE outcome[d]]
  BY DEF CallersInv
<1>2. ASSUME NEW d \in Caller
      PROVE  Fine(d, calls'[d], pc'[d], method'[d], conn'[d], result_'[d], outcome'[d])
  <2>1. CASE d = c
    BY <1>1, <2>1
  <2>2. CASE d # c
    <3>1. Fine(d, calls[d], pc[d], method[d], conn[d], result_[d], outcome[d])
      BY DEF CallersInv
    <3> QED BY <1>1, <2>2, <3>1
  <2> QED BY <2>1, <2>2
<1>3. /\ calls' = [d \in Caller |-> calls'[d]] /\ pc' = [d \in Caller |-> pc'[d]]
      /\ method' = [d \in Caller |-> method'[d]] /\ conn' = [d \in Caller |-> conn'[d]]
      /\ result_' = [d \in Caller |-> result_'[d]] /\ outcome' = [d \in Caller |-> outcome'[d]]
  BY <1>1
<1> QED BY <1>2, <1>3 DEF CallersInv

\* No step but the method's makes a call one the method was run for.
LEMMA RanKeeps ==
  ASSUME RanInv, UNCHANGED ran,
         \A c \in Caller : /\ calls[c] \in Nat /\ calls'[c] \in Nat /\ calls[c] <= calls'[c]
                           /\ Pending(c)' => Pending(c) \/ calls[c] < calls'[c]
  PROVE  RanInv'
<1>1. ASSUME NEW i \in 1 .. Len(ran)
      PROVE  /\ ran[i][2] \in 1 .. calls'[ran[i][1]]
             /\ Pending(ran[i][1])' => ran[i][2] # calls'[ran[i][1]]
  <2>1. ran[i][1] \in Caller /\ ran[i][2] \in Nat
    BY DEF RanInv
  <2> DEFINE c == ran[i][1]
             n == ran[i][2]
  <2>2. n \in 1 .. calls[c] /\ (Pending(c) => n # calls[c])
    BY DEF RanInv
  <2> HIDE DEF c, n
  <2>3. c \in Caller /\ n \in Nat
    BY <2>1 DEF c, n
  <2> QED BY <2>2, <2>3 DEF c, n
<1> QED BY <1>1 DEF RanInv

\* The parts of CallersInv for one caller
LEMMA CallerIs ==
  ASSUME CallersInv, NEW c \in Caller
  PROVE  /\ Fine(c, calls[c], pc[c], method[c], conn[c], result_[c], outcome[c])
         /\ calls = [calls EXCEPT ![c] = calls[c]] /\ pc = [pc EXCEPT ![c] = pc[c]]
         /\ method = [method EXCEPT ![c] = method[c]] /\ conn = [conn EXCEPT ![c] = conn[c]]
         /\ result_ = [result_ EXCEPT ![c] = result_[c]]
         /\ outcome = [outcome EXCEPT ![c] = outcome[c]]
<1>1. /\ DOMAIN calls = Caller /\ DOMAIN pc = Caller /\ DOMAIN method = Caller
      /\ DOMAIN conn = Caller /\ DOMAIN result_ = Caller /\ DOMAIN outcome = Caller
  BY DEF CallersInv
<1> QED BY <1>1 DEF CallersInv

\* CallMethod begins a call, on a new channel.
LEMMA CallMethodKeeps ==
  ASSUME NewChannel = TRUE, CallersInv, NEW c \in Caller, NEW target, CallMethod(c, target)
  PROVE  CallersInv'
<1>1. Fine(c, calls[c], "idle", method[c], conn[c], result_[c], outcome[c])
  BY CallerIs DEF CallMethod
<1>2. Fine(c, calls[c] + 1, "lookup", target, conn[c], <<>>, outcome[c])
  <2> DEFINE n == calls[c] + 1
  <2>1. n \in Nat /\ n # 0 /\ Conn(conn[c], <<>>, <<>>, FALSE)
    <3>1. calls[c] \in Nat /\ Conn(conn[c], <<>>, <<>>, FALSE)
      BY <1>1 DEF Fine
    <3>2. n \in Nat /\ n # 0
      BY <3>1
    <3> QED BY <3>1, <3>2
  <2> HIDE DEF n
  <2>2. Fine(c, n, "lookup", target, conn[c], <<>>, outcome[c])
    BY <2>1 DEF Fine
  <2> QED BY <2>2 DEF n
<1>3. /\ calls' = [calls EXCEPT ![c] = calls[c] + 1] /\ pc' = [pc EXCEPT ![c] = "lookup"]
      /\ method' = [method EXCEPT ![c] = target] /\ result_' = [result_ EXCEPT ![c] = <<>>]
      /\ conn' = conn /\ outcome' = outcome
  BY DEF CallMethod
<1>4. conn = [conn EXCEPT ![c] = conn[c]] /\ outcome = [outcome EXCEPT ![c] = outcome[c]]
  BY CallerIs
<1> QED BY <1>2, <1>3, <1>4, CallerMoves

\* The method whose znode holds an address is one of a service that is published.
LEMMA LookupKeeps ==
  ASSUME IInv, CallersInv, NEW c \in Caller, Lookup(c)
  PROVE  CallersInv'
<1>1. Fine(c, calls[c], "lookup", method[c], conn[c], result_[c], outcome[c])
  BY CallerIs DEF Lookup
<1>2. /\ calls' = [calls EXCEPT ![c] = calls[c]] /\ method' = [method EXCEPT ![c] = method[c]]
      /\ result_' = [result_ EXCEPT ![c] = result_[c]]
  BY CallerIs DEF Lookup
<1>3. CASE GetData(method[c]) = {} /\ Return(c, TRUE, outcome[c].response) /\ UNCHANGED conn
  <2> DEFINE o == [failed |-> TRUE, response |-> outcome[c].response]
  <2>1. Fine(c, calls[c], "idle", method[c], conn[c], result_[c], o)
    BY <1>1 DEF Fine
  <2>2. /\ pc' = [pc EXCEPT ![c] = "idle"] /\ outcome' = [outcome EXCEPT ![c] = o]
        /\ conn' = [conn EXCEPT ![c] = conn[c]]
    BY <1>3, CallerIs DEF Return
  <2> HIDE DEF o
  <2> QED BY <1>2, <2>1, <2>2, CallerMoves
<1>4. ASSUME NEW p \in GetData(method[c]),
             pc' = [pc EXCEPT ![c] = "connecting"],
             conn' = [conn EXCEPT ![c] = [NoConn EXCEPT !.to = p]],
             UNCHANGED outcome
      PROVE  CallersInv'
  <2> DEFINE k == [NoConn EXCEPT !.to = p]
  <2>1. Conn(k, <<>>, <<>>, FALSE)
    BY DEF Conn, NoConn
  <2>2. method[c][1] \in Service /\ method[c][2] \in Method
    <3>1. \E n \in znodes : n.path = method[c] /\ n.data # {}
      BY DEF GetData
    <3> QED BY <3>1 DEF IInv, PathInv
  <2>3. Fine(c, calls[c], "connecting", method[c], k, result_[c], outcome[c])
    <3> HIDE DEF k
    <3> QED BY <1>1, <2>1, <2>2 DEF Fine
  <2>4. conn' = [conn EXCEPT ![c] = k] /\ outcome' = [outcome EXCEPT ![c] = outcome[c]]
    BY <1>4, CallerIs
  <2> HIDE DEF k
  <2> QED BY <1>2, <1>4, <2>3, <2>4, CallerMoves
<1> QED BY <1>3, <1>4 DEF Lookup

\* The package is sent, and nothing else is on the way.
LEMMA ConnectKeeps ==
  ASSUME CallersInv, NEW c \in Caller, Connect(c)
  PROVE  CallersInv'
<1>1. Fine(c, calls[c], "connecting", method[c], conn[c], result_[c], outcome[c])
  BY CallerIs DEF Connect
<1>2. /\ calls' = [calls EXCEPT ![c] = calls[c]] /\ method' = [method EXCEPT ![c] = method[c]]
      /\ result_' = [result_ EXCEPT ![c] = result_[c]]
      /\ outcome' = [outcome EXCEPT ![c] = outcome[c]]
      /\ pc' = [pc EXCEPT ![c] = "up"]
  BY CallerIs DEF Connect
<1> DEFINE bytes == Package(method[c], <<c, calls[c]>>)
           k == [conn[c] EXCEPT !.out = bytes]
<1>3. conn' = [conn EXCEPT ![c] = k]
  <2>1. Request(c) = <<c, calls[c]>>
    BY RequestIs
  <2> QED BY <2>1 DEF Connect
<1>4. Fine(c, calls[c], "up", method[c], k, result_[c], outcome[c])
  <2>1. Conn(k, bytes, <<>>, FALSE)
    <3> HIDE DEF bytes
    <3> QED BY <1>1 DEF Fine, Conn
  <2> HIDE DEF k
  <2>2. Exchange(c, calls[c], method[c], k, result_[c])
    BY <1>1, <2>1 DEF Exchange, Fine
  <2> QED BY <1>1, <2>2 DEF Fine
<1> HIDE DEF k
<1> QED BY <1>2, <1>3, <1>4, CallerMoves

\* What the answer to a call comes to
LEMMA ResponseFacts ==
  ASSUME \A S : None \notin Seq(S), NEW c, NEW n
  PROVE  /\ \E S : Response(c, n) \in Seq(S)
         /\ WellFormed(Response(c, n))
         /\ \A response : ParseResponse(response, Response(c, n)) = Answer(<<c, n>>)
  BY ResponseParsed DEF Response

\* result_ takes the answer whole.
LEMMA OnMessageKeeps ==
  ASSUME \A S : None \notin Seq(S), Pieces = FALSE, CallersInv, NEW c \in Caller, OnMessage(c)
  PROVE  CallersInv'
<1>1. Fine(c, calls[c], "up", method[c], conn[c], result_[c], outcome[c])
  BY CallerIs DEF OnMessage
<1>2. /\ calls' = [calls EXCEPT ![c] = calls[c]] /\ method' = [method EXCEPT ![c] = method[c]]
      /\ outcome' = [outcome EXCEPT ![c] = outcome[c]]
      /\ pc' = [pc EXCEPT ![c] = pc[c]] /\ pc[c] = "up"
  BY CallerIs DEF OnMessage
<1> DEFINE bytes == Response(c, calls[c])
           k == [conn[c] EXCEPT !.in = <<>>]
<1>3. Conn(conn[c], <<>>, bytes, TRUE)
  <2>1. conn[c].in # <<>> /\ Exchange(c, calls[c], method[c], conn[c], result_[c])
    BY <1>1 DEF OnMessage, Fine
  <2> HIDE DEF bytes
  <2> QED BY <2>1 DEF Exchange, Conn, bytes
<1>4. result_' = [result_ EXCEPT ![c] = bytes] /\ conn' = [conn EXCEPT ![c] = k]
  <2>1. PICK S : bytes \in Seq(S)
    BY ResponseFacts
  <2> HIDE DEF bytes
  <2>2. /\ result_' = [result_ EXCEPT ![c] = SubSeq(bytes, 1, Len(bytes))]
        /\ conn' = [conn EXCEPT ![c] =
                      [conn[c] EXCEPT !.in = SubSeq(bytes, Len(bytes) + 1, Len(bytes))]]
    <3>1. conn[c].in = bytes
      BY <1>3 DEF Conn
    <3> QED BY <3>1 DEF OnMessage, Arrived
  <2>3. SubSeq(bytes, 1, Len(bytes)) = bytes /\ SubSeq(bytes, Len(bytes) + 1, Len(bytes)) = <<>>
    BY <2>1, SequenceEnds
  <2> QED BY <2>2, <2>3
<1>5. Fine(c, calls[c], "up", method[c], k, bytes, outcome[c])
  <2>1. Conn(k, <<>>, <<>>, TRUE)
    <3> HIDE DEF bytes
    <3> QED BY <1>3 DEF Conn
  <2> HIDE DEF k
  <2>2. Exchange(c, calls[c], method[c], k, bytes)
    BY <2>1 DEF Exchange
  <2> HIDE DEF bytes
  <2> QED BY <1>1, <2>2 DEF Fine
<1> HIDE DEF k, bytes
<1> QED BY <1>2, <1>4, <1>5, CallerMoves

\* At the end of the connection result_ is the answer, or empty, and is parsed.
LEMMA DownKeeps ==
  ASSUME \A S : None \notin Seq(S), CallersInv, NEW c \in Caller, OnConnectionDown(c)
  PROVE  CallersInv'
<1>1. Fine(c, calls[c], "up", method[c], conn[c], result_[c], outcome[c])
  BY CallerIs DEF OnConnectionDown
<1> DEFINE n == calls[c]
           k == [NoConn EXCEPT !.to = conn[c].to]
           o == [failed |-> FALSE, response |-> Parsed(c)]
<1>2. result_[c] \in {<<>>, Response(c, n)}
  BY <1>1 DEF Fine, Exchange, OnConnectionDown, Conn
<1>3. WellFormed(result_[c]) /\ Parsed(c) \in {LoginResponse, Answer(<<c, n>>)}
  <2>1. CASE result_[c] = <<>>
    BY <2>1, NoResponseParsed DEF Parsed
  <2>2. CASE result_[c] = Response(c, n)
    BY <2>2, ResponseFacts DEF Parsed
  <2> QED BY <1>2, <2>1, <2>2
<1>4. /\ pc' = [pc EXCEPT ![c] = "idle"] /\ outcome' = [outcome EXCEPT ![c] = o]
      /\ conn' = [conn EXCEPT ![c] = k]
      /\ calls' = [calls EXCEPT ![c] = n] /\ method' = [method EXCEPT ![c] = method[c]]
      /\ result_' = [result_ EXCEPT ![c] = result_[c]]
  BY <1>3, CallerIs DEF OnConnectionDown, Closed, Return
<1>5. Fine(c, n, "idle", method[c], k, result_[c], o)
  <2>1. Conn(k, <<>>, <<>>, FALSE)
    BY DEF Conn, NoConn
  <2>2. n \in Nat /\ o.response \in {LoginResponse, Answer(<<c, n>>)}
    BY <1>1, <1>3 DEF Fine
  <2> HIDE DEF k, n, o
  <2> QED BY <2>1, <2>2 DEF Fine
<1> HIDE DEF k, n, o
<1> QED BY <1>4, <1>5, CallerMoves

\* The provider's onMessage, of the whole package: the method runs with the request
\* of the call, and the answer is on the way.
LEMMA ProviderRuns ==
  ASSUME \A S : None \notin Seq(S), Pieces = FALSE, CallersInv,
         NEW c \in Caller, ProviderOnMessage(c)
  PROVE  /\ UNCHANGED registryVars
         /\ ran' = Append(ran, <<c, calls[c]>>)
         /\ \E k : conn' = [conn EXCEPT ![c] = k] /\ Conn(k, <<>>, Response(c, calls[c]), TRUE)
         /\ Conn(conn[c], Package(method[c], <<c, calls[c]>>), <<>>, FALSE)
         /\ result_[c] = <<>>
<1> DEFINE request == <<c, calls[c]>>
           package == Package(method[c], request)
<1>1. Fine(c, calls[c], "up", method[c], conn[c], result_[c], outcome[c])
  BY CallerIs DEF ProviderOnMessage
<1>2. Conn(conn[c], package, <<>>, FALSE) /\ result_[c] = <<>>
  <2>1. conn[c].out # <<>> /\ Exchange(c, calls[c], method[c], conn[c], result_[c])
    BY <1>1 DEF ProviderOnMessage, Fine
  <2> HIDE DEF package
  <2> QED BY <2>1 DEF Exchange, Conn, package
<1>3. Outcomes(package) = {[is |-> "runs", request |-> request]}
  <2>1. method[c][1] \in Service /\ method[c][2] \in Method
    BY <1>1 DEF Fine
  <2>2. IsMessage(LoginRequest, request)
    BY RequestIs
  <2> HIDE DEF request
  <2> QED BY <2>1, <2>2, PackageUnderstood
<1>4. PICK S : package \in Seq(S)
  BY PackageShape
<1>5. /\ SubSeq(package, 1, Len(package)) = package
      /\ SubSeq(package, Len(package) + 1, Len(package)) = <<>>
  <2> HIDE DEF package
  <2> QED BY <1>4, SequenceEnds
<1>6. <<>> \o Response(c, calls[c]) = Response(c, calls[c])
  <2> DEFINE bytes == Response(c, calls[c])
  <2>1. PICK T : bytes \in Seq(T)
    BY ResponseFacts
  <2> HIDE DEF bytes
  <2>2. <<>> \o bytes = bytes
    BY <2>1, SequenceEnds
  <2> QED BY <2>2 DEF bytes
<1> HIDE DEF package, request
<1>7. conn[c].out = package /\ conn[c].in = <<>> /\ conn[c].fin = FALSE
  BY <1>2 DEF Conn
<1> DEFINE rest == [conn EXCEPT ![c].out = <<>>]
           o == [is |-> "runs", request |-> request]
<1>8. Handled(c, rest, o)
  <2>1. \E m \in {o} :
          Handled(c, [conn EXCEPT ![c].out = SubSeq(package, Len(package) + 1, Len(package))], m)
    <3>1. \E m \in Outcomes(SubSeq(package, 1, Len(package))) :
            Handled(c, [conn EXCEPT ![c].out = SubSeq(package, Len(package) + 1, Len(package))], m)
      BY <1>7 DEF ProviderOnMessage, Arrived
    <3> QED BY <1>3, <1>5, <3>1
  <2> QED BY <1>5, <2>1
<1>9. /\ UNCHANGED registryVars
      /\ ran' = Append(ran, request)
      /\ conn' = [rest EXCEPT ![c].in = rest[c].in \o ResponseBytes(Answer(request)),
                             ![c].fin = TRUE]
  <2>1. o.is = "runs" /\ o.request = request
    OBVIOUS
  <2> HIDE DEF rest, o
  <2> QED BY <1>7, <1>8, <2>1 DEF Handled, End
<1>10. \E k : conn' = [conn EXCEPT ![c] = k] /\ Conn(k, <<>>, Response(c, calls[c]), TRUE)
  <2> DEFINE bytes == Response(c, calls[c])
             k1 == [conn[c] EXCEPT !.out = <<>>]
             k2 == [k1 EXCEPT !.in = bytes]
             k3 == [k2 EXCEPT !.fin = TRUE]
  <2>1. k1.in \o ResponseBytes(Answer(request)) = bytes
    <3>1. k1.in = <<>>
      BY <1>2 DEF Conn
    <3>2. ResponseBytes(Answer(request)) = bytes
      BY DEF Response, request
    <3> HIDE DEF k1
    <3> QED BY <1>6, <3>1, <3>2
  <2>2. DOMAIN conn = Caller
    BY DEF CallersInv
  <2>3. rest = [conn EXCEPT ![c] = k1] /\ rest[c] = k1
    <3>1. rest = [conn EXCEPT ![c] = k1]
      OBVIOUS
    <3> HIDE DEF rest, k1
    <3> QED BY <2>2, <3>1
  <2>4. Conn(k3, <<>>, bytes, TRUE)
    <3> HIDE DEF bytes
    <3> QED BY <1>2 DEF Conn
  <2>5. conn' = [[rest EXCEPT ![c] = [rest[c] EXCEPT !.in = bytes]] EXCEPT
                   ![c] = [[rest EXCEPT ![c] = [rest[c] EXCEPT !.in = bytes]][c]
                             EXCEPT !.fin = TRUE]]
    <3>1. rest[c].in \o ResponseBytes(Answer(request)) = bytes
      BY <2>1, <2>3
    <3> HIDE DEF rest, bytes
    <3> QED BY <1>9, <3>1
  <2>6. conn' = [conn EXCEPT ![c] = k3]
    <3> DEFINE f == [rest EXCEPT ![c] = k2]
    <3>1. conn' = [f EXCEPT ![c] = [f[c] EXCEPT !.fin = TRUE]]
      BY <2>3, <2>5
    <3> HIDE DEF rest, k1, k2
    <3>2. f[c] = k2 /\ DOMAIN f = Caller /\ \A d \in Caller : d # c => f[d] = conn[d]
      BY <2>2, <2>3
    <3> HIDE DEF f
    <3>3. conn' = [f EXCEPT ![c] = k3]
      BY <3>1, <3>2
    <3> HIDE DEF k3
    <3> QED BY <2>2, <3>2, <3>3
  <2> QED BY <2>4, <2>6
<1> QED BY <1>2, <1>9, <1>10 DEF package, request

\* The answer, and the end of the connection after it, take the place of the package.
LEMMA ProviderKeeps ==
  ASSUME \A S : None \notin Seq(S), Pieces = FALSE, CallersInv,
         NEW c \in Caller, ProviderOnMessage(c)
  PROVE  CallersInv'
<1>1. Fine(c, calls[c], "up", method[c], conn[c], result_[c], outcome[c])
  BY CallerIs DEF ProviderOnMessage
<1>2. PICK k : conn' = [conn EXCEPT ![c] = k] /\ Conn(k, <<>>, Response(c, calls[c]), TRUE)
  BY ProviderRuns
<1>3. result_[c] = <<>>
  BY ProviderRuns
<1>4. Fine(c, calls[c], "up", method[c], k, result_[c], outcome[c])
  <2>1. Exchange(c, calls[c], method[c], k, result_[c])
    BY <1>2, <1>3 DEF Exchange
  <2> QED BY <1>1, <2>1 DEF Fine
<1>5. /\ calls' = [calls EXCEPT ![c] = calls[c]] /\ method' = [method EXCEPT ![c] = method[c]]
      /\ result_' = [result_ EXCEPT ![c] = result_[c]]
      /\ outcome' = [outcome EXCEPT ![c] = outcome[c]]
      /\ pc' = [pc EXCEPT ![c] = "up"]
  BY CallerIs DEF ProviderOnMessage
<1> QED BY <1>2, <1>4, <1>5, CallerMoves

\* A provider that dies leaves each of its callers the end of the connection, and
\* before it what had been sent, or nothing.
LEMMA CrashKeeps ==
  ASSUME CallersInv, RanInv, NEW p, NEW lost \in BOOLEAN, conn' = Reset(p, lost),
         UNCHANGED <<calls, pc, method, result_, outcome, ran>>
  PROVE  CallersInv' /\ RanInv'
<1>1. ASSUME NEW c \in Caller
      PROVE  /\ Fine(c, calls[c], pc[c], method[c], conn'[c], result_[c], outcome[c])
             /\ conn'[c].out \in {<<>>, conn[c].out}
  <2> DEFINE k == conn[c]
             r == [k EXCEPT !.out = <<>>, !.in = IF lost THEN <<>> ELSE @, !.fin = TRUE]
  <2>0. Fine(c, calls[c], pc[c], method[c], k, result_[c], outcome[c])
    BY CallerIs
  <2>1. CASE k.to # p \/ pc[c] # "up"
    <3>1. conn'[c] = k
      BY <2>1 DEF Reset
    <3> QED BY <2>0, <3>1
  <2>2. CASE ~(k.to # p \/ pc[c] # "up")
    <3>1. conn'[c] = r
      BY <2>2 DEF Reset
    <3> HIDE DEF k
    <3>2. ASSUME NEW out, NEW in, NEW fin, Conn(k, out, in, fin)
          PROVE  Conn(r, <<>>, IF lost THEN <<>> ELSE in, TRUE)
      BY <3>2 DEF Conn
    <3>3. Exchange(c, calls[c], method[c], k, result_[c])
      BY <2>0, <2>2 DEF Fine, k
    <3> HIDE DEF r
    <3>4. Exchange(c, calls[c], method[c], r, result_[c])
      <4> DEFINE package == Package(method[c], <<c, calls[c]>>)
                 answer == Response(c, calls[c])
      <4>1. CASE Conn(k, package, <<>>, FALSE) /\ result_[c] = <<>>
        <5>1. Conn(r, <<>>, <<>>, TRUE)
          BY <3>2, <4>1
        <5> QED BY <4>1, <5>1 DEF Exchange
      <4>2. ASSUME NEW bytes \in {<<>>, answer},
                   \/ Conn(k, <<>>, bytes, TRUE) /\ result_[c] = <<>>
                   \/ Conn(k, <<>>, <<>>, TRUE) /\ result_[c] = bytes
            PROVE  Exchange(c, calls[c], method[c], r, result_[c])
        <5>1. CASE Conn(k, <<>>, bytes, TRUE) /\ result_[c] = <<>>
          <6>1. Conn(r, <<>>, IF lost THEN <<>> ELSE bytes, TRUE)
            BY <3>2, <5>1
          <6> QED BY <5>1, <6>1 DEF Exchange
        <5>2. CASE Conn(k, <<>>, <<>>, TRUE) /\ result_[c] = bytes
          <6>1. Conn(r, <<>>, <<>>, TRUE)
            BY <3>2, <5>2
          <6> QED BY <5>2, <6>1 DEF Exchange
        <5> QED BY <4>2, <5>1, <5>2
      <4> QED BY <3>3, <4>1, <4>2 DEF Exchange
    <3>5. r.out = <<>>
      BY DEF r, k
    <3>6. Fine(c, calls[c], pc[c], method[c], r, result_[c], outcome[c])
      BY <2>0, <2>2, <3>4 DEF Fine
    <3> QED BY <3>1, <3>5, <3>6
  <2> QED BY <2>1, <2>2
<1>2. CallersInv'
  <2>1. conn' = [c \in Caller |-> conn'[c]]
    BY DEF Reset
  <2> QED BY <1>1, <2>1 DEF CallersInv
<1>3. RanInv'
  <2>1. ASSUME NEW c \in Caller
        PROVE  /\ calls[c] \in Nat /\ calls'[c] \in Nat /\ calls[c] <= calls'[c]
               /\ Pending(c)' => Pending(c) \/ calls[c] < calls'[c]
    <3>1. calls[c] \in Nat
      BY DEF CallersInv, Fine
    <3>2. Pending(c)' => Pending(c)
      BY <1>1 DEF Pending
    <3> QED BY <3>1, <3>2
  <2> QED BY <2>1, RanKeeps
<1> QED BY <1>2, <1>3

\* The steps of a caller run no method; the call that CallMethod begins is a new one.
LEMMA CallerKeepsRan ==
  ASSUME CallersInv, CallersInv', RanInv, NEW c \in Caller, CallerNext(c)
  PROVE  RanInv'
<1>1. UNCHANGED ran
  BY DEF CallerNext, CallMethod, Lookup, Connect, OnMessage, OnConnectionDown
<1>2. \A d \in Caller : calls[d] \in Nat /\ calls'[d] \in Nat
  BY DEF CallersInv, Fine
<1>3. \A d \in Caller : d # c => calls'[d] = calls[d] /\ pc'[d] = pc[d] /\ conn'[d] = conn[d]
  BY DEF CallersInv, CallerNext, CallMethod, Lookup, Connect, OnMessage, OnConnectionDown, Return,
         Closed
<1>4. /\ calls[c] <= calls'[c]
      /\ Pending(c)' => Pending(c) \/ calls[c] < calls'[c]
  <2>1. CASE \E target \in Asked : CallMethod(c, target)
    <3>1. calls'[c] = calls[c] + 1
      BY <2>1 DEF CallMethod, CallersInv
    <3> QED BY <1>2, <3>1
  <2>2. CASE UNCHANGED calls /\ Pending(c)
    BY <1>2, <2>2
  <2>3. CASE Lookup(c) \/ Connect(c)
    <3>1. pc[c] \in {"lookup", "connecting"} /\ UNCHANGED calls
      BY <2>3 DEF Lookup, Connect
    <3> QED BY <2>2, <3>1 DEF Pending
  <2>4. CASE OnMessage(c)
    <3>1. conn'[c].out = conn[c].out /\ pc' = pc /\ UNCHANGED calls
      <4>1. DOMAIN conn = Caller
        BY DEF CallersInv
      <4>2. \E v : conn' = [conn EXCEPT ![c].in = v]
        BY <2>4 DEF OnMessage
      <4> QED BY <2>4, <4>1, <4>2 DEF OnMessage
    <3> QED BY <1>2, <3>1 DEF Pending
  <2>5. CASE OnConnectionDown(c)
    <3>1. UNCHANGED calls
      BY <2>5 DEF OnConnectionDown
    <3>2. conn'[c].out = <<>>
      <4>1. DOMAIN conn = Caller
        BY DEF CallersInv
      <4> QED BY <2>5, <4>1 DEF OnConnectionDown, NoConn
    <3>3. pc'[c] = "idle"
      <4>1. DOMAIN pc = Caller
        BY DEF CallersInv
      <4>2. pc' = [pc EXCEPT ![c] = "idle"]
        BY <2>5 DEF OnConnectionDown, Closed, Return
      <4> QED BY <4>1, <4>2
    <3> QED BY <1>2, <3>1, <3>2, <3>3 DEF Pending
  <2> QED BY <2>1, <2>3, <2>4, <2>5 DEF CallerNext
<1>5. ASSUME NEW d \in Caller
      PROVE  /\ calls[d] \in Nat /\ calls'[d] \in Nat /\ calls[d] <= calls'[d]
             /\ Pending(d)' => Pending(d) \/ calls[d] < calls'[d]
  BY <1>2, <1>3, <1>4 DEF Pending
<1> QED BY <1>1, <1>5, RanKeeps

\* The method runs for a call it has not been run for, which is no longer pending.
LEMMA ProviderKeepsRan ==
  ASSUME \A S : None \notin Seq(S), Pieces = FALSE, CallersInv, RanInv,
         NEW c \in Caller, ProviderOnMessage(c)
  PROVE  RanInv'
<1> DEFINE call == <<c, calls[c]>>
<1>1. ran' = Append(ran, call) /\ UNCHANGED calls /\ UNCHANGED pc
  BY ProviderRuns DEF ProviderOnMessage
<1>2. ran \in Seq(Caller \X Nat) /\ Len(ran) \in Nat
  BY LenProperties DEF RanInv
<1>3. pc[c] = "up" /\ calls[c] \in Nat /\ calls[c] # 0 /\ Pending(c)
  BY DEF ProviderOnMessage, CallersInv, Fine, Pending
<1>4. call \in Caller \X Nat /\ call[1] = c /\ call[2] = calls[c]
  BY <1>3
<1>5. /\ ~Pending(c)'
      /\ \A d \in Caller : d # c => (Pending(d)' <=> Pending(d))
  <2>1. PICK k : conn' = [conn EXCEPT ![c] = k] /\ Conn(k, <<>>, Response(c, calls[c]), TRUE)
    BY ProviderRuns
  <2>2. DOMAIN conn = Caller
    BY DEF CallersInv
  <2>3. conn'[c].out = <<>> /\ \A d \in Caller : d # c => conn'[d] = conn[d]
    BY <2>1, <2>2 DEF Conn
  <2> QED BY <1>1, <1>3, <2>3 DEF Pending
<1>6. \A i \in 1 .. Len(ran) : ran[i] # call /\ ran[i][1] \in Caller
  BY <1>2, <1>3, <1>4 DEF RanInv
<1> HIDE DEF call
<1>7. /\ ran' \in Seq(Caller \X Nat) /\ Len(ran') = Len(ran) + 1
      /\ \A i \in 1 .. Len(ran) : ran'[i] = ran[i]
      /\ ran'[Len(ran) + 1] = call
  BY <1>1, <1>2, <1>4, AppendProperties
<1>8. ASSUME NEW v, v = call \/ \E i \in 1 .. Len(ran) : v = ran[i]
      PROVE  v[2] \in 1 .. calls'[v[1]] /\ (Pending(v[1])' => v[2] # calls'[v[1]])
  <2>1. CASE v = call
    <3>1. v[1] = c /\ v[2] = calls[c] /\ calls[c] \in 1 .. calls[c]
      BY <1>3, <1>4, <2>1
    <3>2. ~Pending(v[1])'
      BY <1>5, <3>1 DEF Pending
    <3> QED BY <1>1, <3>1, <3>2
  <2>2. CASE \E i \in 1 .. Len(ran) : v = ran[i]
    <3>1. v[1] \in Caller /\ v[2] \in 1 .. calls[v[1]] /\ (Pending(v[1]) => v[2] # calls[v[1]])
      BY <1>6, <2>2 DEF RanInv
    <3>2. Pending(v[1])' => Pending(v[1])
      BY <1>5, <3>1 DEF Pending
    <3> QED BY <1>1, <3>1, <3>2
  <2> QED BY <1>8, <2>1, <2>2
<1>9. ASSUME NEW i \in 1 .. Len(ran')
      PROVE  ran'[i] = call \/ \E j \in 1 .. Len(ran) : ran'[i] = ran[j]
  <2>1. i = Len(ran) + 1 \/ i \in 1 .. Len(ran)
    BY <1>2, <1>7
  <2> QED BY <1>7, <2>1
<1>10. \A i \in 1 .. Len(ran') :
         /\ ran'[i][2] \in 1 .. calls'[ran'[i][1]]
         /\ pc'[ran'[i][1]] \in {"lookup", "connecting"} \/ conn'[ran'[i][1]].out # <<>>
              => ran'[i][2] # calls'[ran'[i][1]]
  BY <1>8, <1>9 DEF Pending
<1>11. \A i, j \in 1 .. Len(ran') : ran'[i] = ran'[j] => i = j
  <2>1. \A i, j \in 1 .. Len(ran) : ran[i] = ran[j] => i = j
    BY DEF RanInv
  <2>2. \A i \in 1 .. Len(ran') : i \in 1 .. Len(ran) \/ i = Len(ran) + 1
    BY <1>2, <1>7
  <2>3. \A i \in 1 .. Len(ran) : ran'[i] = ran[i] /\ ran'[i] # call
    BY <1>6, <1>7
  <2>4. ran'[Len(ran) + 1] = call
    BY <1>7
  <2> QED BY ONLY <2>1, <2>2, <2>3, <2>4
<1> QED BY <1>7, <1>10, <1>11 DEF RanInv, Pending

\* Every step keeps it.
LEMMA NextCallInv ==
  ASSUME \A S : None \notin Seq(S), Pieces = FALSE, NewChannel = TRUE, CallInv, [Next]_vars
  PROVE  CallInv'
<1>1. IInv' /\ CallersInv /\ RanInv /\ IInv
  BY NextIInv DEF CallInv
<1>2. ASSUME UNCHANGED callVars
      PROVE  CallersInv' /\ RanInv'
  BY <1>1, <1>2 DEF callVars, CallersInv, RanInv, Pending
<1>3. ASSUME NEW c \in Caller, CallerNext(c)
      PROVE  CallersInv' /\ RanInv'
  <2>1. CallersInv'
    BY <1>1, <1>3, CallMethodKeeps, LookupKeeps, ConnectKeeps, OnMessageKeeps, DownKeeps
       DEF CallerNext
  <2> QED BY <1>1, <1>3, <2>1, CallerKeepsRan
<1>4. ASSUME NEW c \in Caller, ProviderOnMessage(c)
      PROVE  CallersInv' /\ RanInv'
  BY <1>1, <1>4, ProviderKeeps, ProviderKeepsRan
<1>5. ASSUME NEW p \in Provider, Crash(p)
      PROVE  CallersInv' /\ RanInv'
  BY <1>1, <1>5, CrashKeeps DEF Crash
<1>6. CallersInv' /\ RanInv'
  BY <1>2, <1>3, <1>4, <1>5 DEF Next, vars
<1> QED BY <1>1, <1>6 DEF CallInv

\* The invariant holds, whatever providers there are and wherever they die, where bytes
\* arrive in one piece and each call has a channel of its own.
LEMMA CallInvariance ==
  ASSUME \A S : None \notin Seq(S), Pieces = FALSE, NewChannel = TRUE
  PROVE  Spec => []CallInv
<1>1. CallInv /\ [Next]_vars => CallInv'
  BY NextCallInv
<1> QED BY <1>1, InitCallInv, PTL DEF Spec

\* onMessage runs a method at most once for a call, and with the call's own arguments.
THEOREM CallsAreTheirOwn ==
  ASSUME \A S : None \notin Seq(S), Pieces = FALSE, NewChannel = TRUE
  PROVE  Spec => []RunsWhatWasAsked
<1>1. CallInv => RunsWhatWasAsked
  <2> SUFFICES ASSUME RanInv PROVE RunsWhatWasAsked
    BY DEF CallInv
  <2>1. DOMAIN ran = 1 .. Len(ran)
    BY LenProperties DEF RanInv
  <2> QED BY <2>1 DEF RanInv, RunsWhatWasAsked
<1> QED BY <1>1, CallInvariance, PTL

\* What CallMethod hands over is the answer of its own request or, of a connection that
\* ended without one, nothing.
THEOREM AnswersAreTheirOwn ==
  ASSUME \A S : None \notin Seq(S), Pieces = FALSE, NewChannel = TRUE
  PROVE  Spec => []AnswersOwnRequest
<1>1. CallInv => AnswersOwnRequest
  <2> SUFFICES ASSUME CallersInv, NEW c \in Caller, Returned(c), ~outcome[c].failed
               PROVE  outcome[c].response \in {LoginResponse, Answer(Request(c))}
    BY DEF CallInv, AnswersOwnRequest
  <2>1. Fine(c, calls[c], pc[c], method[c], conn[c], result_[c], outcome[c])
    BY CallerIs
  <2>2. Request(c) = <<c, calls[c]>> /\ pc[c] = "idle" /\ calls[c] # 0
    BY <2>1, RequestIs DEF Returned, Fine
  <2> QED BY <2>1, <2>2 DEF Fine
<1> QED BY <1>1, CallInvariance, PTL

\* A caller whose loop runs has something to wait for: its request, its answer or the end
\* of its connection is on the way.
THEOREM CallersAreRemembered ==
  ASSUME \A S : None \notin Seq(S), Pieces = FALSE, NewChannel = TRUE
  PROVE  Spec => []NoneForgotten
<1>1. CallInv => NoneForgotten
  <2> SUFFICES ASSUME CallersInv, NEW c \in Caller, pc[c] = "up"
               PROVE  conn[c].out # <<>> \/ conn[c].in # <<>> \/ conn[c].fin
    BY DEF CallInv, NoneForgotten
  <2>1. Exchange(c, calls[c], method[c], conn[c], result_[c])
    BY DEF CallersInv, Fine
  <2>2. Package(method[c], <<c, calls[c]>>) # <<>>
    BY PackageShape
  <2> QED BY <2>1, <2>2 DEF Exchange, Conn
<1> QED BY <1>1, CallInvariance, PTL
=============================================================================
