--------------------------- MODULE Rv64System_proofs ---------------------------
(***************************************************************************)
(* Theorems about Rv64System, for every number of harts, every image,      *)
(* every depth of the windows, every latency, queue capacity and id space, *)
(* and every bus that keeps the promise of IBus.                           *)
(***************************************************************************)
EXTENDS Rv64System, Fold_proofs, FiniteSetTheorems, SequenceTheorems, WellFoundedInduction, TLAPS

-------------------------------------------------------------------------------
(***************************************************************************)
(* Sequences of anything: what the data of a message is does not matter.   *)
(***************************************************************************)
Proper(s) == s \in Seq({s[i] : i \in DOMAIN s})

\* A sequence has a first element unless it is empty.
LEMMA ProperFacts ==
  ASSUME NEW s, Proper(s)
  PROVE  /\ Len(s) \in Nat /\ DOMAIN s = 1 .. Len(s)
         /\ s = <<>> <=> Len(s) = 0
         /\ s # <<>> => 1 \in DOMAIN s /\ Head(s) = s[1]
<1> DEFINE S == {s[i] : i \in DOMAIN s}
<1>1. s \in Seq(S)
  BY DEF Proper
<1> HIDE DEF S
<1>2. QED
  BY <1>1

\* A sequence over any set is a sequence of its own elements.
LEMMA ProperSeq ==
  ASSUME NEW S, NEW s \in Seq(S)
  PROVE  Proper(s)
<1>1. Len(s) \in Nat /\ s \in [1 .. Len(s) -> S]
  OBVIOUS
<1>2. s \in [1 .. Len(s) -> {s[i] : i \in DOMAIN s}]
  BY <1>1
<1>3. QED
  BY <1>1, <1>2, SeqDef DEF Proper

\* The empty sequence.
LEMMA ProperEmpty == Proper(<<>>) /\ DOMAIN <<>> = {}
<1>1. <<>> \in Seq({}) /\ DOMAIN <<>> = {}
  OBVIOUS
<1>2. Proper(<<>>)
  BY <1>1, ProperSeq
<1>3. QED
  BY <1>1, <1>2

\* A sequence of one element.
LEMMA ProperOne ==
  ASSUME NEW x
  PROVE  Proper(<<x>>) /\ DOMAIN <<x>> = {1} /\ <<x>>[1] = x /\ <<x>> # <<>>
<1>1. <<x>> \in Seq({x})
  OBVIOUS
<1>2. Proper(<<x>>)
  BY <1>1, ProperSeq
<1>3. QED
  BY <1>2

\* Without its first, the elements of a sequence move up by one.
LEMMA TailFacts ==
  ASSUME NEW s, Proper(s), s # <<>>
  PROVE  /\ Proper(Tail(s)) /\ Len(Tail(s)) = Len(s) - 1
         /\ DOMAIN Tail(s) = 1 .. Len(s) - 1
         /\ \A i \in DOMAIN Tail(s) : i + 1 \in DOMAIN s /\ Tail(s)[i] = s[i + 1]
<1> DEFINE S == {s[i] : i \in DOMAIN s}
           t == Tail(s)
<1>1. s \in Seq(S)
  BY DEF Proper
<1> HIDE DEF S
<1>2. /\ t \in Seq(S) /\ Len(t) = Len(s) - 1 /\ DOMAIN t = 1 .. Len(s) - 1 /\ Len(s) \in Nat
      /\ \A i \in 1 .. Len(s) - 1 : t[i] = s[i + 1]
      /\ DOMAIN s = 1 .. Len(s)
  BY <1>1
<1>3. Proper(t)
  BY <1>2, ProperSeq
<1> HIDE DEF t
<1>4. \A i \in DOMAIN t : i + 1 \in DOMAIN s /\ t[i] = s[i + 1]
  BY <1>2
<1>5. QED
  BY <1>2, <1>3, <1>4 DEF t

\* With one more, they stay where they are.
LEMMA AppendFacts ==
  ASSUME NEW s, Proper(s), NEW x
  PROVE  /\ Proper(Append(s, x)) /\ Len(Append(s, x)) = Len(s) + 1
         /\ DOMAIN Append(s, x) = 1 .. Len(s) + 1
         /\ \A i \in DOMAIN s : Append(s, x)[i] = s[i]
         /\ Append(s, x)[Len(s) + 1] = x
<1> DEFINE S == {s[i] : i \in DOMAIN s} \cup {x}
           t == Append(s, x)
<1>1. s \in Seq({s[i] : i \in DOMAIN s})
  BY DEF Proper
<1>2. s \in Seq(S)
  BY <1>1, SeqMonotonic
<1>3. x \in S
  OBVIOUS
<1> HIDE DEF S
<1>4. /\ t \in Seq(S) /\ Len(t) = Len(s) + 1 /\ DOMAIN t = 1 .. Len(s) + 1
      /\ \A i \in 1 .. Len(s) : t[i] = s[i]
      /\ t[Len(s) + 1] = x /\ DOMAIN s = 1 .. Len(s)
  BY <1>2, <1>3
<1>5. Proper(t)
  BY <1>4, ProperSeq
<1>6. QED
  BY <1>4, <1>5

\* Sequences with the same places are as long as each other.
LEMMA SameEnd ==
  ASSUME NEW m \in Nat, NEW n \in Nat, 1 .. m = 1 .. n
  PROVE  m = n
<1>1. \A i \in Nat \ {0} : i <= m <=> i <= n
  OBVIOUS
<1>2. (m # 0 => m <= n) /\ (n # 0 => n <= m)
  BY <1>1
<1>3. QED
  BY <1>2

\* Sequences are equal if their elements are.
LEMMA SameElements ==
  ASSUME NEW s, NEW t, Proper(s), Proper(t), DOMAIN s = DOMAIN t, \A i \in DOMAIN s : s[i] = t[i]
  PROVE  s = t
<1> DEFINE S == {s[i] : i \in DOMAIN s} \cup {t[i] : i \in DOMAIN t}
<1>1. s \in Seq(S) /\ t \in Seq(S)
  BY SeqMonotonic DEF Proper
<1>2. Len(s) = Len(t)
  <2>1. DOMAIN s = 1 .. Len(s) /\ DOMAIN t = 1 .. Len(t) /\ Len(s) \in Nat /\ Len(t) \in Nat
    BY ProperFacts
  <2>2. QED
    BY <2>1, SameEnd
<1> HIDE DEF S
<1>3. \A i \in 1 .. Len(s) : s[i] = t[i]
  BY <1>1
<1>4. QED
  BY <1>1, <1>2, <1>3, SeqEqual

\* A field of the elements of a sequence, in their order.
Column(q, l) == [i \in DOMAIN q |-> q[i][l]]
Contents(q) == [i \in DOMAIN q |-> q[i].body]
Serving(q) == [i \in DOMAIN q |-> q[i].request]

\* Taking a field commutes with taking the first and with appending one.
LEMMA ColumnFacts ==
  ASSUME NEW q, Proper(q), NEW l
  PROVE  /\ Proper(Column(q, l)) /\ DOMAIN Column(q, l) = DOMAIN q
         /\ Len(Column(q, l)) = Len(q)
         /\ Column(q, l) = <<>> <=> q = <<>>
         /\ q # <<>> => /\ Column(Tail(q), l) = Tail(Column(q, l))
                        /\ Head(Column(q, l)) = Head(q)[l]
         /\ \A x : Column(Append(q, x), l) = Append(Column(q, l), x[l])
<1> DEFINE c == Column(q, l)
<1>1. DOMAIN c = DOMAIN q /\ \A i \in DOMAIN q : c[i] = q[i][l]
  BY DEF Column
<1>2. Len(q) \in Nat /\ DOMAIN q = 1 .. Len(q)
  BY ProperFacts
<1>3. Proper(c) /\ Len(c) = Len(q)
  <2> DEFINE S == {q[i][l] : i \in DOMAIN q}
  <2>1. c \in [1 .. Len(q) -> S]
    BY <1>2 DEF Column
  <2>2. c \in Seq(S)
    BY <1>2, <2>1, SeqDef
  <2>3. Len(c) \in Nat /\ DOMAIN c = 1 .. Len(c)
    BY <2>2
  <2> HIDE DEF c, S
  <2>4. Len(c) = Len(q)
    BY <1>1, <1>2, <2>3
  <2>5. QED
    BY <2>2, <2>4, ProperSeq
<1>4. c = <<>> <=> q = <<>>
  BY <1>3, ProperFacts
<1>5. ASSUME q # <<>> PROVE Column(Tail(q), l) = Tail(c) /\ Head(c) = Head(q)[l]
  <2> DEFINE t == Tail(q)
             d == Column(t, l)
  <2>1. /\ Proper(t) /\ DOMAIN t = 1 .. Len(q) - 1
        /\ \A i \in DOMAIN t : i + 1 \in DOMAIN q /\ t[i] = q[i + 1]
    BY <1>5, TailFacts
  <2>2. Len(t) \in Nat /\ DOMAIN t = 1 .. Len(t)
    BY <2>1, ProperFacts
  <2>3. c # <<>>
    BY <1>4, <1>5
  <2>4. /\ Proper(Tail(c)) /\ DOMAIN Tail(c) = 1 .. Len(q) - 1
        /\ \A i \in DOMAIN Tail(c) : i + 1 \in DOMAIN c /\ Tail(c)[i] = c[i + 1]
    BY <1>3, <2>3, TailFacts
  <2>5. DOMAIN d = DOMAIN t /\ \A i \in DOMAIN t : d[i] = t[i][l]
    BY DEF Column
  <2>6. Proper(d)
    <3> DEFINE S == {t[i][l] : i \in DOMAIN t}
    <3>1. d \in [1 .. Len(t) -> S]
      BY <2>2 DEF Column
    <3>2. d \in Seq(S)
      BY <2>2, <3>1, SeqDef
    <3>3. QED
      BY <3>2, ProperSeq
  <2> HIDE DEF d, t, c
  <2>7. d = Tail(c)
    <3>1. \A i \in DOMAIN d : d[i] = Tail(c)[i]
      BY <1>1, <2>1, <2>4, <2>5
    <3>2. DOMAIN d = DOMAIN Tail(c)
      BY <2>1, <2>4, <2>5
    <3>3. QED
      BY <2>4, <2>6, <3>1, <3>2, SameElements
  <2>8. Head(c) = c[1] /\ Head(q) = q[1] /\ 1 \in DOMAIN q
    BY <1>3, <1>5, <2>3, ProperFacts
  <2>9. QED
    BY <1>1, <2>7, <2>8 DEF d, t
<1>6. ASSUME NEW x PROVE Column(Append(q, x), l) = Append(c, x[l])
  <2> DEFINE t == Append(q, x)
             d == Column(t, l)
             e == Append(c, x[l])
  <2>1. /\ Proper(t) /\ DOMAIN t = 1 .. Len(q) + 1 /\ Len(t) = Len(q) + 1
        /\ \A i \in DOMAIN q : t[i] = q[i]
        /\ t[Len(q) + 1] = x
    BY AppendFacts
  <2>2. /\ Proper(e) /\ DOMAIN e = 1 .. Len(q) + 1
        /\ \A i \in DOMAIN c : e[i] = c[i]
        /\ e[Len(q) + 1] = x[l]
    BY <1>3, AppendFacts
  <2>3. DOMAIN d = DOMAIN t /\ \A i \in DOMAIN t : d[i] = t[i][l]
    BY DEF Column
  <2>4. Proper(d)
    <3> DEFINE S == {t[i][l] : i \in DOMAIN t}
    <3>1. Len(t) \in Nat /\ DOMAIN t = 1 .. Len(t)
      BY <2>1, ProperFacts
    <3>2. d \in [1 .. Len(t) -> S]
      BY <3>1 DEF Column
    <3>3. d \in Seq(S)
      BY <3>1, <3>2, SeqDef
    <3>4. QED
      BY <3>3, ProperSeq
  <2> HIDE DEF d, t, c, e
  <2>5. \A i \in DOMAIN d : d[i] = e[i]
    <3>1. \A i \in 1 .. Len(q) + 1 : i \in DOMAIN q \/ i = Len(q) + 1
      BY <1>2
    <3>2. QED
      BY <1>1, <2>1, <2>2, <2>3, <3>1
  <2>6. d = e
    BY <2>1, <2>2, <2>3, <2>4, <2>5, SameElements
  <2>7. QED
    BY <2>6 DEF d, t, e
<1>7. QED
  BY <1>1, <1>3, <1>4, <1>5, <1>6

\* So does Contents.
LEMMA ContentsFacts ==
  ASSUME NEW q, Proper(q)
  PROVE  /\ Proper(Contents(q)) /\ DOMAIN Contents(q) = DOMAIN q
         /\ Len(Contents(q)) = Len(q)
         /\ Contents(q) = <<>> <=> q = <<>>
         /\ q # <<>> => /\ Contents(Tail(q)) = Tail(Contents(q))
                        /\ Head(Contents(q)) = Head(q).body
         /\ \A x : Contents(Append(q, x)) = Append(Contents(q), x.body)
<1>1. \A t : Contents(t) = Column(t, "body")
  BY DEF Contents, Column
<1>2. QED
  BY <1>1, ColumnFacts

\* So does Serving.
LEMMA ServingColumn ==
  ASSUME NEW q, Proper(q)
  PROVE  /\ Proper(Serving(q)) /\ DOMAIN Serving(q) = DOMAIN q
         /\ Len(Serving(q)) = Len(q)
         /\ Serving(q) = <<>> <=> q = <<>>
         /\ q # <<>> => /\ Serving(Tail(q)) = Tail(Serving(q))
                        /\ Head(Serving(q)) = Head(q).request
         /\ \A x : Serving(Append(q, x)) = Append(Serving(q), x.request)
<1>1. \A t : Serving(t) = Column(t, "request")
  BY DEF Serving, Column
<1>2. QED
  BY <1>1, ColumnFacts

-------------------------------------------------------------------------------
(***************************************************************************)
(* The line of a hart.  What is under way for a hart stands in a line: its *)
(* requests in the bus, in the inbox of the memory, in the queue and in    *)
(* service, then its responses at the controller, in the bus and in its    *)
(* own inbox.  A token is a message's hart and id with its place there.    *)
(***************************************************************************)
Token == [hart : Hart, id : Int, stage : 0 .. 6, place : Int]

At(b, s, p) == [hart |-> b.hart, id |-> b.transaction, stage |-> s, place |-> p]

Line(q, s) == {At(q[i], s, i) : i \in DOMAIN q}
Sailing(T, c, s) == {At(m.body, s, m.id) : m \in {k \in T : k.channel = c}}

Tokens(T, I, Q, A, R) ==
  Sailing(T, Request, 6) \cup Line(Contents(I[MemoryPort][Request]), 5) \cup Line(Q, 4)
  \cup Line(Serving(A), 3) \cup Line(R, 2) \cup Sailing(T, Response, 1)
  \cup UNION {Line(Contents(I[h][Response]), 0) : h \in Hart}

\* The one nearer to the end of the line.
Ahead(t, u) == t.stage < u.stage \/ (t.stage = u.stage /\ t.place < u.place)

\* Of two messages of a hart the one ahead has the lower id.
InLine(Z) == \A t, u \in Z : t.hart = u.hart /\ Ahead(t, u) => t.id < u.id

\* The ids under way for a hart.
IdsOf(Z, h) == {t.id : t \in {z \in Z : z.hart = h}}

Body(b) == b.hart \in Hart /\ b.transaction \in Int
Bodied(q) == Proper(q) /\ \A i \in DOMAIN q : Body(q[i])

\* Letters between the harts and the memory, with ids of their own up to n.
Posted(T, n) ==
  /\ \A m \in T :
       /\ m.id \in Nat /\ m.id <= n /\ Body(m.body)
       /\ \/ m.channel = Request /\ m.src = m.body.hart /\ m.dst = MemoryPort
          \/ m.channel = Response /\ m.src = MemoryPort /\ m.dst = m.body.hart
  /\ \A m, k \in T : m.id = k.id => m = k

Arrivals(I) ==
  /\ DOMAIN I = Port /\ \A p \in Port : DOMAIN I[p] = Channel
  /\ \A p \in Port, c \in Channel : Proper(I[p][c])
  /\ Bodied(Contents(I[MemoryPort][Request]))
  /\ \A h \in Hart :
       /\ Bodied(Contents(I[h][Response]))
       /\ \A i \in DOMAIN I[h][Response] : I[h][Response][i].body.hart = h

\* The tokens of a queue are tokens, all at its stage.
LEMMA LineTokens ==
  ASSUME NEW q, Bodied(q), NEW s \in 0 .. 6
  PROVE  Line(q, s) \in SUBSET Token /\ \A t \in Line(q, s) : t.stage = s
<1>1. ASSUME NEW i \in DOMAIN q PROVE At(q[i], s, i) \in Token
  <2>1. i \in Int
    BY ProperFacts DEF Bodied
  <2>2. QED
    BY <2>1 DEF Bodied, Body, At, Token
<1>2. QED
  BY <1>1 DEF Line, At

\* And those of the messages in the bus, at places up to the newest id.
LEMMA SailingTokens ==
  ASSUME NEW T, NEW n, Posted(T, n), NEW c, NEW s \in 0 .. 6
  PROVE  /\ Sailing(T, c, s) \in SUBSET Token
         /\ \A t \in Sailing(T, c, s) : t.stage = s /\ t.place <= n
<1>1. ASSUME NEW m \in T PROVE At(m.body, s, m.id) \in Token /\ m.id <= n
  BY DEF Posted, Body, At, Token
<1>2. QED
  BY <1>1 DEF Sailing, At

\* In the inbox of a hart there are only responses for it.
LEMMA InboxTokens ==
  ASSUME NEW I, Arrivals(I), NEW h \in Hart
  PROVE  \A t \in Line(Contents(I[h][Response]), 0) : t \in Token /\ t.stage = 0 /\ t.hart = h
<1>1. Bodied(Contents(I[h][Response])) /\ \A i \in DOMAIN I[h][Response] : I[h][Response][i].body.hart = h
  BY DEF Arrivals
<1>2. \A t \in Line(Contents(I[h][Response]), 0) : t.hart = h
  BY <1>1 DEF Line, Contents, At
<1>3. QED
  BY <1>1, <1>2, LineTokens

\* The elements of a line and those of the line without its first.
LEMMA LineTail ==
  ASSUME NEW f, Bodied(f), f # <<>>, NEW s \in 0 .. 6
  PROVE  /\ At(Head(f), s, 1) \in Line(f, s)
         /\ \A t \in Line(Tail(f), s) :
              /\ t.stage = s /\ t.place \in Nat /\ t.place >= 1
              /\ \E z \in Line(f, s) : z.hart = t.hart /\ z.id = t.id /\ z.place = t.place + 1
         /\ \A z \in Line(f, s) :
              \/ z = At(Head(f), s, 1)
              \/ \E t \in Line(Tail(f), s) : z.hart = t.hart /\ z.id = t.id
<1> DEFINE F == Line(f, s)
           G == Line(Tail(f), s)
           old == At(Head(f), s, 1)
<1>1. Proper(f) /\ 1 \in DOMAIN f /\ Head(f) = f[1] /\ DOMAIN f = 1 .. Len(f) /\ Len(f) \in Nat
  BY ProperFacts DEF Bodied
<1>2. /\ Proper(Tail(f)) /\ DOMAIN Tail(f) = 1 .. Len(f) - 1
      /\ \A i \in DOMAIN Tail(f) : i + 1 \in DOMAIN f /\ Tail(f)[i] = f[i + 1]
  BY <1>1, TailFacts
<1>3. old \in F
  BY <1>1 DEF Line
<1>4. ASSUME NEW t \in G
      PROVE  /\ t.stage = s /\ t.place \in Nat /\ t.place >= 1
             /\ \E z \in F : z.hart = t.hart /\ z.id = t.id /\ z.place = t.place + 1
  <2>1. PICK i \in DOMAIN Tail(f) : t = At(Tail(f)[i], s, i)
    BY DEF Line
  <2>2. i \in Nat /\ i >= 1 /\ i + 1 \in DOMAIN f /\ Tail(f)[i] = f[i + 1]
    BY <1>1, <1>2, <2>1
  <2>3. At(f[i + 1], s, i + 1) \in F
    BY <2>2 DEF Line
  <2>4. t.stage = s /\ t.place = i /\ t.hart = f[i + 1].hart /\ t.id = f[i + 1].transaction
    BY <2>1, <2>2 DEF At
  <2>5. QED
    BY <2>2, <2>3, <2>4 DEF At
<1>5. ASSUME NEW z \in F
      PROVE  z = old \/ \E t \in G : z.hart = t.hart /\ z.id = t.id
  <2>1. PICK i \in DOMAIN f : z = At(f[i], s, i)
    BY DEF Line
  <2>2. CASE i = 1
    BY <1>1, <2>1, <2>2
  <2>3. CASE i # 1
    <3>1. i - 1 \in DOMAIN Tail(f) /\ (i - 1) + 1 = i
      BY <1>1, <1>2, <2>3
    <3>2. At(Tail(f)[i - 1], s, i - 1) \in G /\ Tail(f)[i - 1] = f[i]
      BY <1>2, <3>1 DEF Line
    <3>3. QED
      BY <2>1, <3>2 DEF At
  <2>4. QED
    BY <2>2, <2>3
<1>6. QED
  BY <1>3, <1>4, <1>5

(***************************************************************************)
(* The first at one place becomes the last at the next: the line stays.    *)
(***************************************************************************)
CanMove(C, B, f, s, d, p) ==
  /\ C \in SUBSET Token /\ B \in SUBSET Token /\ Bodied(f) /\ f # <<>>
  /\ s \in 1 .. 6 /\ d = s - 1 /\ p \in Int
  /\ \A t \in C : t.stage # s /\ t.stage # d
  /\ \A t \in B : t.stage = d /\ t.place < p

Unmoved(C, B, f, s) == C \cup B \cup Line(f, s)
Moved(C, B, f, s, d, p) == C \cup (B \cup {At(Head(f), d, p)}) \cup Line(Tail(f), s)

\* A head that moves to the last place of the next stage keeps its hart's ids and order.
LEMMA MoveHead ==
  ASSUME NEW C, NEW B, NEW f, NEW s, NEW d, NEW p, CanMove(C, B, f, s, d, p),
         InLine(Unmoved(C, B, f, s))
  PROVE  /\ InLine(Moved(C, B, f, s, d, p))
         /\ \A h : IdsOf(Moved(C, B, f, s, d, p), h) = IdsOf(Unmoved(C, B, f, s), h)
<1> DEFINE Z == Unmoved(C, B, f, s)
           Y == Moved(C, B, f, s, d, p)
           new == At(Head(f), d, p)
           old == At(Head(f), s, 1)
           F == Line(f, s)
           G == Line(Tail(f), s)
<1>0. /\ C \in SUBSET Token /\ B \in SUBSET Token /\ Bodied(f) /\ f # <<>>
      /\ s \in 1 .. 6 /\ s \in 0 .. 6 /\ d = s - 1 /\ p \in Int
      /\ \A t \in C : t.stage # s /\ t.stage # d
      /\ \A t \in B : t.stage = d /\ t.place < p
  BY DEF CanMove
<1>1. Z = C \cup B \cup F /\ Y = C \cup (B \cup {new}) \cup G
  BY DEF Unmoved, Moved
<1>2. F \in SUBSET Token /\ \A t \in F : t.stage = s
  BY <1>0, LineTokens
<1>3. /\ old \in F /\ old.place = 1 /\ old.stage = s
      /\ new.hart = old.hart /\ new.id = old.id /\ new.stage = d /\ new.place = p
  <2>1. old \in F
    BY <1>0, LineTail
  <2>2. /\ old.place = 1 /\ old.stage = s /\ new.stage = d /\ new.place = p
        /\ new.hart = old.hart /\ new.id = old.id
    BY DEF At
  <2>3. QED
    BY <2>1, <2>2
<1>4. \A t \in G :
        /\ t.stage = s /\ t.place \in Nat /\ t.place >= 1
        /\ \E z \in F : z.hart = t.hart /\ z.id = t.id /\ z.place = t.place + 1
  BY <1>0, LineTail
<1>5. \A z \in F : z = old \/ \E t \in G : z.hart = t.hart /\ z.id = t.id
  BY <1>0, LineTail
<1> HIDE DEF new, old, F, G, Z, Y
<1>6. ASSUME NEW y \in Y
      PROVE  \E z \in Z :
               /\ z.hart = y.hart /\ z.id = y.id
               /\ \/ /\ z = y /\ z.stage # s
                     /\ z.stage = d => z.place < p
                  \/ y.stage = s /\ z.stage = s /\ y.place >= 1 /\ y.place \in Nat
                     /\ z.place = y.place + 1
                  \/ y.stage = d /\ y.place = p /\ z.stage = s /\ z.place = 1
  <2>1. CASE y \in C
    BY <1>0, <1>1, <2>1
  <2>2. CASE y \in B
    BY <1>0, <1>1, <2>2
  <2>3. CASE y = new
    BY <1>1, <1>2, <1>3, <2>3
  <2>4. CASE y \in G
    BY <1>1, <1>2, <1>4, <2>4
  <2>5. QED
    BY <1>1, <2>1, <2>2, <2>3, <2>4
<1>7. InLine(Y)
  <2> SUFFICES ASSUME NEW t \in Y, NEW u \in Y, t.hart = u.hart, Ahead(t, u) PROVE t.id < u.id
    BY DEF InLine
  <2>1. PICK v \in Z :
          /\ v.hart = t.hart /\ v.id = t.id
          /\ \/ /\ v = t /\ v.stage # s
                /\ v.stage = d => v.place < p
             \/ t.stage = s /\ v.stage = s /\ t.place >= 1 /\ t.place \in Nat
                /\ v.place = t.place + 1
             \/ t.stage = d /\ t.place = p /\ v.stage = s /\ v.place = 1
    BY <1>6
  <2>2. PICK w \in Z :
          /\ w.hart = u.hart /\ w.id = u.id
          /\ \/ /\ w = u /\ w.stage # s
                /\ w.stage = d => w.place < p
             \/ u.stage = s /\ w.stage = s /\ u.place >= 1 /\ u.place \in Nat
                /\ w.place = u.place + 1
             \/ u.stage = d /\ u.place = p /\ w.stage = s /\ w.place = 1
    BY <1>6
  <2>3. /\ v.stage \in 0 .. 6 /\ w.stage \in 0 .. 6 /\ v.place \in Int /\ w.place \in Int
    BY <1>0, <1>1, <1>2 DEF Token
  <2>4. Ahead(v, w)
    <3>1. t.stage < u.stage \/ (t.stage = u.stage /\ t.place < u.place)
      BY DEF Ahead
    <3>2. CASE v = t /\ v.stage # s /\ (v.stage = d => v.place < p)
      BY <1>0, <2>2, <2>3, <3>1, <3>2 DEF Ahead
    <3>3. CASE t.stage = s /\ v.stage = s /\ t.place >= 1 /\ t.place \in Nat /\ v.place = t.place + 1
      BY <1>0, <2>2, <2>3, <3>1, <3>3 DEF Ahead
    <3>4. CASE t.stage = d /\ t.place = p /\ v.stage = s /\ v.place = 1
      BY <1>0, <2>2, <2>3, <3>1, <3>4 DEF Ahead
    <3>5. QED
      BY <2>1, <3>2, <3>3, <3>4
  <2>5. v.id < w.id
    BY <2>1, <2>2, <2>4 DEF InLine, Z
  <2>6. QED
    BY <2>1, <2>2, <2>5
<1>8. ASSUME NEW h PROVE IdsOf(Y, h) = IdsOf(Z, h)
  <2>1. \A y \in Y : \E z \in Z : z.hart = y.hart /\ z.id = y.id
    BY <1>6
  <2>2. \A z \in Z : \E y \in Y : z.hart = y.hart /\ z.id = y.id
    BY <1>1, <1>3, <1>5
  <2>3. QED
    BY <2>1, <2>2 DEF IdsOf
<1>9. QED
  BY <1>7, <1>8 DEF Y, Z

\* The first leaves the line: it had the lowest id of its hart.
CanDrop(C, f, h) ==
  /\ C \in SUBSET Token /\ Bodied(f) /\ f # <<>> /\ h \in Hart
  /\ \A i \in DOMAIN f : f[i].hart = h
  /\ \A t \in C : t.stage = 0 => t.hart # h

Dropped(C, f) == C \cup Line(Tail(f), 0)

\* A head that leaves the line, at its very front, takes the lowest id of its hart along.
LEMMA DropHead ==
  ASSUME NEW C, NEW f, NEW h, CanDrop(C, f, h), InLine(Unmoved(C, {}, f, 0))
  PROVE  /\ InLine(Dropped(C, f))
         /\ IdsOf(Unmoved(C, {}, f, 0), h) = IdsOf(Dropped(C, f), h) \cup {Head(f).transaction}
         /\ \A i \in IdsOf(Dropped(C, f), h) : i \in Int /\ Head(f).transaction < i
         /\ \A g : g # h => IdsOf(Dropped(C, f), g) = IdsOf(Unmoved(C, {}, f, 0), g)
<1> DEFINE F == Line(f, 0)
           G == Line(Tail(f), 0)
           old == At(Head(f), 0, 1)
           Z == C \cup F
           Y == C \cup G
<1>0. /\ C \in SUBSET Token /\ Bodied(f) /\ f # <<>> /\ h \in Hart
      /\ \A i \in DOMAIN f : f[i].hart = h
      /\ \A t \in C : t.stage = 0 => t.hart # h
      /\ InLine(Z)
  BY DEF CanDrop, Unmoved
<1>1. /\ F \in SUBSET Token /\ \A t \in F : t.stage = 0 /\ t.hart = h
  BY <1>0, LineTokens DEF Line, At
<1>2. /\ old \in F /\ old.place = 1 /\ old.stage = 0 /\ old.hart = h
      /\ old.id = Head(f).transaction
  <2>1. old \in F
    BY <1>0, LineTail
  <2>2. old.place = 1 /\ old.id = Head(f).transaction
    BY DEF At
  <2>3. QED
    BY <1>1, <2>1, <2>2
<1>3. \A t \in G :
        /\ t.stage = 0 /\ t.place \in Nat /\ t.place >= 1
        /\ \E z \in F : z.hart = t.hart /\ z.id = t.id /\ z.place = t.place + 1
  BY <1>0, LineTail
<1>4. \A z \in F : z = old \/ \E t \in G : z.hart = t.hart /\ z.id = t.id
  BY <1>0, LineTail
<1> HIDE DEF old, F, G
<1>5. ASSUME NEW y \in Y
      PROVE  \E z \in Z :
               /\ z.hart = y.hart /\ z.id = y.id
               /\ \/ z = y /\ (z.stage = 0 => z.hart # h)
                  \/ /\ y.stage = 0 /\ z.stage = 0 /\ y.hart = h
                     /\ y.place >= 1 /\ y.place \in Nat /\ z.place = y.place + 1
  <2>1. CASE y \in C
    BY <1>0, <2>1
  <2>2. CASE y \in G
    BY <1>1, <1>3, <2>2
  <2>3. QED
    BY <2>1, <2>2
<1>6. ASSUME NEW t \in Y
      PROVE  t.hart = h => t.id \in Int /\ old.id < t.id
  <2>1. PICK v \in Z :
          /\ v.hart = t.hart /\ v.id = t.id
          /\ \/ v = t /\ (v.stage = 0 => v.hart # h)
             \/ /\ t.stage = 0 /\ v.stage = 0 /\ t.hart = h
                /\ t.place >= 1 /\ t.place \in Nat /\ v.place = t.place + 1
    BY <1>5
  <2>2. v \in Token
    BY <1>0, <1>1
  <2>3. v.stage \in 0 .. 6 /\ v.place \in Int /\ v.id \in Int
    BY <2>2 DEF Token
  <2>4. t.hart = h => Ahead(old, v)
    BY <1>2, <2>1, <2>3 DEF Ahead
  <2>5. QED
    BY <1>0, <1>2, <2>1, <2>3, <2>4 DEF InLine
<1>7. InLine(Y)
  <2> SUFFICES ASSUME NEW t \in Y, NEW u \in Y, t.hart = u.hart, Ahead(t, u) PROVE t.id < u.id
    BY DEF InLine
  <2>1. PICK v \in Z :
          /\ v.hart = t.hart /\ v.id = t.id
          /\ \/ v = t /\ (v.stage = 0 => v.hart # h)
             \/ /\ t.stage = 0 /\ v.stage = 0 /\ t.hart = h
                /\ t.place >= 1 /\ t.place \in Nat /\ v.place = t.place + 1
    BY <1>5
  <2>2. PICK w \in Z :
          /\ w.hart = u.hart /\ w.id = u.id
          /\ \/ w = u /\ (w.stage = 0 => w.hart # h)
             \/ /\ u.stage = 0 /\ w.stage = 0 /\ u.hart = h
                /\ u.place >= 1 /\ u.place \in Nat /\ w.place = u.place + 1
    BY <1>5
  <2>3. v \in Token /\ w \in Token
    BY <1>0, <1>1
  <2>4. /\ v.stage \in 0 .. 6 /\ w.stage \in 0 .. 6 /\ v.place \in Int /\ w.place \in Int
    BY <2>3 DEF Token
  <2>5. Ahead(v, w)
    BY <2>1, <2>2, <2>4 DEF Ahead
  <2>6. v.id < w.id
    BY <1>0, <2>1, <2>2, <2>5 DEF InLine
  <2>7. QED
    BY <2>1, <2>2, <2>6
<1>8. \A y \in Y : \E z \in Z : z.hart = y.hart /\ z.id = y.id
  BY <1>5
<1>9. \A z \in Z : z = old \/ \E y \in Y : z.hart = y.hart /\ z.id = y.id
  BY <1>4
<1>10. old \in Z
  BY <1>2
<1>11. \A i \in IdsOf(Y, h) : i \in Int /\ old.id < i
  BY <1>6 DEF IdsOf
<1> HIDE DEF Y, Z
<1>12. IdsOf(Z, h) = IdsOf(Y, h) \cup {old.id}
  BY <1>2, <1>8, <1>9, <1>10 DEF IdsOf
<1>13. \A g : g # h => IdsOf(Y, g) = IdsOf(Z, g)
  BY <1>2, <1>8, <1>9 DEF IdsOf
<1>14. Y = Dropped(C, f) /\ Z = Unmoved(C, {}, f, 0)
  BY DEF Y, Z, F, G, Dropped, Unmoved
<1>15. QED
  BY <1>2, <1>7, <1>11, <1>12, <1>13, <1>14

\* A message with an id above those of its hart joins the line at its end.
LEMMA AddLast ==
  ASSUME NEW Z \in SUBSET Token, NEW y \in Token, InLine(Z),
         y.stage = 6, \A t \in Z : t.stage = 6 => t.place < y.place,
         \A i \in IdsOf(Z, y.hart) : i < y.id
  PROVE  /\ InLine(Z \cup {y})
         /\ IdsOf(Z \cup {y}, y.hart) = IdsOf(Z, y.hart) \cup {y.id}
         /\ \A g : g # y.hart => IdsOf(Z \cup {y}, g) = IdsOf(Z, g)
<1>1. ASSUME NEW t \in Z \cup {y}, NEW u \in Z \cup {y}, t.hart = u.hart, Ahead(t, u)
      PROVE  t.id < u.id
  <2>1. /\ t.stage \in 0 .. 6 /\ u.stage \in 0 .. 6 /\ t.place \in Int /\ u.place \in Int
    BY DEF Token
  <2>2. t # y
    BY <1>1, <2>1 DEF Ahead
  <2>3. t.id \in IdsOf(Z, t.hart)
    BY <2>2 DEF IdsOf
  <2>4. QED
    BY <1>1, <2>2, <2>3 DEF InLine
<1>2. QED
  BY <1>1 DEF InLine, IdsOf

\* A line with one more.
LEMMA LineAppend ==
  ASSUME NEW q, Bodied(q), NEW b, Body(b), NEW s
  PROVE  /\ Bodied(Append(q, b)) /\ Len(q) \in Nat
         /\ Line(Append(q, b), s) = Line(q, s) \cup {At(b, s, Len(q) + 1)}
         /\ \A t \in Line(q, s) : t.place \in Int /\ t.place <= Len(q)
<1> DEFINE n == Len(q)
           r == Append(q, b)
<1>1. Proper(q) /\ n \in Nat /\ DOMAIN q = 1 .. n
  BY ProperFacts DEF Bodied
<1>2. /\ Proper(r) /\ DOMAIN r = 1 .. n + 1 /\ r[n + 1] = b
      /\ \A i \in DOMAIN q : r[i] = q[i]
  BY <1>1, AppendFacts
<1> HIDE DEF n, r
<1>3. DOMAIN r = DOMAIN q \cup {n + 1}
  BY <1>1, <1>2
<1>4. Bodied(r)
  BY <1>2, <1>3 DEF Bodied
<1>5. Line(r, s) = Line(q, s) \cup {At(b, s, n + 1)}
  BY <1>2, <1>3 DEF Line
<1>6. \A t \in Line(q, s) : t.place \in Int /\ t.place <= n
  BY <1>1 DEF Line, At
<1>7. QED
  BY <1>1, <1>4, <1>5, <1>6 DEF n, r

\* A line with none.
LEMMA LineEmpty == Bodied(<<>>) /\ \A s : Line(<<>>, s) = {}
BY ProperEmpty DEF Bodied, Line

\* A line with one.
LEMMA LineOne ==
  ASSUME NEW b, Body(b)
  PROVE  Bodied(<<b>>) /\ \A s : Line(<<b>>, s) = {At(b, s, 1)}
BY ProperOne DEF Bodied, Line

\* Serving commutes with what the controller does to its one slot.
LEMMA ServingFacts ==
  /\ Serving(<<>>) = <<>>
  /\ \A x : Serving(<<x>>) = <<x.request>>
<1>1. Serving(<<>>) = <<>>
  BY DEF Serving
<1>2. ASSUME NEW x PROVE Serving(<<x>>) = <<x.request>>
  <2>1. <<x>> \in [1 .. 1 -> {x}] /\ <<x.request>> \in [1 .. 1 -> {x.request}]
    OBVIOUS
  <2>2. Serving(<<x>>) \in [1 .. 1 -> {x.request}]
    BY <2>1 DEF Serving
  <2>3. QED
    BY <2>1, <2>2
<1>3. QED
  BY <1>1, <1>2

-------------------------------------------------------------------------------
(***************************************************************************)
(* The bus.                                                                *)
(***************************************************************************)
Placed(T, n, I, Q, A, R) ==
  n \in Nat /\ Posted(T, n) /\ Arrivals(I) /\ Bodied(Q) /\ Bodied(Serving(A)) /\ Bodied(R)

\* Everything stands in line, and the ids that do, per hart.
Settled(T, n, I, Q, A, R) == Placed(T, n, I, Q, A, R) /\ InLine(Tokens(T, I, Q, A, R))
Ids(T, I, Q, A, R) == [h \in Hart |-> IdsOf(Tokens(T, I, Q, A, R), h)]

\* Every token of a settled system is a token.
LEMMA TokenTypes ==
  ASSUME NEW T, NEW n, NEW I, NEW Q, NEW A, NEW R, Placed(T, n, I, Q, A, R)
  PROVE  Tokens(T, I, Q, A, R) \in SUBSET Token
<1>1. /\ Sailing(T, Request, 6) \in SUBSET Token /\ Sailing(T, Response, 1) \in SUBSET Token
  BY SailingTokens DEF Placed
<1>2. Line(Contents(I[MemoryPort][Request]), 5) \in SUBSET Token
  BY LineTokens DEF Placed, Arrivals
<1>3. Line(Q, 4) \in SUBSET Token /\ Line(R, 2) \in SUBSET Token
  BY LineTokens DEF Placed
<1>4. Line(Serving(A), 3) \in SUBSET Token
  BY LineTokens DEF Placed
<1>5. \A h \in Hart : Line(Contents(I[h][Response]), 0) \in SUBSET Token
  BY InboxTokens DEF Placed
<1>6. QED
  BY <1>1, <1>2, <1>3, <1>4, <1>5 DEF Tokens

\* The ports at which the messages of S arrive.
LEMMA ArrivedInboxes ==
  ASSUME Posted(transit, accepted), Arrivals(inbox), NEW S \in SUBSET transit, Bus!Arrive(S)
  PROVE  /\ Arrivals(inbox')
         /\ \A p \in Port, c \in Channel :
              \/ inbox'[p][c] = inbox[p][c] /\ \A m \in S : m.dst # p \/ m.channel # c
              \/ \E m \in S : /\ m.dst = p /\ m.channel = c
                              /\ inbox'[p][c] = Append(inbox[p][c], m)
<1> DEFINE I == inbox
           J == inbox'
<1>1. /\ J = [d \in Port |-> [c \in Channel |-> Bus!Arrived(S, d, c)]]
      /\ \A m, k \in S : m.dst = k.dst => m = k
  BY DEF Bus!Arrive
<1>2. ASSUME NEW p \in Port, NEW c \in Channel
      PROVE  \/ J[p][c] = I[p][c] /\ \A m \in S : m.dst # p \/ m.channel # c
             \/ \E m \in S : m.dst = p /\ m.channel = c /\ J[p][c] = Append(I[p][c], m)
  <2>1. J[p][c] = Bus!Arrived(S, p, c)
    BY <1>1
  <2>2. CASE \E m \in S : m.dst = p /\ m.channel = c
    <3> DEFINE k == CHOOSE m \in S : m.dst = p /\ m.channel = c
    <3>1. k \in S /\ k.dst = p /\ k.channel = c
      BY <2>2
    <3>2. J[p][c] = Append(I[p][c], k)
      BY <2>1, <2>2 DEF Bus!Arrived
    <3>3. QED
      BY <3>1, <3>2
  <2>3. CASE ~\E m \in S : m.dst = p /\ m.channel = c
    BY <2>1, <2>3 DEF Bus!Arrived
  <2>4. QED
    BY <2>2, <2>3
<1>3. DOMAIN J = Port /\ \A p \in Port : DOMAIN J[p] = Channel
  BY <1>1
<1> HIDE DEF J
<1>4. \A m \in S :
        /\ Body(m.body)
        /\ m.channel = Response => m.dst = m.body.hart
  BY DEF Posted, Request, Response
<1>5. \A p \in Port, c \in Channel : Proper(I[p][c])
  BY DEF Arrivals
<1>6. \A p \in Port, c \in Channel : Proper(J[p][c])
  <2> SUFFICES ASSUME NEW p \in Port, NEW c \in Channel PROVE Proper(J[p][c])
    OBVIOUS
  <2>1. Proper(I[p][c])
    BY <1>5
  <2>2. \A m : Proper(Append(I[p][c], m))
    BY <2>1, AppendFacts
  <2>3. CASE \E m \in S : J[p][c] = Append(I[p][c], m)
    <3>1. PICK m \in S : J[p][c] = Append(I[p][c], m)
      BY <2>3
    <3>2. QED
      BY <2>2, <3>1
  <2>4. CASE J[p][c] = I[p][c]
    BY <2>1, <2>4
  <2>5. QED
    BY <1>2, <2>3, <2>4
<1>7. MemoryPort \in Port /\ Request \in Channel /\ Response \in Channel /\ Hart \subseteq Port
  BY DEF Port, Channel
<1>8. ASSUME NEW p \in Port, NEW c \in Channel, Bodied(Contents(I[p][c]))
      PROVE  Bodied(Contents(J[p][c]))
  <2>1. CASE \E m \in S : J[p][c] = Append(I[p][c], m)
    <3>1. PICK m \in S : J[p][c] = Append(I[p][c], m)
      BY <2>1
    <3>2. Contents(J[p][c]) = Append(Contents(I[p][c]), m.body)
      BY <1>5, <3>1, ContentsFacts
    <3>3. QED
      BY <1>4, <1>8, <3>2, LineAppend
  <2>2. QED
    BY <1>2, <1>8, <2>1
<1>9. ASSUME NEW h \in Hart, NEW i \in DOMAIN J[h][Response]
      PROVE  J[h][Response][i].body.hart = h
  <2>1. \A k \in DOMAIN I[h][Response] : I[h][Response][k].body.hart = h
    BY DEF Arrivals
  <2>2. CASE \E m \in S : m.dst = h /\ m.channel = Response /\ J[h][Response] = Append(I[h][Response], m)
    <3>1. PICK m \in S : m.dst = h /\ m.channel = Response /\ J[h][Response] = Append(I[h][Response], m)
      BY <2>2
    <3>2. Proper(I[h][Response])
      BY <1>5, <1>7
    <3>3. /\ DOMAIN J[h][Response] = 1 .. Len(I[h][Response]) + 1
          /\ \A k \in DOMAIN I[h][Response] : J[h][Response][k] = I[h][Response][k]
          /\ J[h][Response][Len(I[h][Response]) + 1] = m
      BY <3>1, <3>2, AppendFacts
    <3>4. DOMAIN I[h][Response] = 1 .. Len(I[h][Response]) /\ Len(I[h][Response]) \in Nat
      BY <3>2, ProperFacts
    <3>5. i \in DOMAIN I[h][Response] \/ i = Len(I[h][Response]) + 1
      BY <3>3, <3>4
    <3>6. QED
      BY <1>4, <2>1, <3>1, <3>3, <3>5
  <2>3. QED
    BY <1>2, <1>7, <2>1, <2>2
<1>10. Arrivals(J)
  <2>1. Bodied(Contents(J[MemoryPort][Request]))
    BY <1>7, <1>8 DEF Arrivals
  <2>2. \A h \in Hart : Bodied(Contents(J[h][Response]))
    BY <1>7, <1>8 DEF Arrivals
  <2>3. QED
    BY <1>3, <1>6, <1>9, <2>1, <2>2 DEF Arrivals
<1>11. QED
  BY <1>2, <1>10 DEF J

\* A message is ahead of the others of its flow when it arrives.
LEMMA ArrivesFirst ==
  ASSUME Posted(transit, accepted), NEW S \in SUBSET transit, Bus!Arrive(S), NEW m \in S,
         NEW k \in transit, k.channel = m.channel, k.body.hart = m.body.hart
  PROVE  m.id <= k.id
<1>1. Bus!SameFlow(m, k)
  BY DEF Posted, Bus!SameFlow, Request, Response
<1>2. QED
  BY <1>1 DEF Bus!Arrive, Bus!OldestOfFlow

\* Messages that arrive stay in line: IBus delivers the oldest of their kind first.
LEMMA ArriveKeeps ==
  ASSUME Settled(transit, accepted, inbox, queue, active, response),
         NEW S \in SUBSET transit, Bus!Arrive(S), UNCHANGED <<queue, active, response>>
  PROVE  /\ Settled(transit', accepted', inbox', queue', active', response')
         /\ Ids(transit', inbox', queue', active', response') =
              Ids(transit, inbox, queue, active, response)
<1> DEFINE Z == Tokens(transit, inbox, queue, active, response)
           Y == Tokens(transit', inbox', queue', active', response')
           Left == {m.id : m \in S}
           n == Len(Contents(inbox[MemoryPort][Request]))
           End(h) == Len(Contents(inbox[h][Response]))
           Stays(z) == /\ z.stage = 5 => z.place <= n
                       /\ z.stage = 0 => z.place <= End(z.hart)
                       /\ z.stage \in {1, 6} => z.place \notin Left
           Goes(z, y) == /\ z.stage \in {1, 6} /\ y.stage = z.stage - 1
                         /\ z.place \in Left
                         /\ \A x \in Z : x.hart = z.hart /\ x.stage = z.stage => z.place <= x.place
                         /\ y.place = (IF z.stage = 6 THEN n ELSE End(z.hart)) + 1
           From(z, y) == z.hart = y.hart /\ z.id = y.id /\ ((z = y /\ Stays(z)) \/ Goes(z, y))
<1>1. /\ transit' = transit \ S /\ accepted' = accepted
      /\ queue' = queue /\ active' = active /\ response' = response
      /\ \A m, k \in S : m.dst = k.dst => m = k
  BY DEF Bus!Arrive
<1>2. /\ Posted(transit, accepted) /\ Arrivals(inbox) /\ accepted \in Nat
      /\ Bodied(queue) /\ Bodied(Serving(active)) /\ Bodied(response)
      /\ Placed(transit, accepted, inbox, queue, active, response) /\ InLine(Z)
  BY DEF Settled, Placed
<1>3. /\ Arrivals(inbox')
      /\ \A p \in Port, c \in Channel :
           \/ inbox'[p][c] = inbox[p][c] /\ \A m \in S : m.dst # p \/ m.channel # c
           \/ \E m \in S : m.dst = p /\ m.channel = c /\ inbox'[p][c] = Append(inbox[p][c], m)
  BY <1>2, ArrivedInboxes
<1>4. Placed(transit', accepted', inbox', queue', active', response')
  <2>1. Posted(transit', accepted')
    BY <1>1, <1>2 DEF Posted
  <2>2. QED
    BY <1>1, <1>2, <1>3, <2>1 DEF Placed
<1>5. Z \in SUBSET Token /\ Y \in SUBSET Token
  BY <1>2, <1>4, TokenTypes
<1>6. MemoryPort \in Port /\ Request \in Channel /\ Response \in Channel /\ Hart \subseteq Port
      /\ Request # Response
  BY DEF Port, Channel, Request, Response
<1>7. \A p \in Port, c \in Channel : Proper(inbox[p][c])
  BY <1>2 DEF Arrivals
<1>8. /\ Bodied(Contents(inbox[MemoryPort][Request]))
      /\ \A h \in Hart : Bodied(Contents(inbox[h][Response]))
  BY <1>2 DEF Arrivals
<1>9. /\ n \in Nat
      /\ \A t \in Line(Contents(inbox[MemoryPort][Request]), 5) :
           t.stage = 5 /\ t.place \in Int /\ t.place <= n
  <2>1. ASSUME NEW t \in Line(Contents(inbox[MemoryPort][Request]), 5) PROVE t.stage = 5
    BY <1>8, LineTokens
  <2>2. Proper(Contents(inbox[MemoryPort][Request]))
    BY <1>8 DEF Bodied
  <2>3. n \in Nat /\ DOMAIN Contents(inbox[MemoryPort][Request]) = 1 .. n
    BY <2>2, ProperFacts
  <2>4. QED
    BY <2>1, <2>3 DEF Line, At
<1>10. ASSUME NEW h \in Hart
       PROVE  /\ End(h) \in Nat
              /\ \A t \in Line(Contents(inbox[h][Response]), 0) :
                   t.stage = 0 /\ t.hart = h /\ t.place \in Int /\ t.place <= End(h)
  <2>1. \A t \in Line(Contents(inbox[h][Response]), 0) : t.stage = 0 /\ t.hart = h
    BY <1>2, InboxTokens
  <2>2. Proper(Contents(inbox[h][Response]))
    BY <1>8 DEF Bodied
  <2>3. End(h) \in Nat /\ DOMAIN Contents(inbox[h][Response]) = 1 .. End(h)
    BY <2>2, ProperFacts
  <2>4. QED
    BY <2>1, <2>3 DEF Line, At
<1> HIDE DEF n, End
<1>11. ASSUME NEW m \in S, NEW c, NEW s, (c = Request /\ s = 6) \/ (c = Response /\ s = 1),
              m.channel = c
       PROVE  /\ At(m.body, s, m.id) \in Z
              /\ m.id \in Left
              /\ \A x \in Z : x.hart = m.body.hart /\ x.stage = s => m.id <= x.place
  <2>1. At(m.body, s, m.id) \in Z
    BY <1>11 DEF Tokens, Sailing
  <2>2. ASSUME NEW x \in Z, x.hart = m.body.hart, x.stage = s PROVE m.id <= x.place
    <3>1. x \in Sailing(transit, c, s)
      <4>1. x \in Sailing(transit, Request, 6) => x.stage = 6
        BY <1>2, SailingTokens
      <4>2. x \in Sailing(transit, Response, 1) => x.stage = 1
        BY <1>2, SailingTokens
      <4>3. \A h \in Hart : x \in Line(Contents(inbox[h][Response]), 0) => x.stage = 0
        BY <1>10
      <4>4. /\ x \in Line(queue, 4) => x.stage = 4
            /\ x \in Line(response, 2) => x.stage = 2
        BY <1>2, LineTokens
      <4>5. /\ x \in Line(Serving(active), 3) => x.stage = 3
        BY <1>2, LineTokens
      <4>6. x \in Line(Contents(inbox[MemoryPort][Request]), 5) => x.stage = 5
        BY <1>9
      <4>7. QED
        BY <1>11, <2>2, <4>1, <4>2, <4>3, <4>4, <4>5, <4>6 DEF Tokens
    <3>2. PICK k \in transit : k.channel = c /\ x = At(k.body, s, k.id)
      BY <3>1 DEF Sailing
    <3>3. k.body.hart = m.body.hart /\ x.place = k.id
      BY <2>2, <3>2 DEF At
    <3>4. QED
      BY <1>2, <1>11, <3>2, <3>3, ArrivesFirst
  <2>3. QED
    BY <2>1, <2>2
<1>12. ASSUME NEW y \in Y PROVE \E z \in Z : From(z, y)
  <2>1. ASSUME NEW c, NEW s, (c = Request /\ s = 6) \/ (c = Response /\ s = 1),
               y \in Sailing(transit', c, s)
        PROVE  y \in Z /\ Stays(y)
    <3>1. PICK m \in transit \ S : m.channel = c /\ y = At(m.body, s, m.id)
      BY <1>1, <2>1 DEF Sailing
    <3>2. y \in Z /\ y.stage = s /\ y.place = m.id
      BY <2>1, <3>1 DEF Tokens, Sailing, At
    <3>3. m.id \notin Left
      BY <1>2, <3>1 DEF Posted
    <3>4. QED
      BY <2>1, <3>2, <3>3
  <2>2. CASE y \in Line(Contents(inbox'[MemoryPort][Request]), 5)
    <3>1. CASE y \in Line(Contents(inbox[MemoryPort][Request]), 5)
      <4>1. y \in Z /\ Stays(y)
        BY <1>9, <3>1 DEF Tokens
      <4>2. QED
        BY <4>1
    <3>2. CASE y \notin Line(Contents(inbox[MemoryPort][Request]), 5)
      <4>1. PICK m \in S : /\ m.dst = MemoryPort /\ m.channel = Request
                           /\ inbox'[MemoryPort][Request] = Append(inbox[MemoryPort][Request], m)
        BY <1>3, <1>6, <2>2, <3>2
      <4>2. Contents(inbox'[MemoryPort][Request]) = Append(Contents(inbox[MemoryPort][Request]), m.body)
        BY <1>6, <1>7, <4>1, ContentsFacts
      <4>3. Body(m.body)
        BY <1>2 DEF Posted
      <4>4. y = At(m.body, 5, n + 1)
        BY <1>8, <2>2, <3>2, <4>2, <4>3, LineAppend DEF n
      <4>5. /\ At(m.body, 6, m.id) \in Z /\ m.id \in Left
            /\ \A x \in Z : x.hart = m.body.hart /\ x.stage = 6 => m.id <= x.place
        <5>1. Request = Request /\ 6 = 6
          OBVIOUS
        <5>2. QED
          BY <1>11, <4>1, <5>1
      <4>6. From(At(m.body, 6, m.id), y)
        BY <4>4, <4>5 DEF At
      <4>7. QED
        BY <4>5, <4>6
    <3>3. QED
      BY <3>1, <3>2
  <2>3. ASSUME NEW h \in Hart, y \in Line(Contents(inbox'[h][Response]), 0)
        PROVE  \E z \in Z : From(z, y)
    <3>1. CASE y \in Line(Contents(inbox[h][Response]), 0)
      <4>1. y \in Z /\ Stays(y)
        BY <1>10, <3>1 DEF Tokens
      <4>2. QED
        BY <4>1
    <3>2. CASE y \notin Line(Contents(inbox[h][Response]), 0)
      <4>1. PICK m \in S : /\ m.dst = h /\ m.channel = Response
                           /\ inbox'[h][Response] = Append(inbox[h][Response], m)
        BY <1>3, <1>6, <2>3, <3>2
      <4>2. Contents(inbox'[h][Response]) = Append(Contents(inbox[h][Response]), m.body)
        BY <1>6, <1>7, <4>1, ContentsFacts
      <4>3. Body(m.body) /\ m.body.hart = h
        BY <1>2, <1>6, <4>1 DEF Posted
      <4>4. y = At(m.body, 0, End(h) + 1)
        BY <1>8, <2>3, <3>2, <4>2, <4>3, LineAppend DEF End
      <4>5. /\ At(m.body, 1, m.id) \in Z /\ m.id \in Left
            /\ \A x \in Z : x.hart = m.body.hart /\ x.stage = 1 => m.id <= x.place
        BY <1>11, <4>1
      <4>6. From(At(m.body, 1, m.id), y)
        BY <4>3, <4>4, <4>5 DEF At
      <4>7. QED
        BY <4>5, <4>6
    <3>3. QED
      BY <3>1, <3>2
  <2>4. ASSUME y \in Line(queue, 4) \cup Line(Serving(active), 3) \cup Line(response, 2)
        PROVE  y \in Z /\ Stays(y)
    <3>1. y \in Z
      BY <2>4 DEF Tokens
    <3>2. y.stage \in {2, 3, 4}
      BY <1>2, <2>4, LineTokens
    <3>3. QED
      BY <3>1, <3>2
  <2>5. QED
    <3>1. \/ y \in Sailing(transit', Request, 6) \/ y \in Sailing(transit', Response, 1)
          \/ y \in Line(Contents(inbox'[MemoryPort][Request]), 5)
          \/ \E h \in Hart : y \in Line(Contents(inbox'[h][Response]), 0)
          \/ y \in Line(queue', 4) \cup Line(Serving(active'), 3) \cup Line(response', 2)
      BY DEF Tokens
    <3>2. CASE y \in Z /\ Stays(y)
      BY <3>2
    <3>3. QED
      BY <1>1, <2>1, <2>2, <2>3, <2>4, <3>1, <3>2
<1>13. ASSUME NEW z \in Z PROVE \E y \in Y : z.hart = y.hart /\ z.id = y.id
  <2>1. ASSUME NEW c, NEW s, (c = Request /\ s = 6) \/ (c = Response /\ s = 1),
               z \in Sailing(transit, c, s)
        PROVE  \E y \in Y : z.hart = y.hart /\ z.id = y.id
    <3>1. PICK m \in transit : m.channel = c /\ z = At(m.body, s, m.id)
      BY <2>1 DEF Sailing
    <3>2. CASE m \notin S
      BY <1>1, <2>1, <3>1, <3>2 DEF Tokens, Sailing
    <3>3. CASE m \in S
      <4>1. Body(m.body) /\ m.dst \in Port
        BY <1>2, <1>6 DEF Posted, Body
      <4>2. c \in Channel
        BY <1>6, <2>1
      <4>3. inbox'[m.dst][c] = Append(inbox[m.dst][c], m)
        BY <1>1, <1>3, <3>1, <3>3, <4>1, <4>2
      <4>4. Contents(inbox'[m.dst][c]) = Append(Contents(inbox[m.dst][c]), m.body)
        BY <1>7, <4>1, <4>2, <4>3, ContentsFacts
      <4>5. CASE c = Request
        <5>1. m.dst = MemoryPort
          BY <1>2, <1>6, <3>1, <4>5 DEF Posted
        <5>2. At(m.body, 5, n + 1) \in Line(Contents(inbox'[MemoryPort][Request]), 5)
          <6>1. At(m.body, 5, n + 1) \in Line(Append(Contents(inbox[MemoryPort][Request]), m.body), 5)
            BY <1>8, <4>1, LineAppend DEF n
          <6>2. QED
            BY <4>4, <4>5, <5>1, <6>1
        <5>3. QED
          BY <3>1, <5>2 DEF Tokens, At
      <4>6. CASE c = Response
        <5>1. m.dst = m.body.hart
          BY <1>2, <1>6, <3>1, <4>6 DEF Posted
        <5>2. m.body.hart \in Hart
          BY <4>1 DEF Body
        <5>3. At(m.body, 0, End(m.dst) + 1) \in Line(Contents(inbox'[m.dst][Response]), 0)
          <6>1. Bodied(Contents(inbox[m.dst][Response]))
            BY <1>8, <5>1, <5>2
          <6>2. At(m.body, 0, End(m.dst) + 1) \in Line(Append(Contents(inbox[m.dst][Response]), m.body), 0)
            BY <4>1, <6>1, LineAppend DEF End
          <6>3. QED
            BY <4>4, <4>6, <6>2
        <5>4. QED
          BY <3>1, <5>1, <5>2, <5>3 DEF Tokens, At
      <4>7. QED
        BY <2>1, <4>5, <4>6
    <3>4. QED
      BY <3>2, <3>3
  <2>2. ASSUME z \in Line(Contents(inbox[MemoryPort][Request]), 5) PROVE z \in Y
    <3>1. \A m \in S : Contents(Append(inbox[MemoryPort][Request], m)) =
                         Append(Contents(inbox[MemoryPort][Request]), m.body) /\ Body(m.body)
      BY <1>2, <1>6, <1>7, ContentsFacts DEF Posted
    <3>2. \A m \in S : z \in Line(Contents(Append(inbox[MemoryPort][Request], m)), 5)
      <4>1. \A b : Body(b) => z \in Line(Append(Contents(inbox[MemoryPort][Request]), b), 5)
        BY <1>8, <2>2, LineAppend
      <4>2. QED
        BY <3>1, <4>1
    <3>3. \/ inbox'[MemoryPort][Request] = inbox[MemoryPort][Request]
          \/ \E m \in S : inbox'[MemoryPort][Request] = Append(inbox[MemoryPort][Request], m)
      BY <1>3, <1>6
    <3>4. z \in Line(Contents(inbox'[MemoryPort][Request]), 5)
      BY <2>2, <3>2, <3>3
    <3>5. QED
      BY <3>4 DEF Tokens
  <2>3. ASSUME NEW h \in Hart, z \in Line(Contents(inbox[h][Response]), 0) PROVE z \in Y
    <3>1. \A m \in S : Contents(Append(inbox[h][Response], m)) =
                         Append(Contents(inbox[h][Response]), m.body) /\ Body(m.body)
      BY <1>2, <1>6, <1>7, ContentsFacts DEF Posted
    <3>2. \A m \in S : z \in Line(Contents(Append(inbox[h][Response], m)), 0)
      <4>1. \A b : Body(b) => z \in Line(Append(Contents(inbox[h][Response]), b), 0)
        BY <1>8, <2>3, LineAppend
      <4>2. QED
        BY <3>1, <4>1
    <3>3. h \in Port
      BY <1>6
    <3>4. \/ inbox'[h][Response] = inbox[h][Response]
          \/ \E m \in S : inbox'[h][Response] = Append(inbox[h][Response], m)
      BY <1>3, <1>6, <3>3
    <3>5. z \in Line(Contents(inbox'[h][Response]), 0)
      BY <2>3, <3>2, <3>4
    <3>6. QED
      BY <3>5 DEF Tokens
  <2>4. ASSUME z \in Line(queue, 4) \cup Line(Serving(active), 3) \cup Line(response, 2) PROVE z \in Y
    BY <1>1, <2>4 DEF Tokens
  <2>5. \/ z \in Sailing(transit, Request, 6) \/ z \in Sailing(transit, Response, 1)
        \/ z \in Line(Contents(inbox[MemoryPort][Request]), 5)
        \/ \E h \in Hart : z \in Line(Contents(inbox[h][Response]), 0)
        \/ z \in Line(queue, 4) \cup Line(Serving(active), 3) \cup Line(response, 2)
    BY DEF Tokens
  <2>6. CASE z \in Y
    BY <2>6
  <2>7. QED
    BY <2>1, <2>2, <2>3, <2>4, <2>5, <2>6
<1> HIDE DEF Y, Z, Left
<1>14. InLine(Y)
  <2> SUFFICES ASSUME NEW t \in Y, NEW u \in Y, t.hart = u.hart, Ahead(t, u) PROVE t.id < u.id
    BY DEF InLine
  <2>1. PICK v \in Z : From(v, t)
    BY <1>12
  <2>2. PICK w \in Z : From(w, u)
    BY <1>12
  <2>3. /\ v.stage \in 0 .. 6 /\ w.stage \in 0 .. 6 /\ v.place \in Int /\ w.place \in Int
        /\ v.hart \in Hart /\ w.hart \in Hart
    BY <1>5 DEF Token
  <2>4. End(v.hart) \in Nat
    BY <1>10, <2>3
  <2>5. Ahead(v, w)
    <3>1. CASE v = t /\ w = u
      BY <3>1
    <3>2. CASE v = t /\ Goes(w, u)
      BY <2>3, <3>2 DEF Ahead
    <3>3. CASE Goes(v, t) /\ w = u /\ Stays(w)
      BY <1>9, <2>1, <2>2, <2>3, <2>4, <3>3 DEF Ahead
    <3>4. CASE Goes(v, t) /\ Goes(w, u)
      BY <1>9, <2>1, <2>2, <2>3, <2>4, <3>4 DEF Ahead
    <3>5. QED
      BY <2>1, <2>2, <3>1, <3>2, <3>3, <3>4
  <2>6. v.hart = w.hart /\ v.id = t.id /\ w.id = u.id
    BY <2>1, <2>2
  <2>7. v.id < w.id
    BY <1>2, <2>5, <2>6 DEF InLine
  <2>8. QED
    BY <2>6, <2>7
<1>15. ASSUME NEW h PROVE IdsOf(Y, h) = IdsOf(Z, h)
  <2>1. \A y \in Y : \E z \in Z : z.hart = y.hart /\ z.id = y.id
    BY <1>12
  <2>2. QED
    BY <1>13, <2>1 DEF IdsOf
<1>16. QED
  BY <1>4, <1>14, <1>15 DEF Y, Z, Settled, Ids

-------------------------------------------------------------------------------
(***************************************************************************)
(* The memory controller: the moves of its cycle, one after the other.     *)
(***************************************************************************)
Waiting(I) == Line(Contents(I[MemoryPort][Request]), 5)
Home(I) == UNION {Line(Contents(I[h][Response]), 0) : h \in Hart}

\* Which stage each part of the line is at.
LEMMA Stages ==
  ASSUME NEW T, NEW n, NEW I, NEW Q, NEW A, NEW R, Placed(T, n, I, Q, A, R)
  PROVE  /\ \A t \in Sailing(T, Request, 6) : t \in Token /\ t.stage = 6 /\ t.place <= n
         /\ \A t \in Waiting(I) : t \in Token /\ t.stage = 5
         /\ \A t \in Line(Q, 4) : t \in Token /\ t.stage = 4
         /\ \A t \in Line(Serving(A), 3) : t \in Token /\ t.stage = 3
         /\ \A t \in Line(R, 2) : t \in Token /\ t.stage = 2
         /\ \A t \in Sailing(T, Response, 1) : t \in Token /\ t.stage = 1 /\ t.place <= n
         /\ \A t \in Home(I) : t \in Token /\ t.stage = 0
<1>1. /\ \A t \in Sailing(T, Request, 6) : t \in Token /\ t.stage = 6 /\ t.place <= n
      /\ \A t \in Sailing(T, Response, 1) : t \in Token /\ t.stage = 1 /\ t.place <= n
  BY SailingTokens DEF Placed
<1>2. \A t \in Waiting(I) : t \in Token /\ t.stage = 5
  BY LineTokens DEF Placed, Arrivals, Waiting
<1>3. /\ \A t \in Line(Q, 4) : t \in Token /\ t.stage = 4
      /\ \A t \in Line(R, 2) : t \in Token /\ t.stage = 2
  BY LineTokens DEF Placed
<1>4. \A t \in Line(Serving(A), 3) : t \in Token /\ t.stage = 3
  BY LineTokens DEF Placed
<1>5. \A t \in Home(I) : t \in Token /\ t.stage = 0
  BY InboxTokens DEF Placed, Home
<1>6. QED
  BY <1>1, <1>2, <1>3, <1>4, <1>5

\* The response goes into the bus.
AnswerOf(n, r) ==
  [id |-> n + 1, src |-> MemoryPort, dst |-> r.hart, channel |-> Response, body |-> r]

\* The controller sends its response (MemoryController::tick, the send).
LEMMA Answer ==
  ASSUME NEW T, NEW n, NEW I, NEW Q, NEW A, NEW r, Settled(T, n, I, Q, A, <<r>>)
  PROVE  /\ Settled(T \cup {AnswerOf(n, r)}, n + 1, I, Q, A, <<>>)
         /\ Ids(T \cup {AnswerOf(n, r)}, I, Q, A, <<>>) = Ids(T, I, Q, A, <<r>>)
<1> DEFINE m == AnswerOf(n, r)
           C == Sailing(T, Request, 6) \cup Waiting(I) \cup Line(Q, 4) \cup Line(Serving(A), 3) \cup Home(I)
           B == Sailing(T, Response, 1)
           Z == Tokens(T, I, Q, A, <<r>>)
           Y == Tokens(T \cup {m}, I, Q, A, <<>>)
<1>1. /\ Placed(T, n, I, Q, A, <<r>>) /\ InLine(Z)
      /\ n \in Nat /\ Posted(T, n) /\ Bodied(<<r>>) /\ <<r>> # <<>>
  BY DEF Settled, Placed
<1>2. Body(r)
  BY <1>1, ProperOne DEF Bodied
<1>3. m.id = n + 1 /\ m.src = MemoryPort /\ m.dst = r.hart /\ m.channel = Response /\ m.body = r
  BY DEF AnswerOf
<1> HIDE DEF m
<1>4. Placed(T \cup {m}, n + 1, I, Q, A, <<>>)
  <2>1. Posted(T \cup {m}, n + 1)
    BY <1>1, <1>2, <1>3 DEF Posted
  <2>2. QED
    BY <1>1, <2>1, LineEmpty DEF Placed
<1>5. /\ C \in SUBSET Token /\ B \in SUBSET Token
      /\ \A t \in C : t.stage # 2 /\ t.stage # 1
      /\ \A t \in B : t.stage = 1 /\ t.place < n + 1
  <2>1. C \in SUBSET Token /\ \A t \in C : t.stage # 2 /\ t.stage # 1
    BY <1>1, Stages
  <2>2. \A t \in B : t \in Token /\ t.stage = 1 /\ t.place <= n
    BY <1>1, Stages
  <2>3. \A t \in B : t.place \in Int
    BY <2>2 DEF Token
  <2>4. QED
    BY <1>1, <2>1, <2>2, <2>3
<1>6. Z = C \cup B \cup Line(<<r>>, 2)
  BY DEF Tokens, Waiting, Home
<1>7. Y = C \cup (B \cup {At(r, 1, n + 1)}) \cup Line(<<>>, 2)
  <2>1. Request # Response
    BY DEF Request, Response
  <2>2. Sailing(T \cup {m}, Request, 6) = Sailing(T, Request, 6)
    BY <1>3, <2>1 DEF Sailing
  <2>3. Sailing(T \cup {m}, Response, 1) = B \cup {At(r, 1, n + 1)}
    BY <1>3 DEF Sailing
  <2>4. QED
    BY <2>2, <2>3 DEF Tokens, Waiting, Home
<1>8. Head(<<r>>) = r /\ Tail(<<r>>) = <<>>
  OBVIOUS
<1> HIDE DEF B, C, Y, Z
<1>9. InLine(Y) /\ \A h : IdsOf(Y, h) = IdsOf(Z, h)
  <2>1. CanMove(C, B, <<r>>, 2, 1, n + 1)
    BY <1>1, <1>5 DEF CanMove
  <2>2. Z = Unmoved(C, B, <<r>>, 2) /\ InLine(Z)
    BY <1>1, <1>6 DEF Unmoved
  <2>3. Y = Moved(C, B, <<r>>, 2, 1, n + 1)
    BY <1>7, <1>8 DEF Moved
  <2>4. QED
    BY <2>1, <2>2, <2>3, MoveHead
<1>10. QED
  BY <1>4, <1>9 DEF Y, Z, m, Settled, Ids

\* A request leaves the inbox of the memory for the queue.
Emptier(I) == [I EXCEPT ![MemoryPort][Request] = Tail(@)]
Fuller(Q, I) == Append(Q, Head(I[MemoryPort][Request]).body)

\* The controller takes a request from its inbox into the queue (accept_messages).
LEMMA Take ==
  ASSUME NEW T, NEW n, NEW I, NEW Q, NEW A, NEW R, Settled(T, n, I, Q, A, R),
         I[MemoryPort][Request] # <<>>
  PROVE  /\ Settled(T, n, Emptier(I), Fuller(Q, I), A, R)
         /\ Ids(T, Emptier(I), Fuller(Q, I), A, R) = Ids(T, I, Q, A, R)
<1> DEFINE q == I[MemoryPort][Request]
           f == Contents(q)
           J == Emptier(I)
           b == Head(q).body
           P == Fuller(Q, I)
           C == Sailing(T, Request, 6) \cup Line(Serving(A), 3) \cup Line(R, 2)
                \cup Sailing(T, Response, 1) \cup Home(I)
           B == Line(Q, 4)
           Z == Tokens(T, I, Q, A, R)
           Y == Tokens(T, J, P, A, R)
<1>1. Placed(T, n, I, Q, A, R) /\ InLine(Z) /\ n \in Nat /\ Arrivals(I) /\ Bodied(Q)
  BY DEF Settled, Placed
<1>2. MemoryPort \in Port /\ Request \in Channel /\ Response \in Channel /\ Request # Response
      /\ Hart \subseteq Port /\ MemoryPort \notin Hart
  BY SystemAssumption DEF Port, Channel, Request, Response, Hart, MemoryPort
<1>3. Proper(q) /\ Bodied(f)
  BY <1>1, <1>2 DEF Arrivals
<1>4. f # <<>> /\ Head(f) = b /\ Contents(Tail(q)) = Tail(f) /\ Body(b)
  <2>1. f # <<>> /\ Head(f) = b /\ Contents(Tail(q)) = Tail(f)
    <3> HIDE DEF q
    <3>1. q # <<>>
      BY DEF q
    <3>2. QED
      BY <1>3, <3>1, ContentsFacts
  <2>2. Proper(f)
    BY <1>3 DEF Bodied
  <2>3. 1 \in DOMAIN f /\ Head(f) = f[1]
    BY <2>1, <2>2, ProperFacts
  <2>4. QED
    BY <1>3, <2>1, <2>3 DEF Bodied
<1>5. /\ J[MemoryPort][Request] = Tail(q)
      /\ \A h \in Hart : J[h][Response] = I[h][Response]
      /\ DOMAIN J = Port /\ \A p \in Port : DOMAIN J[p] = Channel
      /\ \A p \in Port, c \in Channel : J[p][c] = Tail(q) \/ J[p][c] = I[p][c]
  BY <1>1, <1>2 DEF Arrivals, Emptier
<1>6. Proper(Tail(q)) /\ Bodied(Tail(f))
  <2>1. /\ Proper(Tail(q)) /\ Proper(Tail(f))
        /\ \A i \in DOMAIN Tail(f) : i + 1 \in DOMAIN f /\ Tail(f)[i] = f[i + 1]
    BY <1>3, <1>4, TailFacts DEF Bodied
  <2>2. QED
    BY <1>3, <2>1 DEF Bodied
<1>7. /\ Bodied(P) /\ Line(P, 4) = B \cup {At(b, 4, Len(Q) + 1)} /\ Len(Q) \in Nat
      /\ \A t \in B : t.place \in Int /\ t.place <= Len(Q)
  BY <1>1, <1>4, LineAppend DEF Fuller
<1> HIDE DEF J, q, f, b, P
<1>8. Placed(T, n, J, P, A, R)
  <2>1. Contents(J[MemoryPort][Request]) = Tail(f)
    BY <1>4, <1>5
  <2>2. Arrivals(J)
    <3>1. \A p \in Port, c \in Channel : Proper(J[p][c])
      BY <1>1, <1>5, <1>6 DEF Arrivals
    <3>2. Bodied(Contents(J[MemoryPort][Request]))
      BY <1>6, <2>1
    <3>3. \A h \in Hart : Bodied(Contents(J[h][Response]))
                          /\ \A i \in DOMAIN J[h][Response] : J[h][Response][i].body.hart = h
      BY <1>1, <1>5 DEF Arrivals
    <3>4. QED
      BY <1>5, <3>1, <3>2, <3>3 DEF Arrivals
  <2>3. QED
    BY <1>1, <1>7, <2>2 DEF Placed
<1>9. /\ C \in SUBSET Token /\ B \in SUBSET Token
      /\ \A t \in C : t.stage # 5 /\ t.stage # 4
      /\ \A t \in B : t.stage = 4 /\ t.place < Len(Q) + 1
  <2>1. C \in SUBSET Token /\ \A t \in C : t.stage # 5 /\ t.stage # 4
    BY <1>1, Stages
  <2>2. \A t \in B : t \in Token /\ t.stage = 4
    BY <1>1, Stages
  <2>3. QED
    BY <1>7, <2>1, <2>2
<1>10. Z = C \cup B \cup Line(f, 5)
  BY DEF Tokens, Waiting, Home, f, q
<1>11. Y = C \cup (B \cup {At(b, 4, Len(Q) + 1)}) \cup Line(Tail(f), 5)
  <2>1. Home(J) = Home(I)
    BY <1>5 DEF Home
  <2>2. Contents(J[MemoryPort][Request]) = Tail(f)
    BY <1>4, <1>5
  <2>3. QED
    BY <1>7, <2>1, <2>2 DEF Tokens, Waiting, Home
<1> HIDE DEF B, C, Y, Z
<1>12. InLine(Y) /\ \A h : IdsOf(Y, h) = IdsOf(Z, h)
  <2>1. CanMove(C, B, f, 5, 4, Len(Q) + 1)
    BY <1>3, <1>4, <1>7, <1>9 DEF CanMove
  <2>2. Z = Unmoved(C, B, f, 5) /\ InLine(Z)
    BY <1>1, <1>10 DEF Unmoved
  <2>3. Y = Moved(C, B, f, 5, 4, Len(Q) + 1)
    BY <1>4, <1>11 DEF Moved
  <2>4. QED
    BY <2>1, <2>2, <2>3, MoveHead
<1>13. QED
  BY <1>8, <1>12 DEF Y, Z, J, P, Settled, Ids
\* A place with room for one.
Slot(s) == s = <<>> \/ s = <<s[1]>>

\* The oldest request in the queue goes into service.
LEMMA Start ==
  ASSUME NEW T, NEW n, NEW I, NEW Q, NEW R, NEW a, Settled(T, n, I, Q, <<>>, R),
         Q # <<>>, a.request = Head(Q)
  PROVE  /\ Settled(T, n, I, Tail(Q), <<a>>, R)
         /\ Ids(T, I, Tail(Q), <<a>>, R) = Ids(T, I, Q, <<>>, R)
<1> DEFINE b == Head(Q)
           C == Sailing(T, Request, 6) \cup Waiting(I) \cup Line(R, 2) \cup Sailing(T, Response, 1)
                \cup Home(I)
           Z == Tokens(T, I, Q, <<>>, R)
           Y == Tokens(T, I, Tail(Q), <<a>>, R)
<1>1. Placed(T, n, I, Q, <<>>, R) /\ InLine(Z) /\ Bodied(Q) /\ Proper(Q)
  BY DEF Settled, Placed, Bodied
<1>2. Body(b) /\ Bodied(Tail(Q))
  <2>1. 1 \in DOMAIN Q /\ Head(Q) = Q[1]
    BY <1>1, ProperFacts
  <2>2. Proper(Tail(Q)) /\ \A i \in DOMAIN Tail(Q) : i + 1 \in DOMAIN Q /\ Tail(Q)[i] = Q[i + 1]
    BY <1>1, TailFacts
  <2>3. QED
    BY <1>1, <2>1, <2>2 DEF Bodied
<1> HIDE DEF b
<1>3. Serving(<<a>>) = <<b>> /\ Serving(<<>>) = <<>>
  BY ServingFacts DEF b
<1>4. Placed(T, n, I, Tail(Q), <<a>>, R)
  BY <1>1, <1>2, <1>3, LineOne DEF Placed
<1>5. C \in SUBSET Token /\ \A t \in C : t.stage # 4 /\ t.stage # 3
  BY <1>1, Stages
<1>6. Z = C \cup {} \cup Line(Q, 4)
  <2>1. Line(Serving(<<>>), 3) = {}
    BY <1>3, LineEmpty
  <2>2. QED
    BY <2>1 DEF Tokens, Waiting, Home
<1>7. Y = C \cup ({} \cup {At(b, 3, 1)}) \cup Line(Tail(Q), 4)
  <2>1. Line(Serving(<<a>>), 3) = {At(b, 3, 1)}
    BY <1>2, <1>3, LineOne
  <2>2. QED
    BY <2>1 DEF Tokens, Waiting, Home
<1> HIDE DEF C, Y, Z
<1>8. InLine(Y) /\ \A h : IdsOf(Y, h) = IdsOf(Z, h)
  <2>1. CanMove(C, {}, Q, 4, 3, 1)
    BY <1>1, <1>5 DEF CanMove
  <2>2. Z = Unmoved(C, {}, Q, 4) /\ InLine(Z)
    BY <1>1, <1>6 DEF Unmoved
  <2>3. Y = Moved(C, {}, Q, 4, 3, 1)
    BY <1>7 DEF Moved, b
  <2>4. QED
    BY <2>1, <2>2, <2>3, MoveHead
<1>9. QED
  BY <1>4, <1>8 DEF Y, Z, Settled, Ids

\* The request in service is answered.
LEMMA Finish ==
  ASSUME NEW T, NEW n, NEW I, NEW Q, NEW a, NEW r, Settled(T, n, I, Q, <<a>>, <<>>),
         r.hart = a.request.hart, r.transaction = a.request.transaction
  PROVE  /\ Settled(T, n, I, Q, <<>>, <<r>>)
         /\ Ids(T, I, Q, <<>>, <<r>>) = Ids(T, I, Q, <<a>>, <<>>)
<1> DEFINE b == a.request
           C == Sailing(T, Request, 6) \cup Waiting(I) \cup Line(Q, 4) \cup Sailing(T, Response, 1)
                \cup Home(I)
           Z == Tokens(T, I, Q, <<a>>, <<>>)
           Y == Tokens(T, I, Q, <<>>, <<r>>)
<1>0. Placed(T, n, I, Q, <<a>>, <<>>) /\ InLine(Z)
  BY DEF Settled
<1>1. Serving(<<a>>) = <<b>> /\ Serving(<<>>) = <<>>
  BY ServingFacts
<1>2. Bodied(<<b>>) /\ <<b>> # <<>> /\ Head(<<b>>) = b /\ Tail(<<b>>) = <<>>
  BY <1>0, <1>1 DEF Placed
<1>3. Body(b) /\ Body(r)
  <2>1. Body(b)
    BY <1>2, ProperOne DEF Bodied
  <2>2. QED
    BY <2>1 DEF Body
<1> HIDE DEF b
<1>4. Placed(T, n, I, Q, <<>>, <<r>>)
  BY <1>0, <1>1, <1>3, LineOne, LineEmpty DEF Placed
<1>5. C \in SUBSET Token /\ \A t \in C : t.stage # 3 /\ t.stage # 2
  BY <1>0, Stages
<1>6. Z = C \cup {} \cup Line(<<b>>, 3)
  <2>1. Line(<<>>, 2) = {}
    BY LineEmpty
  <2>2. QED
    BY <1>1, <2>1 DEF Tokens, Waiting, Home
<1>7. Y = C \cup ({} \cup {At(b, 2, 1)}) \cup Line(<<>>, 3)
  <2>1. Line(<<r>>, 2) = {At(r, 2, 1)} /\ At(r, 2, 1) = At(b, 2, 1)
    BY <1>3, LineOne DEF At, b
  <2>2. QED
    BY <1>1, <2>1 DEF Tokens, Waiting, Home
<1> HIDE DEF C, Y, Z
<1>8. InLine(Y) /\ \A h : IdsOf(Y, h) = IdsOf(Z, h)
  <2>1. CanMove(C, {}, <<b>>, 3, 2, 1)
    BY <1>2, <1>5 DEF CanMove
  <2>2. Z = Unmoved(C, {}, <<b>>, 3) /\ InLine(Z)
    BY <1>0, <1>6 DEF Unmoved
  <2>3. Y = Moved(C, {}, <<b>>, 3, 2, 1)
    BY <1>2, <1>7 DEF Moved
  <2>4. QED
    BY <2>1, <2>2, <2>3, MoveHead
<1>9. QED
  BY <1>4, <1>8 DEF Y, Z, Settled, Ids

(***************************************************************************)
(* A cycle of the controller leaves every hart the same ids, in the same   *)
(* order.                                                                  *)
(***************************************************************************)
UnderService(A, R) == Slot(A) /\ Slot(R) /\ (A # <<>> => DOMAIN A[1] = {"request", "left"})

\* A tick of the controller keeps the line, and the ids under way for every hart.
LEMMA MemoryKeeps ==
  ASSUME Settled(transit, accepted, inbox, queue, active, response),
         UnderService(active, response), MemoryTick
  PROVE  /\ Settled(transit', accepted', inbox', queue', active', response')
         /\ UnderService(active', response')
         /\ Ids(transit', inbox', queue', active', response') =
              Ids(transit, inbox, queue, active, response)
<1> DEFINE old == Ids(transit, inbox, queue, active, response)
<1>1. PICK sent \in BOOLEAN : (sent => response # <<>>) /\ Serve(sent) /\ Exchange(sent)
  BY DEF MemoryTick
<1> DEFINE unsent == Unsent(sent)
<1>2. /\ Settled(transit', accepted', inbox, queue, active, unsent)
      /\ Ids(transit', inbox, queue, active, unsent) = old
  <2>1. CASE ~sent
    BY <1>1, <2>1 DEF Exchange, Unsent
  <2>2. CASE sent
    <3> DEFINE r == response[1]
    <3>1. response = <<r>>
      BY <1>1, <2>2 DEF UnderService, Slot
    <3>2. /\ accepted' = accepted + 1 /\ unsent = <<>>
          /\ transit' = transit \cup {AnswerOf(accepted, r)}
      BY <1>1, <2>2 DEF Exchange, Unsent, AnswerOf
    <3> HIDE DEF r, unsent
    <3>3. /\ Settled(transit \cup {AnswerOf(accepted, r)}, accepted + 1, inbox, queue, active, <<>>)
          /\ Ids(transit \cup {AnswerOf(accepted, r)}, inbox, queue, active, <<>>) =
               Ids(transit, inbox, queue, active, <<r>>)
      BY <3>1, Answer
    <3>4. QED
      BY <3>1, <3>2, <3>3
  <2>3. QED
    BY <2>1, <2>2
<1>3. unsent = <<>> \/ unsent = response
  BY DEF Unsent
<1> HIDE DEF unsent, old
<1>4. /\ Settled(transit', accepted', inbox', Taken, active, unsent)
      /\ Ids(transit', inbox', Taken, active, unsent) = old
  <2>1. CASE ~MayTake
    BY <1>1, <1>2, <2>1 DEF Exchange, Taken
  <2>2. CASE MayTake
    <3>1. inbox' = Emptier(inbox) /\ Taken = Fuller(queue, inbox) /\ inbox[MemoryPort][Request] # <<>>
      BY <1>1, <2>2 DEF Exchange, Taken, Received, MayTake, CanRecv, Emptier, Fuller
    <3>2. /\ Settled(transit', accepted', Emptier(inbox), Fuller(queue, inbox), active, unsent)
          /\ Ids(transit', Emptier(inbox), Fuller(queue, inbox), active, unsent) =
               Ids(transit', inbox, queue, active, unsent)
      BY <1>2, <3>1, Take
    <3>3. QED
      BY <1>2, <3>1, <3>2
  <2>3. QED
    BY <2>1, <2>2
<1> DEFINE advancing == active # <<>> /\ unsent = <<>>
           done == advancing /\ active[1].left = 1
           starting == unsent = <<>> /\ ~done /\ active = <<>> /\ Taken # <<>>
<1>5. /\ response' = IF done THEN <<ResponseTo(active[1].request)>> ELSE unsent
      /\ active' = CASE done -> <<>>
                     [] advancing /\ ~done -> <<[active[1] EXCEPT !.left = @ - 1]>>
                     [] starting -> <<[request |-> Head(Taken), left |-> ServiceLatency]>>
                     [] OTHER -> active
      /\ queue' = IF starting THEN Tail(Taken) ELSE Taken
  BY <1>1 DEF Serve, unsent
<1>6. Slot(unsent) /\ Slot(active) /\ (active # <<>> => DOMAIN active[1] = {"request", "left"})
  BY <1>3 DEF UnderService, Slot
<1>7. CASE done
  <2> DEFINE a == active[1]
             r == ResponseTo(a.request)
  <2>1. active = <<a>> /\ unsent = <<>> /\ queue' = Taken /\ active' = <<>> /\ response' = <<r>>
    BY <1>5, <1>6, <1>7 DEF Slot
  <2>2. r.hart = a.request.hart /\ r.transaction = a.request.transaction
    BY DEF ResponseTo
  <2> HIDE DEF a, r
  <2>3. /\ Settled(transit', accepted', inbox', Taken, <<>>, <<r>>)
        /\ Ids(transit', inbox', Taken, <<>>, <<r>>) = Ids(transit', inbox', Taken, <<a>>, <<>>)
    BY <1>4, <2>1, <2>2, Finish
  <2>4. UnderService(active', response')
    BY <2>1 DEF UnderService, Slot
  <2>5. QED
    BY <1>4, <2>1, <2>3, <2>4 DEF old
<1>8. CASE advancing /\ ~done
  <2> DEFINE a == active[1]
             b == [active[1] EXCEPT !.left = @ - 1]
  <2>1. /\ active = <<a>> /\ queue' = Taken /\ active' = <<b>> /\ response' = unsent
        /\ b.request = a.request /\ DOMAIN b = {"request", "left"}
    BY <1>5, <1>6, <1>8 DEF Slot
  <2> HIDE DEF a, b
  <2>2. Serving(active') = Serving(active)
    BY <2>1, ServingFacts
  <2>3. /\ Settled(transit', accepted', inbox', queue', active', response')
        /\ Ids(transit', inbox', queue', active', response') = old
    BY <1>4, <2>1, <2>2 DEF Settled, Placed, Tokens, Ids
  <2>4. UnderService(active', response')
    BY <1>6, <2>1 DEF UnderService, Slot
  <2>5. QED
    BY <2>3, <2>4 DEF old
<1>9. CASE starting
  <2> DEFINE a == [request |-> Head(Taken), left |-> ServiceLatency]
  <2>1. /\ active = <<>> /\ queue' = Tail(Taken) /\ active' = <<a>> /\ response' = unsent
        /\ Taken # <<>> /\ a.request = Head(Taken) /\ DOMAIN a = {"request", "left"}
    BY <1>5, <1>9
  <2> HIDE DEF a
  <2>2. /\ Settled(transit', accepted', inbox', Tail(Taken), <<a>>, unsent)
        /\ Ids(transit', inbox', Tail(Taken), <<a>>, unsent) =
             Ids(transit', inbox', Taken, <<>>, unsent)
    <3>1. Settled(transit', accepted', inbox', Taken, <<>>, unsent)
      BY <1>4, <2>1
    <3>2. Taken # <<>> /\ a.request = Head(Taken)
      BY <2>1
    <3>3. QED
      BY <3>1, <3>2, Start
  <2>3. UnderService(active', response')
    BY <1>6, <2>1 DEF UnderService, Slot
  <2>4. QED
    BY <1>4, <2>1, <2>2, <2>3 DEF old
<1>10. CASE ~done /\ ~advancing /\ ~starting
  <2>1. queue' = Taken /\ active' = active /\ response' = unsent
    BY <1>5, <1>10
  <2>2. QED
    BY <1>4, <1>6, <2>1 DEF UnderService, old
<1>11. QED
  BY <1>7, <1>8, <1>9, <1>10

-------------------------------------------------------------------------------
(***************************************************************************)
(* The harts: what they send joins their line at its end, what they        *)
(* receive is its first.                                                   *)
(***************************************************************************)
RequestLetter(n, b) ==
  [id |-> n + 1, src |-> b.hart, dst |-> MemoryPort, channel |-> Request, body |-> b]

\* A request joins the line at its end if its id is higher than those of its hart.
LEMMA SendRequest ==
  ASSUME NEW T, NEW n, NEW I, NEW Q, NEW A, NEW R, Settled(T, n, I, Q, A, R),
         NEW b, Body(b), \A i \in Ids(T, I, Q, A, R)[b.hart] : i < b.transaction
  PROVE  LET ids == Ids(T, I, Q, A, R) IN
         /\ Settled(T \cup {RequestLetter(n, b)}, n + 1, I, Q, A, R)
         /\ Ids(T \cup {RequestLetter(n, b)}, I, Q, A, R) =
              [ids EXCEPT ![b.hart] = @ \cup {b.transaction}]
<1> DEFINE m == RequestLetter(n, b)
           y == At(b, 6, n + 1)
           Z == Tokens(T, I, Q, A, R)
           Y == Tokens(T \cup {m}, I, Q, A, R)
<1>1. Placed(T, n, I, Q, A, R) /\ InLine(Z) /\ n \in Nat /\ Posted(T, n)
  BY DEF Settled, Placed
<1>2. /\ m.id = n + 1 /\ m.src = b.hart /\ m.dst = MemoryPort /\ m.channel = Request /\ m.body = b
  BY DEF RequestLetter
<1> HIDE DEF m
<1>3. Placed(T \cup {m}, n + 1, I, Q, A, R)
  <2>1. Posted(T \cup {m}, n + 1)
    BY <1>1, <1>2 DEF Posted
  <2>2. QED
    BY <1>1, <2>1 DEF Placed
<1>4. Z \in SUBSET Token /\ \A t \in Z : t.stage = 6 => t.place <= n /\ t.place \in Int
  <2>1. Z \in SUBSET Token
    BY <1>1, TokenTypes
  <2>2. \A t \in Z : t.stage = 6 => t.place <= n
    BY <1>1, Stages DEF Tokens, Waiting, Home
  <2>3. QED
    BY <2>1, <2>2 DEF Token
<1>5. Y = Z \cup {y}
  <2>1. Request # Response
    BY DEF Request, Response
  <2>2. Sailing(T \cup {m}, Response, 1) = Sailing(T, Response, 1)
    BY <1>2, <2>1 DEF Sailing
  <2>3. Sailing(T \cup {m}, Request, 6) = Sailing(T, Request, 6) \cup {y}
    BY <1>2 DEF Sailing
  <2>4. QED
    BY <2>2, <2>3 DEF Tokens
<1>6. y \in Token /\ y.stage = 6 /\ y.place = n + 1 /\ y.hart = b.hart /\ y.id = b.transaction
  BY <1>1 DEF At, Token, Body
<1>7. \A i \in IdsOf(Z, b.hart) : i < b.transaction
  BY <1>6 DEF Ids, Body
<1> HIDE DEF y, Y, Z
<1>8. /\ InLine(Z \cup {y})
      /\ IdsOf(Z \cup {y}, y.hart) = IdsOf(Z, y.hart) \cup {y.id}
      /\ \A g : g # y.hart => IdsOf(Z \cup {y}, g) = IdsOf(Z, g)
  <2>1. \A t \in Z : t.stage = 6 => t.place < y.place
    BY <1>1, <1>4, <1>6
  <2>2. \A i \in IdsOf(Z, y.hart) : i < y.id
    BY <1>6, <1>7
  <2>3. QED
    BY <1>1, <1>4, <1>6, <2>1, <2>2, AddLast
<1>9. Settled(T \cup {m}, n + 1, I, Q, A, R)
  BY <1>3, <1>5, <1>8 DEF Settled, Y
<1>10. Ids(T \cup {m}, I, Q, A, R) = [Ids(T, I, Q, A, R) EXCEPT ![b.hart] = @ \cup {b.transaction}]
  <2>1. \A g \in Hart : IdsOf(Y, g) = IF g = b.hart THEN IdsOf(Z, g) \cup {b.transaction} ELSE IdsOf(Z, g)
    BY <1>5, <1>6, <1>8
  <2>2. QED
    BY <2>1 DEF Ids, Y, Z
<1>11. QED
  BY <1>9, <1>10 DEF m

Consumed(I, h) == [I EXCEPT ![h][Response] = Tail(@)]

\* A hart's first response is that with the lowest id under way for it.
LEMMA TakeResponse ==
  ASSUME NEW T, NEW n, NEW I, NEW Q, NEW A, NEW R, Settled(T, n, I, Q, A, R),
         NEW h \in Hart, I[h][Response] # <<>>
  PROVE  LET ids == Ids(T, I, Q, A, R)
             r == Head(I[h][Response]).body IN
         /\ Settled(T, n, Consumed(I, h), Q, A, R)
         /\ r.hart = h /\ r.transaction \in ids[h]
         /\ \A i \in ids[h] : i \in Int /\ r.transaction <= i
         /\ Ids(T, Consumed(I, h), Q, A, R) = [ids EXCEPT ![h] = @ \ {r.transaction}]
<1> DEFINE q == I[h][Response]
           f == Contents(q)
           J == Consumed(I, h)
           b == Head(q).body
           Others == UNION {Line(Contents(I[g][Response]), 0) : g \in Hart \ {h}}
           C == Sailing(T, Request, 6) \cup Waiting(I) \cup Line(Q, 4) \cup Line(Serving(A), 3)
                \cup Line(R, 2) \cup Sailing(T, Response, 1) \cup Others
           Z == Tokens(T, I, Q, A, R)
           Y == Tokens(T, J, Q, A, R)
<1>1. Placed(T, n, I, Q, A, R) /\ InLine(Z) /\ Arrivals(I)
  BY DEF Settled, Placed
<1>2. MemoryPort \in Port /\ Request \in Channel /\ Response \in Channel /\ Request # Response
      /\ Hart \subseteq Port /\ MemoryPort \notin Hart
  BY SystemAssumption DEF Port, Channel, Request, Response, Hart, MemoryPort
<1>3. Proper(q) /\ Bodied(f) /\ \A i \in DOMAIN q : q[i].body.hart = h
  BY <1>1, <1>2 DEF Arrivals
<1>4. f # <<>> /\ Head(f) = b /\ Contents(Tail(q)) = Tail(f) /\ Body(b) /\ b.hart = h
  <2>1. f # <<>> /\ Head(f) = b /\ Contents(Tail(q)) = Tail(f)
    <3> HIDE DEF q
    <3>1. q # <<>>
      BY DEF q
    <3>2. QED
      BY <1>3, <3>1, ContentsFacts
  <2>2. Proper(f)
    BY <1>3 DEF Bodied
  <2>3. 1 \in DOMAIN f /\ Head(f) = f[1]
    BY <2>1, <2>2, ProperFacts
  <2>4. 1 \in DOMAIN q /\ Head(q) = q[1]
    BY <1>3, ProperFacts
  <2>5. QED
    BY <1>3, <2>1, <2>3, <2>4 DEF Bodied
<1>5. /\ J[h][Response] = Tail(q)
      /\ \A g \in Hart \ {h} : J[g][Response] = I[g][Response]
      /\ J[MemoryPort][Request] = I[MemoryPort][Request]
      /\ DOMAIN J = Port /\ \A p \in Port : DOMAIN J[p] = Channel
      /\ \A p \in Port, c \in Channel : J[p][c] = Tail(q) \/ J[p][c] = I[p][c]
  BY <1>1, <1>2 DEF Arrivals, Consumed
<1>6. /\ Proper(Tail(q)) /\ Bodied(Tail(f))
      /\ \A i \in DOMAIN Tail(q) : Tail(q)[i].body.hart = h
  <2>1. /\ Proper(Tail(q)) /\ Proper(Tail(f))
        /\ \A i \in DOMAIN Tail(f) : i + 1 \in DOMAIN f /\ Tail(f)[i] = f[i + 1]
        /\ \A i \in DOMAIN Tail(q) : i + 1 \in DOMAIN q /\ Tail(q)[i] = q[i + 1]
    BY <1>3, <1>4, TailFacts DEF Bodied
  <2>2. QED
    BY <1>3, <2>1 DEF Bodied
<1> HIDE DEF J, q, f, b
<1>7. Placed(T, n, J, Q, A, R)
  <2>1. Contents(J[h][Response]) = Tail(f)
    BY <1>4, <1>5
  <2>2. Arrivals(J)
    <3>1. \A p \in Port, c \in Channel : Proper(J[p][c])
      BY <1>1, <1>5, <1>6 DEF Arrivals
    <3>2. Bodied(Contents(J[MemoryPort][Request]))
      BY <1>1, <1>5 DEF Arrivals
    <3>3. ASSUME NEW g \in Hart
          PROVE  /\ Bodied(Contents(J[g][Response]))
                 /\ \A i \in DOMAIN J[g][Response] : J[g][Response][i].body.hart = g
      <4>1. CASE g = h
        BY <1>5, <1>6, <2>1, <4>1
      <4>2. CASE g # h
        BY <1>1, <1>5, <4>2 DEF Arrivals
      <4>3. QED
        BY <4>1, <4>2
    <3>4. QED
      BY <1>5, <3>1, <3>2, <3>3 DEF Arrivals
  <2>3. QED
    BY <1>1, <2>2 DEF Placed
<1>8. C \in SUBSET Token /\ \A t \in C : t.stage = 0 => t.hart # h
  <2>1. \A t \in Others : t \in Token /\ t.hart # h
    BY <1>1, InboxTokens
  <2> HIDE DEF Others
  <2>2. /\ \A t \in Sailing(T, Request, 6) : t \in Token /\ t.stage = 6
        /\ \A t \in Waiting(I) : t \in Token /\ t.stage = 5
        /\ \A t \in Line(Q, 4) : t \in Token /\ t.stage = 4
        /\ \A t \in Line(Serving(A), 3) : t \in Token /\ t.stage = 3
        /\ \A t \in Line(R, 2) : t \in Token /\ t.stage = 2
        /\ \A t \in Sailing(T, Response, 1) : t \in Token /\ t.stage = 1
    BY <1>1, Stages
  <2>3. QED
    BY <2>1, <2>2
<1>9. Z = C \cup Line(f, 0)
  <2>1. Home(I) = Others \cup Line(f, 0)
    BY DEF Home, f, q
  <2>2. QED
    BY <2>1 DEF Tokens, Waiting, Home
<1>10. Y = C \cup Line(Tail(f), 0)
  <2>1. Waiting(J) = Waiting(I)
    BY <1>5 DEF Waiting
  <2>2. Home(J) = Others \cup Line(Tail(f), 0)
    <3>1. \A g \in Hart \ {h} : Line(Contents(J[g][Response]), 0) = Line(Contents(I[g][Response]), 0)
      BY <1>5
    <3>2. Line(Contents(J[h][Response]), 0) = Line(Tail(f), 0)
      BY <1>4, <1>5
    <3>3. QED
      BY <3>1, <3>2 DEF Home
  <2>3. QED
    BY <2>1, <2>2 DEF Tokens, Waiting, Home
<1> HIDE DEF C
<1>11. \A i \in DOMAIN f : f[i].hart = h
  BY <1>3 DEF f, Contents
<1> DEFINE U == Unmoved(C, {}, f, 0)
           V == Dropped(C, f)
<1> HIDE DEF Y, Z
<1>12. U = Z /\ V = Y /\ CanDrop(C, f, h)
  BY <1>3, <1>4, <1>8, <1>9, <1>10, <1>11 DEF Unmoved, Dropped, CanDrop
<1>13. /\ InLine(V)
       /\ IdsOf(U, h) = IdsOf(V, h) \cup {Head(f).transaction}
       /\ \A i \in IdsOf(V, h) : i \in Int /\ Head(f).transaction < i
       /\ \A g : g # h => IdsOf(V, g) = IdsOf(U, g)
  BY <1>1, <1>12, DropHead
<1> HIDE DEF U, V
<1>14. /\ b.transaction \in Int
       /\ IdsOf(Y, h) = IdsOf(Z, h) \ {b.transaction} /\ b.transaction \in IdsOf(Z, h)
       /\ \A i \in IdsOf(Z, h) : i \in Int /\ b.transaction <= i
       /\ \A g : g # h => IdsOf(Y, g) = IdsOf(Z, g)
  BY <1>4, <1>13, <1>12 DEF Body
<1>15. Settled(T, n, J, Q, A, R)
  BY <1>7, <1>13, <1>12 DEF Settled, Y
<1>16. Ids(T, J, Q, A, R) = [Ids(T, I, Q, A, R) EXCEPT ![h] = @ \ {b.transaction}]
  BY <1>14 DEF Ids, Y, Z
<1>17. Ids(T, I, Q, A, R)[h] = IdsOf(Z, h)
  BY DEF Ids, Z
<1>18. QED
  BY <1>4, <1>14, <1>15, <1>16, <1>17 DEF J, b, q

-------------------------------------------------------------------------------
(***************************************************************************)
(* The window of a hart.                                                   *)
(***************************************************************************)
Half == IdSpace \div 2
IdOf(a, i) == a.requests[i].request.transaction
SentIds(a) == {IdOf(a, i) : i \in {k \in DOMAIN a.requests : a.requests[k].sent}}

AdapterFields == {"target", "wdata", "size", "rdata", "flags", "requests", "results", "next"}

\* The id given last.
Newest(a) == Half + a.next - 1

\* The ids of the results and of the commands follow one another up to the last given.
Consecutive(a) ==
  /\ Len(a.requests) + Len(a.results) <= Depth
  /\ \A i \in DOMAIN a.requests : IdOf(a, i) = Newest(a) - (Len(a.requests) - i)
  /\ \A i \in DOMAIN a.results :
       a.results[i].id = Newest(a) - Len(a.requests) - (Len(a.results) - i)

Window(a, h) ==
  /\ DOMAIN a = AdapterFields
  /\ Proper(a.requests) /\ Proper(a.results) /\ a.next \in Int
  /\ \A i \in DOMAIN a.requests :
       /\ DOMAIN a.requests[i] = {"request", "sent"} /\ a.requests[i].sent \in BOOLEAN
       /\ a.requests[i].request.hart = h /\ IdOf(a, i) \in Int
  /\ \A i, j \in DOMAIN a.requests :
       i < j => IdOf(a, i) < IdOf(a, j) /\ (a.requests[j].sent => a.requests[i].sent)
  /\ Depth > 1 => Consecutive(a)

\* The types of two constants.
LEMMA HalfType == Half \in Int /\ Depth \in Nat \ {0}
BY SystemAssumption, AdapterAssumption DEF Half

\* The other registers do not matter.
LEMMA OtherRegisters ==
  ASSUME NEW a, NEW b, NEW h, Window(a, h), DOMAIN b = AdapterFields,
         b.requests = a.requests, b.results = a.results, b.next = a.next
  PROVE  Window(b, h) /\ SentIds(b) = SentIds(a)
<1>1. \A i : IdOf(b, i) = IdOf(a, i)
  BY DEF IdOf
<1>2. Consecutive(b) <=> Consecutive(a)
  BY <1>1 DEF Consecutive, Newest
<1>3. Window(b, h)
  BY <1>1, <1>2 DEF Window
<1>4. SentIds(b) = SentIds(a)
  BY <1>1 DEF SentIds
<1>5. QED
  BY <1>3, <1>4

\* A command or write that is rejected changes a flag only.
LEMMA RejectedKeeps ==
  ASSUME NEW a, NEW h, Window(a, h)
  PROVE  Window(Rejected(a), h) /\ SentIds(Rejected(a)) = SentIds(a)
<1> DEFINE b == Rejected(a)
<1>1. DOMAIN b = AdapterFields /\ b.requests = a.requests /\ b.results = a.results /\ b.next = a.next
  BY DEF Rejected, Window, AdapterFields
<1> HIDE DEF b
<1>2. Window(b, h) /\ SentIds(b) = SentIds(a)
  BY <1>1, OtherRegisters
<1>3. QED
  BY <1>2 DEF b

\* A result is popped, the oldest.
LEMMA PopKeeps ==
  ASSUME NEW a, NEW h, NEW v, Window(a, h)
  PROVE  Window(Popped(a, v), h) /\ SentIds(Popped(a, v)) = SentIds(a)
<1>1. CASE v # 1 \/ a.results = <<>>
  BY <1>1, RejectedKeeps DEF Popped
<1>2. CASE ~(v # 1 \/ a.results = <<>>)
  <2> DEFINE b == Popped(a, v)
             s == a.results
  <2>1. /\ DOMAIN b = AdapterFields /\ b.requests = a.requests /\ b.results = Tail(s)
        /\ b.next = a.next
    BY <1>2 DEF Popped, Window, AdapterFields
  <2>2. Proper(s) /\ s # <<>>
    BY <1>2 DEF Window
  <2>3. /\ Proper(Tail(s)) /\ Len(Tail(s)) = Len(s) - 1 /\ Len(s) \in Nat
        /\ \A i \in DOMAIN Tail(s) : i + 1 \in DOMAIN s /\ Tail(s)[i] = s[i + 1]
        /\ DOMAIN Tail(s) = 1 .. Len(s) - 1
    BY <2>2, TailFacts, ProperFacts
  <2>4. \A i : IdOf(b, i) = IdOf(a, i)
    BY <2>1 DEF IdOf
  <2> HIDE DEF b, s
  <2>5. Depth > 1 => Consecutive(b)
    <3> SUFFICES ASSUME Depth > 1 PROVE Consecutive(b)
      OBVIOUS
    <3>1. Consecutive(a) /\ a.next \in Int /\ Len(a.requests) \in Nat
      BY ProperFacts DEF Window
    <3>2. Len(b.requests) + Len(b.results) <= Depth
      <4>1. Len(b.requests) = Len(a.requests) /\ Len(b.results) = Len(s) - 1
        BY <2>1, <2>3
      <4>2. Len(a.requests) + Len(s) <= Depth
        BY <3>1 DEF Consecutive, s
      <4>3. Len(a.requests) \in Int /\ Len(s) \in Int /\ Depth \in Int
        BY <2>3, <3>1, HalfType
      <4>4. QED
        BY <4>1, <4>2, <4>3
    <3>3. ASSUME NEW i \in DOMAIN b.results
          PROVE  b.results[i].id = Newest(b) - Len(b.requests) - (Len(b.results) - i)
      <4>1. i + 1 \in DOMAIN s /\ b.results[i] = s[i + 1] /\ i \in Int
        BY <2>1, <2>3, <3>3
      <4>2. s[i + 1].id = Newest(a) - Len(a.requests) - (Len(s) - (i + 1))
        BY <3>1, <4>1 DEF Consecutive, s
      <4>3. QED
        BY <2>1, <2>3, <3>1, <4>1, <4>2, HalfType DEF Newest
    <3>4. \A i \in DOMAIN b.requests : IdOf(b, i) = Newest(b) - (Len(b.requests) - i)
      BY <2>1, <2>4, <3>1 DEF Consecutive, Newest
    <3>5. QED
      BY <3>2, <3>3, <3>4 DEF Consecutive
  <2>6. Window(b, h)
    BY <2>1, <2>3, <2>4, <2>5 DEF Window
  <2>7. SentIds(b) = SentIds(a)
    BY <2>1, <2>4 DEF SentIds
  <2>8. QED
    BY <2>6, <2>7 DEF b
<1>3. QED
  BY <1>1, <1>2

\* A command is queued, under the next id.
LEMMA CommandKeeps ==
  ASSUME NEW a, NEW h, NEW v, Window(a, h)
  PROVE  Window(Commanded(a, h, v), h) /\ SentIds(Commanded(a, h, v)) = SentIds(a)
<1> DEFINE cleared == [a EXCEPT !.flags = IF Depth = 1 THEN {} ELSE @, !.rdata = 0]
<1>1. /\ DOMAIN cleared = AdapterFields /\ cleared.requests = a.requests
      /\ cleared.results = a.results /\ cleared.next = a.next
  BY DEF Window, AdapterFields
<1>2. Window(cleared, h) /\ SentIds(cleared) = SentIds(a)
  <2> HIDE DEF cleared
  <2>1. QED
    BY <1>1, OtherRegisters
<1>3. CASE Full(a)
  BY <1>3, RejectedKeeps DEF Commanded
<1>4. CASE ~Full(a) /\ (~ValidCommand(a, v) \/ Exhausted(a))
  <2>1. Commanded(a, h, v) = Rejected(cleared)
    BY <1>4 DEF Commanded
  <2> HIDE DEF cleared
  <2>2. QED
    BY <1>2, <2>1, RejectedKeeps
<1>5. CASE ~Full(a) /\ ~(~ValidCommand(a, v) \/ Exhausted(a))
  <2> DEFINE b == Commanded(a, h, v)
             q == a.requests
             x == [request |-> CommandRequest(a, h, v), sent |-> FALSE]
             n == Len(q)
  <2>1. /\ DOMAIN b = AdapterFields /\ b.requests = Append(q, x) /\ b.results = a.results
        /\ b.next = IF Depth = 1 THEN a.next ELSE a.next + 1
    BY <1>5 DEF Commanded, Window, AdapterFields
  <2>2. /\ DOMAIN x = {"request", "sent"} /\ x.sent = FALSE /\ x.request.hart = h
        /\ x.request.transaction = IF Depth = 1 THEN 0 ELSE Half + a.next
    BY DEF CommandRequest, Half
  <2>3. Proper(q) /\ n \in Nat /\ DOMAIN q = 1 .. n
    BY ProperFacts DEF Window
  <2>4. /\ Proper(Append(q, x)) /\ Len(Append(q, x)) = n + 1 /\ DOMAIN Append(q, x) = 1 .. n + 1
        /\ \A i \in DOMAIN q : Append(q, x)[i] = q[i]
        /\ Append(q, x)[n + 1] = x
    BY <2>3, AppendFacts
  <2>5. a.next \in Int /\ Proper(a.results) /\ Len(a.results) \in Nat
    BY ProperFacts DEF Window
  <2> HIDE DEF b, q, x, n
  <2>6. /\ \A i \in DOMAIN q : b.requests[i] = q[i] /\ IdOf(b, i) = IdOf(a, i)
        /\ b.requests[n + 1] = x /\ IdOf(b, n + 1) = x.request.transaction
        /\ DOMAIN b.requests = DOMAIN q \cup {n + 1} /\ n + 1 \notin DOMAIN q
    <3>1. 1 .. n + 1 = (1 .. n) \cup {n + 1} /\ n + 1 \notin 1 .. n
      BY <2>3
    <3>2. QED
      BY <2>1, <2>3, <2>4, <3>1 DEF IdOf, q
  <2>7. SentIds(b) = SentIds(a)
    BY <2>2, <2>6 DEF SentIds, q
  <2>8. x.request.transaction \in Int
    BY <2>2, <2>5, HalfType
  <2>9. Depth > 1 => Consecutive(b)
    <3> SUFFICES ASSUME Depth > 1 PROVE Consecutive(b)
      OBVIOUS
    <3>1. Consecutive(a) /\ Len(b.requests) = n + 1 /\ b.next = a.next + 1 /\ b.results = a.results
      BY <2>1, <2>4 DEF Window
    <3>2. n + Len(a.results) < Depth
      <4>1. ~(n + Len(a.results) >= Depth)
        BY <1>5 DEF Full, q, n
      <4>2. n + Len(a.results) \in Int /\ Depth \in Int
        BY <2>3, <2>5, HalfType
      <4>3. QED
        BY <4>1, <4>2
    <3>3. Len(b.requests) + Len(b.results) <= Depth
      <4>1. Len(b.requests) = n + 1 /\ Len(b.results) = Len(a.results)
        BY <3>1
      <4> DEFINE k == Len(a.results)
      <4>2. n \in Int /\ k \in Int /\ Depth \in Int
        BY <2>3, <2>5, HalfType
      <4>3. n + k < Depth
        BY <3>2
      <4> HIDE DEF k
      <4>4. (n + 1) + k <= Depth
        BY <4>2, <4>3
      <4>5. QED
        BY <4>1, <4>4 DEF k
    <3>4. ASSUME NEW i \in DOMAIN b.requests
          PROVE  IdOf(b, i) = Newest(b) - (Len(b.requests) - i)
      <4>1. CASE i \in DOMAIN q
        <5>1. IdOf(a, i) = Newest(a) - (n - i) /\ i \in Int
          BY <2>3, <3>1, <4>1 DEF Consecutive, q, n
        <5>2. IdOf(b, i) = IdOf(a, i) /\ b.next = a.next + 1 /\ Len(b.requests) = n + 1
          BY <2>6, <3>1, <4>1
        <5>3. n \in Int /\ a.next \in Int /\ Half \in Int
          BY <2>3, <2>5, HalfType
        <5>4. QED
          BY <5>1, <5>2, <5>3 DEF Newest
      <4>2. CASE i = n + 1
        BY <2>2, <2>3, <2>5, <2>6, <3>1, <4>2, HalfType DEF Newest
      <4>3. QED
        BY <2>6, <4>1, <4>2
    <3>5. ASSUME NEW i \in DOMAIN b.results
          PROVE  b.results[i].id = Newest(b) - Len(b.requests) - (Len(b.results) - i)
      <4>1. a.results[i].id = Newest(a) - n - (Len(a.results) - i)
        BY <3>1, <3>5 DEF Consecutive, q, n
      <4>2. i \in Int
        BY <2>5, <3>1, <3>5, ProperFacts
      <4>3. b.results = a.results /\ b.next = a.next + 1 /\ Len(b.requests) = n + 1
        BY <3>1
      <4> DEFINE k == Len(a.results)
                 e == a.next
      <4>4. n \in Int /\ e \in Int /\ Half \in Int /\ k \in Int
        BY <2>3, <2>5, HalfType
      <4> HIDE DEF k, e
      <4>5. (Half + (e + 1) - 1) - (n + 1) - (k - i) = (Half + e - 1) - n - (k - i)
        BY <4>2, <4>4
      <4>6. QED
        BY <4>1, <4>3, <4>5 DEF k, e, Newest
    <3>6. QED
      BY <3>3, <3>4, <3>5 DEF Consecutive
  <2>10. ASSUME NEW i \in DOMAIN b.requests, NEW j \in DOMAIN b.requests, i < j
         PROVE  IdOf(b, i) < IdOf(b, j) /\ (b.requests[j].sent => b.requests[i].sent)
    <3>1. CASE j \in DOMAIN q
      <4>1. i \in DOMAIN q
        BY <2>3, <2>6, <2>10, <3>1
      <4>2. QED
        BY <2>6, <2>10, <3>1, <4>1 DEF Window, q
    <3>2. CASE j = n + 1
      <4>1. i \in DOMAIN q /\ i \in Int /\ i <= n
        BY <2>3, <2>6, <2>10, <3>2
      <4>2. Depth > 1
        <5>1. n >= 1
          BY <2>3, <4>1
        <5>2. Depth = 1 => ~(n + 0 >= 1)
          BY <1>5 DEF Full, q, n
        <5>3. Depth # 1
          BY <2>3, <5>1, <5>2
        <5>4. QED
          BY <5>3, HalfType
      <4>3. IdOf(a, i) = Newest(a) - (n - i)
        BY <4>1, <4>2 DEF Window, Consecutive, q, n
      <4>4. IdOf(b, j) = Half + a.next
        BY <2>2, <2>6, <3>2, <4>2
      <4>5. QED
        BY <2>2, <2>3, <2>5, <2>6, <3>2, <4>1, <4>3, <4>4, HalfType DEF Newest
    <3>3. QED
      BY <2>6, <3>1, <3>2
  <2>11. ASSUME NEW i \in DOMAIN b.requests
         PROVE  /\ DOMAIN b.requests[i] = {"request", "sent"} /\ b.requests[i].sent \in BOOLEAN
                /\ b.requests[i].request.hart = h /\ IdOf(b, i) \in Int
    BY <2>2, <2>6, <2>8 DEF Window, q
  <2>12. b.next \in Int
    BY <2>1, <2>5
  <2>13. Window(b, h)
    BY <2>1, <2>4, <2>5, <2>9, <2>10, <2>11, <2>12 DEF Window
  <2>14. QED
    BY <2>7, <2>13 DEF b
<1>6. QED
  BY <1>3, <1>4, <1>5

\* So does a write to any register (MmioBusAdapter::write).
LEMMA RegisterKeeps ==
  ASSUME NEW a, NEW h, NEW reg \in Writable, NEW v, Window(a, h)
  PROVE  Window(WriteRegister(a, h, reg, v), h) /\ SentIds(WriteRegister(a, h, reg, v)) = SentIds(a)
<1> DEFINE b == WriteRegister(a, h, reg, v)
<1>1. CASE reg = Pop
  BY <1>1, PopKeeps DEF WriteRegister
<1>2. CASE reg # Pop /\ Busy(a) /\ Depth = 1
  BY <1>2, RejectedKeeps DEF WriteRegister
<1>3. CASE reg # Pop /\ ~(Busy(a) /\ Depth = 1)
  <2>1. CASE reg = Command
    <3>1. b = Commanded(a, h, v)
      BY <1>3, <2>1 DEF WriteRegister, Command, Target, WriteData, Size, Status, ReadData, Pop
    <3>2. QED
      BY <3>1, CommandKeeps
  <2>2. CASE reg = ReadData
    <3>1. b = Rejected(a)
      BY <1>3, <2>2 DEF WriteRegister, Command, Target, WriteData, Size, Status, ReadData, Pop
    <3>2. QED
      BY <3>1, RejectedKeeps
  <2>3. CASE reg \in {Target, WriteData, Size, Status}
    <3>1. \/ b = [a EXCEPT !.target = v] \/ b = [a EXCEPT !.wdata = v] \/ b = [a EXCEPT !.size = v]
          \/ b = [a EXCEPT !.flags = Cleared(@, v)]
      BY <1>3, <2>3 DEF WriteRegister, Command, Target, WriteData, Size, Status, ReadData, Pop
    <3>2. /\ DOMAIN b = AdapterFields /\ b.requests = a.requests /\ b.results = a.results
          /\ b.next = a.next
      <4> HIDE DEF b
      <4>1. QED
        BY <3>1 DEF Window, AdapterFields
    <3> HIDE DEF b
    <3>3. Window(b, h) /\ SentIds(b) = SentIds(a)
      BY <3>2, OtherRegisters
    <3>4. QED
      BY <3>3 DEF b
  <2>4. QED
    BY <1>3, <2>1, <2>2, <2>3 DEF Writable
<1>4. QED
  BY <1>1, <1>2, <1>3
\* Removing the first element of a sequence leaves its tail.
LEMMA RemovesFirst ==
  ASSUME NEW s, Proper(s), s # <<>>
  PROVE  RemoveAt(s, 1) = Tail(s)
<1> DEFINE S == {s[i] : i \in DOMAIN s}
<1>1. s \in Seq(S)
  BY DEF Proper
<1> HIDE DEF S
<1>2. SubSeq(s, 1, 1 - 1) = <<>>
  BY SubSeqEmpty
<1>3. SubSeq(s, 1 + 1, Len(s)) = Tail(s) /\ Tail(s) \in Seq(S)
  BY <1>1, TailIsSubSeq
<1>4. <<>> \o Tail(s) = Tail(s)
  BY <1>3, ConcatEmptySeq
<1>5. QED
  BY <1>2, <1>3, <1>4 DEF RemoveAt

\* The oldest command that is not sent goes into the bus.
LEMMA SendKeeps ==
  ASSUME NEW a, NEW h, Window(a, h), Unsents(a) # {}
  PROVE  LET k == NextUnsent(a) IN
         /\ a.requests[k].request.hart = h /\ IdOf(a, k) \in Int
         /\ Window(Sending(a), h)
         /\ SentIds(Sending(a)) = SentIds(a) \cup {IdOf(a, k)}
         /\ \A i \in SentIds(a) : i < IdOf(a, k)
         /\ k \in DOMAIN a.requests /\ DOMAIN Sending(a).requests = DOMAIN a.requests
         /\ \A i \in DOMAIN a.requests : Sending(a).requests[i].request = a.requests[i].request
         /\ Sending(a).results = a.results
<1> DEFINE k == NextUnsent(a)
           q == a.requests
           b == Sending(a)
           n == Len(q)
<1>1. Proper(q) /\ n \in Nat /\ DOMAIN q = 1 .. n
  BY ProperFacts DEF Window
<1>2. k \in Unsents(a) /\ \A j \in Unsents(a) : k <= j
  <2>1. \E i \in Unsents(a) : \A j \in Unsents(a) : i <= j
    <3>1. Unsents(a) \in SUBSET Nat
      BY <1>1 DEF Unsents
    <3>2. QED
      BY <3>1, LeastNumber
  <2>2. QED
    BY <2>1 DEF NextUnsent
<1>3. k \in 1 .. n /\ ~q[k].sent /\ DOMAIN q[k] = {"request", "sent"} /\ q[k].request.hart = h
  BY <1>1, <1>2 DEF Unsents, Window
<1>4. /\ DOMAIN b = AdapterFields /\ b.results = a.results /\ b.next = a.next
      /\ b.requests = [q EXCEPT ![k] = [q[k] EXCEPT !.sent = TRUE]]
  BY DEF Sending, Window, AdapterFields
<1> HIDE DEF k, q, b, n
<1>5. /\ DOMAIN b.requests = DOMAIN q
      /\ \A i \in DOMAIN q : i # k => b.requests[i] = q[i]
      /\ DOMAIN b.requests[k] = {"request", "sent"} /\ b.requests[k].sent = TRUE
      /\ b.requests[k].request = q[k].request
  BY <1>1, <1>3, <1>4
<1>6. \A i \in DOMAIN q : IdOf(b, i) = IdOf(a, i)
  <2>1. \A i \in DOMAIN q : b.requests[i].request = q[i].request
    BY <1>5
  <2>2. QED
    BY <2>1 DEF IdOf, q
<1>7. Proper(b.requests) /\ Len(b.requests) = n /\ b.requests # <<>>
  <2> DEFINE S == {b.requests[i] : i \in DOMAIN q}
  <2>1. b.requests \in [1 .. n -> S]
    BY <1>1, <1>4
  <2>2. b.requests \in Seq(S)
    BY <1>1, <2>1, SeqDef
  <2>3. Proper(b.requests)
    BY <2>2, ProperSeq
  <2>4. Len(b.requests) = n
    <3>1. Len(b.requests) \in Nat /\ DOMAIN b.requests = 1 .. Len(b.requests)
      BY <2>3, ProperFacts
    <3>2. QED
      BY <1>1, <1>5, <3>1, SameEnd
  <2>5. QED
    BY <1>3, <2>3, <2>4, ProperFacts
<1>8. \A i \in DOMAIN q : b.requests[i].sent <=> i = k \/ q[i].sent
  BY <1>3, <1>5
<1>9. SentIds(b) = SentIds(a) \cup {IdOf(a, k)}
  <2>1. k \in DOMAIN q
    BY <1>1, <1>3
  <2>2. QED
    BY <1>5, <1>6, <1>8, <2>1 DEF SentIds, q
<1>10. \A i \in DOMAIN q, j \in DOMAIN q : i < j => IdOf(a, i) < IdOf(a, j) /\ (q[j].sent => q[i].sent)
  BY DEF Window, q
<1>11. \A i \in DOMAIN q : q[i].sent => i < k
  <2> SUFFICES ASSUME NEW i \in DOMAIN q, q[i].sent PROVE i < k
    OBVIOUS
  <2>1. i # k /\ ~(k < i)
    BY <1>1, <1>3, <1>10
  <2>2. QED
    BY <1>1, <1>3, <2>1
<1>12. \A i \in SentIds(a) : i < IdOf(a, k)
  BY <1>1, <1>3, <1>10, <1>11 DEF SentIds, q
<1>13. Window(b, h)
  <2>1. \A i \in DOMAIN b.requests, j \in DOMAIN b.requests :
          i < j => IdOf(b, i) < IdOf(b, j) /\ (b.requests[j].sent => b.requests[i].sent)
    <3> SUFFICES ASSUME NEW i \in DOMAIN q, NEW j \in DOMAIN q, i < j
                 PROVE  IdOf(b, i) < IdOf(b, j) /\ (b.requests[j].sent => b.requests[i].sent)
      BY <1>5
    <3>1. IdOf(b, i) < IdOf(b, j)
      BY <1>6, <1>10
    <3>2. ASSUME b.requests[j].sent PROVE b.requests[i].sent
      <4>1. CASE j = k
        <5>1. i \notin Unsents(a)
          BY <1>1, <1>2, <1>3, <4>1
        <5>2. q[i].sent
          BY <5>1 DEF Unsents, q
        <5>3. QED
          BY <1>8, <5>2
      <4>2. CASE j # k
        BY <1>8, <1>10, <3>2, <4>2
      <4>3. QED
        BY <4>1, <4>2
    <3>3. QED
      BY <3>1, <3>2
  <2>2. ASSUME NEW i \in DOMAIN b.requests
        PROVE  /\ DOMAIN b.requests[i] = {"request", "sent"} /\ b.requests[i].sent \in BOOLEAN
               /\ b.requests[i].request.hart = h /\ IdOf(b, i) \in Int
    <3>1. /\ DOMAIN q[i] = {"request", "sent"} /\ q[i].sent \in BOOLEAN
          /\ q[i].request.hart = h /\ IdOf(a, i) \in Int
      BY <1>5, <2>2 DEF Window, q
    <3>2. CASE i = k
      BY <1>3, <1>5, <1>6, <2>2, <3>1, <3>2
    <3>3. CASE i # k
      BY <1>5, <1>6, <2>2, <3>1, <3>3
    <3>4. QED
      BY <3>2, <3>3
  <2>3. Depth > 1 => Consecutive(b)
    <3>1. Depth > 1 => Consecutive(a)
      BY DEF Window
    <3>2. Consecutive(a) => Consecutive(b)
      BY <1>4, <1>5, <1>6, <1>7 DEF Consecutive, q, n, Newest
    <3>3. QED
      BY <3>1, <3>2
  <2>4. Proper(b.results) /\ b.next \in Int
    BY <1>4 DEF Window
  <2>5. QED
    BY <1>4, <1>7, <2>1, <2>2, <2>3, <2>4 DEF Window
<1>14. IdOf(a, k) \in Int
  BY <1>1, <1>3 DEF Window, q
<1>15. QED
  <2>1. k \in DOMAIN q /\ \A i \in DOMAIN q : b.requests[i].request = q[i].request
    BY <1>1, <1>3, <1>5
  <2>2. QED
    BY <1>3, <1>4, <1>5, <1>9, <1>12, <1>13, <1>14, <2>1 DEF b, k, q

\* The response r holds what the request q asks for.
Fits(r, q) == Len(r.data) = IF q.op = "Read" THEN q.size ELSE 0

(***************************************************************************)
(* The response with the lowest id completes the oldest command: none is   *)
(* unexpected, and results queue up in order.                              *)
(***************************************************************************)
LEMMA CompleteKeeps ==
  ASSUME NEW a, NEW h, NEW r, Window(a, h), r.hart = h, r.transaction \in SentIds(a),
         \A i \in SentIds(a) : r.transaction <= i
  PROVE  /\ ~Unexpected(a, h, r)
         /\ Window(Completed(a, r), h)
         /\ SentIds(Completed(a, r)) = SentIds(a) \ {r.transaction}
         /\ 1 \in DOMAIN a.requests /\ IdOf(a, 1) = r.transaction
         /\ Completed(a, r).requests = Tail(a.requests)
         /\ Depth = 1 => Completed(a, r).results = a.results
         /\ Depth > 1 => \E x : /\ Completed(a, r).results = Append(a.results, x)
                                /\ Fits(r, a.requests[1].request) => x.data = Number(r.data)
<1> DEFINE q == a.requests
           b == Completed(a, r)
           n == Len(q)
           t == r.transaction
           s == a.results
           m == Len(s)
<1>1. Proper(q) /\ n \in Nat /\ DOMAIN q = 1 .. n
  BY ProperFacts DEF Window
<1>2. PICK k \in DOMAIN q : q[k].sent /\ IdOf(a, k) = t
  BY DEF SentIds
<1>3. \A i \in DOMAIN q, j \in DOMAIN q : i < j => IdOf(a, i) < IdOf(a, j) /\ (q[j].sent => q[i].sent)
  BY DEF Window
<1>4. \A i \in DOMAIN q : IdOf(a, i) \in Int
  BY DEF Window
<1> HIDE DEF q, n, t
<1>5. q # <<>> /\ 1 \in DOMAIN q
  BY <1>1, ProperFacts
<1>6. k = 1
  <2>1. CASE 1 < k
    <3>1. q[1].sent /\ IdOf(a, 1) < t
      BY <1>2, <1>3, <1>5, <2>1
    <3>2. IdOf(a, 1) \in SentIds(a)
      BY <1>5, <3>1 DEF SentIds, q
    <3>3. t <= IdOf(a, 1) /\ IdOf(a, 1) \in Int /\ t \in Int
      BY <1>2, <1>4, <1>5, <3>2 DEF t
    <3>4. QED
      BY <3>1, <3>3
  <2>2. QED
    BY <1>1, <1>2, <2>1
<1>7. Awaiting(a, r) = {1}
  <2>1. 1 \in Awaiting(a, r)
    BY <1>2, <1>6 DEF Awaiting, IdOf, q, t
  <2>2. ASSUME NEW i \in Awaiting(a, r) PROVE i = 1
    <3>1. i \in DOMAIN q /\ IdOf(a, i) = t
      BY DEF Awaiting, IdOf, q, t
    <3>2. ~(1 < i)
      BY <1>2, <1>3, <1>4, <1>5, <1>6, <3>1
    <3>3. QED
      BY <1>1, <3>1, <3>2
  <2>3. QED
    BY <2>1, <2>2
<1>8. (CHOOSE i \in Awaiting(a, r) : \A j \in Awaiting(a, r) : i <= j) = 1
  BY <1>7
<1>9. PICK x : /\ DOMAIN b = AdapterFields /\ b.next = a.next
               /\ b.requests = RemoveAt(q, 1)
               /\ b.results = (IF Depth > 1 THEN Append(s, x) ELSE s) /\ x.id = t
               /\ Fits(r, a.requests[1].request) => x.data = Number(r.data)
  <2> DEFINE g == a.requests[1].request
             failed == Len(r.data) # (IF g.op = "Read" THEN g.size ELSE 0)
             data == IF failed THEN 0 ELSE Number(r.data)
             y == [id |-> t, data |-> data, failed |-> failed]
             flags == {"done"} \cup (a.flags \cap {"error"}) \cup (IF failed THEN {"error"} ELSE {})
             c == [a EXCEPT !.rdata = data, !.results = IF Depth > 1 THEN Append(@, y) ELSE @,
                            !.requests = RemoveAt(@, 1), !.flags = flags]
  <2>1. b = c
    BY <1>8 DEF Completed, t
  <2>2. /\ DOMAIN a = AdapterFields /\ y.id = t
        /\ Fits(r, a.requests[1].request) => y.data = Number(r.data)
    BY DEF Window, Fits
  <2> HIDE DEF failed, data, y, flags, b
  <2>3. /\ DOMAIN c = AdapterFields /\ c.next = a.next /\ c.requests = RemoveAt(q, 1)
        /\ c.results = (IF Depth > 1 THEN Append(s, y) ELSE s)
    BY <2>2 DEF AdapterFields, q
  <2>4. QED
    BY <2>1, <2>2, <2>3
<1>10. /\ b.requests = Tail(q) /\ Proper(Tail(q)) /\ Len(Tail(q)) = n - 1 /\ DOMAIN Tail(q) = 1 .. n - 1
       /\ \A i \in DOMAIN Tail(q) : i + 1 \in DOMAIN q /\ Tail(q)[i] = q[i + 1]
  BY <1>1, <1>5, <1>9, RemovesFirst, TailFacts DEF n
<1>11. /\ Proper(s) /\ m \in Nat /\ DOMAIN s = 1 .. m
       /\ Proper(Append(s, x)) /\ Len(Append(s, x)) = m + 1 /\ DOMAIN Append(s, x) = 1 .. m + 1
       /\ \A i \in DOMAIN s : Append(s, x)[i] = s[i]
       /\ Append(s, x)[m + 1] = x
  <2>1. Proper(s)
    BY DEF Window
  <2> HIDE DEF s
  <2>2. QED
    BY <2>1, ProperFacts, AppendFacts
<1> HIDE DEF b, s, m
<1>12. \A i \in DOMAIN b.requests :
         i + 1 \in DOMAIN q /\ b.requests[i] = q[i + 1] /\ IdOf(b, i) = IdOf(a, i + 1)
  BY <1>10 DEF IdOf, q
<1>13. SentIds(b) = SentIds(a) \ {t}
  <2>1. ASSUME NEW i \in DOMAIN b.requests, b.requests[i].sent
        PROVE  IdOf(b, i) \in SentIds(a) \ {t}
    <3>1. i + 1 \in DOMAIN q /\ q[i + 1].sent /\ IdOf(b, i) = IdOf(a, i + 1) /\ 1 < i + 1
      BY <1>1, <1>10, <1>12, <2>1
    <3>2. IdOf(a, 1) = t /\ t < IdOf(a, i + 1) /\ t \in Int /\ IdOf(a, i + 1) \in Int
      BY <1>2, <1>3, <1>4, <1>5, <1>6, <3>1
    <3>3. QED
      BY <3>1, <3>2 DEF SentIds, q
  <2>2. ASSUME NEW i \in DOMAIN q, q[i].sent, IdOf(a, i) # t
        PROVE  IdOf(a, i) \in SentIds(b)
    <3>1. i # 1
      BY <1>2, <1>6, <2>2
    <3>2. i - 1 \in DOMAIN b.requests /\ (i - 1) + 1 = i
      BY <1>1, <1>10, <3>1
    <3>3. b.requests[i - 1] = q[i] /\ IdOf(b, i - 1) = IdOf(a, i)
      BY <1>12, <3>2
    <3>4. QED
      BY <2>2, <3>2, <3>3 DEF SentIds
  <2>3. QED
    BY <2>1, <2>2 DEF SentIds, q
<1>14. Window(b, h)
  <2>1. ASSUME NEW i \in DOMAIN b.requests
        PROVE  /\ DOMAIN b.requests[i] = {"request", "sent"} /\ b.requests[i].sent \in BOOLEAN
               /\ b.requests[i].request.hart = h /\ IdOf(b, i) \in Int
    <3>1. i + 1 \in DOMAIN q /\ b.requests[i] = q[i + 1] /\ IdOf(b, i) = IdOf(a, i + 1)
      BY <1>12, <2>1
    <3>2. /\ DOMAIN q[i + 1] = {"request", "sent"} /\ q[i + 1].sent \in BOOLEAN
          /\ q[i + 1].request.hart = h
      BY <3>1 DEF Window, q
    <3>3. QED
      BY <1>4, <3>1, <3>2
  <2>2. ASSUME NEW i \in DOMAIN b.requests, NEW j \in DOMAIN b.requests, i < j
        PROVE  IdOf(b, i) < IdOf(b, j) /\ (b.requests[j].sent => b.requests[i].sent)
    <3>1. i + 1 < j + 1 /\ i + 1 \in DOMAIN q /\ j + 1 \in DOMAIN q
      BY <1>1, <1>10, <1>12, <2>2
    <3>2. IdOf(a, i + 1) < IdOf(a, j + 1) /\ (q[j + 1].sent => q[i + 1].sent)
      BY <1>3, <3>1
    <3>3. QED
      BY <1>12, <2>2, <3>2
  <2>3. ASSUME Depth > 1 PROVE Consecutive(b)
    <3> DEFINE e == Newest(a)
    <3>1. e \in Int /\ n \in Int /\ m \in Int /\ Depth \in Int
      BY <1>1, <1>11, HalfType DEF Window, Newest
    <3>2. Consecutive(a) /\ b.results = Append(s, x)
      BY <1>9, <2>3 DEF Window
    <3>3. /\ n + m <= Depth
          /\ \A i \in DOMAIN q : IdOf(a, i) = e - (n - i)
          /\ \A i \in DOMAIN s : s[i].id = e - n - (m - i)
      <4> USE DEF q, n, s, m
      <4>1. /\ n + m <= Depth
            /\ \A i \in DOMAIN q : IdOf(a, i) = e - (n - i)
            /\ \A i \in DOMAIN s : s[i].id = e - n - (m - i)
        BY <3>2 DEF Consecutive
      <4>2. QED
        BY <4>1
    <3>4. Len(b.requests) = n - 1 /\ Len(b.results) = m + 1 /\ Newest(b) = e
      BY <1>9, <1>10, <1>11, <3>2 DEF Newest
    <3> HIDE DEF e
    <3>5. (n - 1) + (m + 1) <= Depth
      BY <3>1, <3>3
    <3>6. ASSUME NEW i \in DOMAIN b.requests PROVE IdOf(b, i) = e - ((n - 1) - i)
      <4>1. i \in Int /\ IdOf(b, i) = e - (n - (i + 1))
        BY <1>10, <1>12, <3>3, <3>6
      <4>2. e - (n - (i + 1)) = e - ((n - 1) - i)
        BY <3>1, <4>1
      <4>3. QED
        BY <4>1, <4>2
    <3>7. ASSUME NEW i \in DOMAIN b.results PROVE b.results[i].id = e - (n - 1) - ((m + 1) - i)
      <4>1. i \in 1 .. m + 1
        BY <1>11, <3>2, <3>7
      <4>2. CASE i = m + 1
        <5>1. b.results[i].id = t /\ t = e - (n - 1)
          BY <1>2, <1>6, <1>9, <1>11, <3>2, <3>3, <4>2
        <5>2. QED
          BY <3>1, <4>2, <5>1
      <4>3. CASE i # m + 1
        <5>1. i \in DOMAIN s /\ i \in Int
          BY <1>11, <4>1, <4>3
        <5>2. b.results[i].id = e - n - (m - i)
          BY <1>11, <3>2, <3>3, <5>1
        <5>3. e - n - (m - i) = e - (n - 1) - ((m + 1) - i)
          BY <3>1, <5>1
        <5>4. QED
          BY <5>2, <5>3
      <4>4. QED
        BY <4>2, <4>3
    <3>8. QED
      <4>1. Len(b.requests) + Len(b.results) <= Depth
        BY <3>4, <3>5
      <4>2. \A i \in DOMAIN b.requests : IdOf(b, i) = Newest(b) - (Len(b.requests) - i)
        BY <3>4, <3>6
      <4>3. \A i \in DOMAIN b.results :
              b.results[i].id = Newest(b) - Len(b.requests) - (Len(b.results) - i)
        BY <3>4, <3>7
      <4>4. QED
        BY <4>1, <4>2, <4>3 DEF Consecutive
  <2>4. Proper(b.results) /\ b.next \in Int
    BY <1>9, <1>11 DEF Window
  <2>5. QED
    BY <1>9, <1>10, <2>1, <2>2, <2>3, <2>4 DEF Window
<1>15. ~Unexpected(a, h, r)
  BY <1>7 DEF Unexpected
<1>16. QED
  <2>1. IdOf(a, 1) = t /\ 1 \in DOMAIN q /\ b.requests = Tail(q)
    BY <1>2, <1>5, <1>6, <1>10
  <2>2. /\ Depth = 1 => b.results = s
        /\ Depth > 1 => b.results = Append(s, x) /\ (Fits(r, q[1].request) => x.data = Number(r.data))
    BY <1>9 DEF q
  <2>3. QED
    BY <1>13, <1>14, <1>15, <2>1, <2>2 DEF b, t, q, s

-------------------------------------------------------------------------------
(***************************************************************************)
(* The invariant: what is under way stands in line, and for every hart is  *)
(* what it waits for, its own one request or what its window has sent.     *)
(***************************************************************************)
CoreFields == {"pc", "state", "left", "issueLeft", "parts", "id", "next", "reg", "exit"}

Fields(c) ==
  /\ DOMAIN c = CoreFields /\ c.id \in Int /\ c.next \in Int
  /\ c.state = "ExecuteWait" => c.pc \in DOMAIN Image

\* A hart that does not wait for a response.
Running(c) == Fields(c) /\ c.state # "MemoryWait"

IdsUnderWay == Ids(transit, inbox, queue, active, response)

Matched(h) ==
  IF State(h) = "MemoryWait"
    THEN ~Busy(adapter[h]) /\ IdsUnderWay[h] = {core[h].id}
    ELSE IdsUnderWay[h] = SentIds(adapter[h])

IInv ==
  /\ Settled(transit, accepted, inbox, queue, active, response)
  /\ UnderService(active, response)
  /\ DOMAIN core = Hart /\ \A h \in Hart : Fields(core[h])
  /\ DOMAIN adapter = Hart /\ \A h \in Hart : Window(adapter[h], h)
  /\ \A h \in Hart : Matched(h)

\* What the steps of a hart make of its fields (commit, stop, fault, the staging).
LEMMA NewFields ==
  ASSUME NEW c, Fields(c)
  PROVE  /\ \A pc : Running(Committed(c, pc))
         /\ Running(CommittedNext(c))
         /\ \A code : Running(Stopped(c, code))
         /\ Running(Faulted(c))
         /\ \A parts, n : Running(Staged(c, parts, n))
         /\ \A v : Fields([c EXCEPT !.reg = v]) /\ [c EXCEPT !.reg = v].state = c.state
<1>1. /\ DOMAIN c = CoreFields /\ c.id \in Int /\ c.next \in Int
      /\ c.state = "ExecuteWait" => c.pc \in DOMAIN Image
  BY DEF Fields
<1>2. \A pc : Running(Committed(c, pc))
  BY <1>1 DEF Running, Fields, Committed, CoreFields
<1>3. \A code : Running(Stopped(c, code))
  BY <1>1 DEF Running, Fields, Stopped, CoreFields
<1>4. Running(Faulted(c))
  BY <1>1 DEF Running, Fields, Faulted, CoreFields
<1>5. ASSUME NEW parts, NEW n PROVE Running(Staged(c, parts, n))
  <2>1. (c.next + 1) % IdSpace \in Int
    BY <1>1, SystemAssumption
  <2>2. QED
    BY <1>1, <2>1 DEF Running, Fields, Staged, CoreFields
<1>6. ASSUME NEW v PROVE Fields([c EXCEPT !.reg = v]) /\ [c EXCEPT !.reg = v].state = c.state
  BY <1>1 DEF Fields, CoreFields
<1>7. QED
  BY <1>2, <1>3, <1>4, <1>5, <1>6 DEF CommittedNext

\* A step of one hart that leaves the bus and the memory alone.
WindowBecomes(h, a) ==
  DOMAIN adapter' = Hart /\ \A g \in Hart : adapter'[g] = IF g = h THEN a ELSE adapter[g]

\* A step of one hart that sends and takes nothing, and leaves its window the same ids.
LEMMA OwnStep ==
  ASSUME IInv, NEW h \in Hart, NEW c, NEW a, Becomes(h, c), WindowBecomes(h, a),
         UNCHANGED <<busVars, memoryVars>>, State(h) # "MemoryWait", Running(c),
         Window(a, h), SentIds(a) = SentIds(adapter[h])
  PROVE  IInv'
<1>1. IdsUnderWay' = IdsUnderWay
  BY DEF IdsUnderWay, busVars, memoryVars
<1>2. /\ DOMAIN core = Hart /\ \A g \in Hart : Fields(core[g])
      /\ DOMAIN adapter = Hart /\ \A g \in Hart : Window(adapter[g], g)
      /\ \A g \in Hart : Matched(g)
  BY DEF IInv
<1>3. /\ core' = [core EXCEPT ![h] = c] /\ DOMAIN adapter' = Hart
      /\ \A g \in Hart : adapter'[g] = IF g = h THEN a ELSE adapter[g]
      /\ Fields(c) /\ c.state # "MemoryWait"
  BY DEF Becomes, Running, WindowBecomes
<1>4. /\ DOMAIN core' = Hart /\ \A g \in Hart : Fields(core'[g])
      /\ DOMAIN adapter' = Hart /\ \A g \in Hart : Window(adapter'[g], g)
  BY <1>2, <1>3
<1>5. ASSUME NEW g \in Hart PROVE Matched(g)'
  <2>1. CASE g = h
    BY <1>1, <1>2, <1>3, <2>1 DEF Matched, State
  <2>2. CASE g # h
    BY <1>1, <1>2, <1>3, <2>2 DEF Matched, State, Busy
  <2>3. QED
    BY <2>1, <2>2
<1>6. Settled(transit, accepted, inbox, queue, active, response)' /\ UnderService(active, response)'
  BY DEF IInv, busVars, memoryVars
<1>7. QED
  BY <1>4, <1>5, <1>6 DEF IInv

\* A step that changes nothing of the harts, the bus and the memory.
LEMMA NoStep ==
  ASSUME IInv, UNCHANGED <<core, adapter, busVars, memoryVars>>
  PROVE  IInv'
<1>1. IdsUnderWay' = IdsUnderWay
  BY DEF IdsUnderWay, busVars, memoryVars
<1>2. \A h \in Hart : Matched(h)'
  BY <1>1 DEF IInv, Matched, State, Busy
<1>3. QED
  BY <1>2 DEF IInv, busVars, memoryVars

\* What a write of any value to any register of its window makes of it.
Written(h, a) ==
  \/ a = adapter[h]
  \/ \E reg \in Writable : \E v : a = WriteRegister(adapter[h], h, reg, v)

\* A step of a hart that neither waits for a response nor sends a request.
OwnMove(h) ==
  /\ State(h) # "MemoryWait" /\ UNCHANGED busVars
  /\ \E c, a : Becomes(h, c) /\ Running(c) /\ WindowBecomes(h, a) /\ Written(h, a)

LEMMA OwnKeeps ==
  ASSUME IInv, NEW h \in Hart, OwnMove(h), UNCHANGED memoryVars
  PROVE  IInv'
<1>1. PICK c, a : Becomes(h, c) /\ Running(c) /\ WindowBecomes(h, a) /\ Written(h, a)
  BY DEF OwnMove
<1>2. Window(adapter[h], h)
  BY DEF IInv
<1>3. Window(a, h) /\ SentIds(a) = SentIds(adapter[h])
  <2>1. CASE a = adapter[h]
    BY <1>2, <2>1
  <2>2. CASE \E reg \in Writable : \E v : a = WriteRegister(adapter[h], h, reg, v)
    <3>1. PICK reg \in Writable : \E v : a = WriteRegister(adapter[h], h, reg, v)
      BY <2>2
    <3>2. PICK v : a = WriteRegister(adapter[h], h, reg, v)
      BY <3>1
    <3>3. QED
      BY <1>2, <3>2, RegisterKeeps
  <2>3. QED
    BY <1>1, <2>1, <2>2 DEF Written
<1>4. State(h) # "MemoryWait" /\ UNCHANGED <<busVars, memoryVars>>
  BY DEF OwnMove
<1>5. QED
  BY <1>1, <1>3, <1>4, OwnStep

\* A step of one hart that leaves its window alone.
LEMMA CoreOnly ==
  ASSUME IInv, NEW h \in Hart, NEW c, Only(h, c), State(h) # "MemoryWait", Running(c)
  PROVE  OwnMove(h)
<1> DEFINE a == adapter[h]
<1>1. DOMAIN adapter = Hart
  BY DEF IInv
<1>2. WindowBecomes(h, a)
  BY <1>1 DEF Only, WindowBecomes
<1>3. Becomes(h, c) /\ UNCHANGED busVars
  BY DEF Only
<1>4. Written(h, a)
  BY DEF Written
<1> HIDE DEF a
<1>5. QED
  BY <1>2, <1>3, <1>4 DEF OwnMove

\* A CSR instruction on a register of the window.
LEMMA CsrMoves ==
  ASSUME IInv, NEW h \in Hart, ExecuteCsr(h)
  PROVE  OwnMove(h)
<1> DEFINE i == Pending(h)
           old == CsrRead(h, i.register)
           c == [core[h] EXCEPT !.reg = old]
           writes == i.mode = "Swap" \/ i.source # 0
           illegal == writes /\ i.register \in {ReadData, ResultId}
           d == IF illegal THEN Faulted(c) ELSE CommittedNext(c)
           a == adapter[h]
           b == IF writes /\ ~illegal
                  THEN WriteRegister(a, h, i.register, CsrValue(i, old)) ELSE a
<1>1. /\ Fields(core[h]) /\ DOMAIN core = Hart /\ DOMAIN adapter = Hart /\ Window(a, h)
  BY DEF IInv
<1>2. State(h) = "ExecuteWait" /\ i.kind = "Csr" /\ Becomes(h, d) /\ UNCHANGED busVars
  BY DEF ExecuteCsr, Ready
<1>3. WindowBecomes(h, b)
  <2>1. adapter' = IF writes /\ ~illegal THEN [adapter EXCEPT ![h] = b] ELSE adapter
    BY <1>1 DEF ExecuteCsr
  <2> HIDE DEF writes, illegal
  <2>2. CASE writes /\ ~illegal
    BY <1>1, <2>1, <2>2 DEF WindowBecomes
  <2>3. CASE ~(writes /\ ~illegal)
    BY <1>1, <2>1, <2>3 DEF WindowBecomes
  <2>4. QED
    BY <2>2, <2>3
<1>4. i.register \in {Target, Command, WriteData, ReadData, Status, Size, ResultId, Pop}
  <2>1. core[h].pc \in DOMAIN Image
    BY <1>1, <1>2 DEF Fields, State
  <2>2. QED
    BY <1>2, <2>1, ImageAssumption DEF Pending
<1>5. Written(h, b)
  <2>1. CASE writes /\ ~illegal
    <3>1. i.register \in Writable
      BY <1>4, <2>1 DEF Writable
    <3> HIDE DEF i, old
    <3>2. b = WriteRegister(adapter[h], h, i.register, CsrValue(i, old))
      BY <2>1
    <3>3. QED
      BY <3>1, <3>2 DEF Written
  <2>2. CASE ~(writes /\ ~illegal)
    BY <2>2 DEF Written
  <2>3. QED
    BY <2>1, <2>2
<1>6. Running(d)
  <2> HIDE DEF old
  <2>1. Fields(c)
    BY <1>1, NewFields
  <2> HIDE DEF c
  <2>2. QED
    BY <2>1, NewFields
<1>7. State(h) # "MemoryWait"
  BY <1>2
<1> HIDE DEF b, d, i, old, c
<1>8. QED
  BY <1>2, <1>3, <1>5, <1>6, <1>7 DEF OwnMove

\* An access to the window.
LEMMA LocalMoves ==
  ASSUME IInv, NEW h \in Hart, IssueLocal(h)
  PROVE  OwnMove(h)
<1> DEFINE reg == Register(Part(h).address, Part(h).size)
           legal == ~Vector(h) /\ reg \in (IF IsWrite(h) THEN Writable ELSE Readable)
           v == ReadRegister(adapter[h], reg)
           d == IF ~legal THEN Faulted(core[h])
                ELSE IF IsWrite(h) THEN CommittedNext(core[h])
                ELSE CommittedNext([core[h] EXCEPT !.reg = v])
           a == adapter[h]
           w == Number(Part(h).data)
           b == IF legal /\ IsWrite(h) THEN WriteRegister(a, h, reg, w) ELSE a
<1>1. /\ Fields(core[h]) /\ DOMAIN core = Hart /\ DOMAIN adapter = Hart /\ Window(a, h)
  BY DEF IInv
<1>2. State(h) = "MemoryIssue" /\ Becomes(h, d) /\ UNCHANGED busVars
  BY DEF IssueLocal, Issuing
<1>3. WindowBecomes(h, b)
  <2>1. adapter' = IF legal /\ IsWrite(h) THEN [adapter EXCEPT ![h] = b] ELSE adapter
    BY <1>1 DEF IssueLocal
  <2> HIDE DEF legal
  <2>2. CASE legal /\ IsWrite(h)
    BY <1>1, <2>1, <2>2 DEF WindowBecomes
  <2>3. CASE ~(legal /\ IsWrite(h))
    BY <1>1, <2>1, <2>3 DEF WindowBecomes
  <2>4. QED
    BY <2>2, <2>3
<1> HIDE DEF reg, v, w
<1>4. Written(h, b)
  <2>1. CASE legal /\ IsWrite(h)
    <3>1. reg \in Writable /\ b = WriteRegister(adapter[h], h, reg, w)
      BY <2>1
    <3>2. QED
      BY <3>1 DEF Written
  <2>2. CASE ~(legal /\ IsWrite(h))
    BY <2>2 DEF Written
  <2>3. QED
    BY <2>1, <2>2
<1>5. Running(d)
  <2>1. Fields([core[h] EXCEPT !.reg = v])
    BY <1>1, NewFields
  <2>2. Running(Faulted(core[h])) /\ Running(CommittedNext(core[h]))
        /\ Running(CommittedNext([core[h] EXCEPT !.reg = v]))
    BY <1>1, <2>1, NewFields
  <2>3. QED
    BY <2>2
<1>6. State(h) # "MemoryWait"
  BY <1>2
<1> HIDE DEF b, d
<1>7. QED
  BY <1>2, <1>3, <1>4, <1>5, <1>6 DEF OwnMove

\* The hart's own request: the window is idle and has nothing under way.
LEMMA IssueKeeps ==
  ASSUME IInv, NEW h \in Hart, IssueSend(h), UNCHANGED memoryVars
  PROVE  IInv'
<1> DEFINE b == RequestOf(h)
           ids == IdsUnderWay
           c == [core[h] EXCEPT !.state = "MemoryWait"]
<1>1. /\ Settled(transit, accepted, inbox, queue, active, response)
      /\ DOMAIN core = Hart /\ \A g \in Hart : Fields(core[g])
      /\ DOMAIN adapter = Hart /\ \A g \in Hart : Window(adapter[g], g)
      /\ \A g \in Hart : Matched(g)
      /\ UnderService(active, response)
  BY DEF IInv
<1>2. /\ State(h) = "MemoryIssue" /\ adapter[h].requests = <<>>
      /\ Bus!Send(h, MemoryPort, Request, b) /\ core' = [core EXCEPT ![h] = c] /\ adapter' = adapter
      /\ queue' = queue /\ active' = active /\ response' = response
  BY DEF IssueSend, Issuing, PortFree, Busy, Becomes, memoryVars
<1>3. b.hart = h /\ b.transaction = core[h].id /\ Body(b)
  BY <1>1 DEF RequestOf, Body, Fields
<1>4. ids[h] = {}
  <2>1. SentIds(adapter[h]) = {}
    BY <1>2, ProperEmpty DEF SentIds
  <2>2. QED
    BY <1>1, <1>2, <2>1 DEF Matched
<1> HIDE DEF b
<1>5. transit' = transit \cup {RequestLetter(accepted, b)} /\ accepted' = accepted + 1 /\ inbox' = inbox
  BY <1>2, <1>3 DEF Bus!Send, RequestLetter
<1>6. /\ Settled(transit, accepted, inbox, queue, active, response)'
      /\ IdsUnderWay' = [ids EXCEPT ![h] = @ \cup {core[h].id}]
  <2>1. \A i \in Ids(transit, inbox, queue, active, response)[b.hart] : i < b.transaction
    BY <1>3, <1>4 DEF IdsUnderWay
  <2>2. /\ Settled(transit \cup {RequestLetter(accepted, b)}, accepted + 1, inbox, queue, active, response)
        /\ Ids(transit \cup {RequestLetter(accepted, b)}, inbox, queue, active, response) =
             [Ids(transit, inbox, queue, active, response) EXCEPT ![b.hart] = @ \cup {b.transaction}]
    BY <1>1, <1>3, <2>1, SendRequest
  <2>3. QED
    BY <1>2, <1>3, <1>5, <2>2 DEF IdsUnderWay
<1>7. DOMAIN ids = Hart
  BY DEF IdsUnderWay, Ids
<1> HIDE DEF ids
<1>8. c.state = "MemoryWait" /\ c.id = core[h].id /\ Fields(c)
  BY <1>1 DEF Fields, CoreFields
<1> HIDE DEF c
<1>9. ASSUME NEW g \in Hart PROVE Matched(g)'
  <2>1. CASE g = h
    <3>1. core'[h] = c /\ IdsUnderWay'[h] = {core[h].id} /\ adapter'[h].requests = <<>>
      BY <1>1, <1>2, <1>4, <1>6, <1>7
    <3>2. QED
      BY <1>8, <2>1, <3>1 DEF Matched, State, Busy
  <2>2. CASE g # h
    <3>1. core'[g] = core[g] /\ IdsUnderWay'[g] = IdsUnderWay[g] /\ adapter'[g] = adapter[g]
      BY <1>1, <1>2, <1>6, <1>7, <2>2 DEF ids
    <3>2. QED
      BY <1>1, <3>1 DEF Matched, State, Busy
  <2>3. QED
    BY <2>1, <2>2
<1>10. /\ DOMAIN core' = Hart /\ \A g \in Hart : Fields(core'[g])
       /\ DOMAIN adapter' = Hart /\ \A g \in Hart : Window(adapter'[g], g)
  BY <1>1, <1>2, <1>8
<1>11. QED
  BY <1>1, <1>2, <1>6, <1>9, <1>10 DEF IInv

\* A hart that has received a response waits no more.
LEMMA ReceivedRuns ==
  ASSUME NEW h, NEW r, Fields(core[h])
  PROVE  Running(IF Misfit(h, r) THEN Faulted(core[h]) ELSE Answered(h, r))
<1>1. Running(Faulted(core[h]))
  BY NewFields
<1>2. Running(Answered(h, r))
  <2> DEFINE v == Number(r.data)
             e == [core[h] EXCEPT !.reg = v]
             n == CommittedNext(core[h])
  <2>1. Running(n) /\ Fields(n)
    BY NewFields DEF Running
  <2>2. Running(CommittedNext(e))
    <3> HIDE DEF v
    <3>1. Fields(e)
      BY NewFields
    <3> HIDE DEF e
    <3>2. QED
      BY <3>1, NewFields
  <2> HIDE DEF n, e
  <2>3. \A code : Running(Stopped(n, code))
    BY <2>1, NewFields
  <2>4. \A parts, k : Running(Staged(core[h], parts, k))
    BY NewFields
  <2>5. QED
    BY <2>1, <2>2, <2>3, <2>4 DEF Answered, n, e, v
<1>3. QED
  BY <1>1, <1>2

\* The response is the hart's own: it was all that was under way.
LEMMA ReceiveKeeps ==
  ASSUME IInv, NEW h \in Hart, Receive(h), UNCHANGED memoryVars
  PROVE  IInv'
<1> DEFINE r == Received(h, Response)
           ids == IdsUnderWay
           c == IF Misfit(h, r) THEN Faulted(core[h]) ELSE Answered(h, r)
<1>1. /\ Settled(transit, accepted, inbox, queue, active, response)
      /\ DOMAIN core = Hart /\ \A g \in Hart : Fields(core[g])
      /\ DOMAIN adapter = Hart /\ \A g \in Hart : Window(adapter[g], g)
      /\ \A g \in Hart : Matched(g)
      /\ UnderService(active, response)
  BY DEF IInv
<1>2. /\ State(h) = "MemoryWait" /\ inbox[h][Response] # <<>>
      /\ core' = [core EXCEPT ![h] = c] /\ adapter' = adapter
      /\ inbox' = Consumed(inbox, h) /\ transit' = transit /\ accepted' = accepted
      /\ queue' = queue /\ active' = active /\ response' = response
  BY DEF Receive, CanRecv, Becomes, memoryVars, Bus!Recv, Consumed
<1>3. /\ Settled(transit, accepted, inbox, queue, active, response)'
      /\ IdsUnderWay' = [ids EXCEPT ![h] = @ \ {r.transaction}]
      /\ r.transaction \in ids[h]
  BY <1>1, <1>2, TakeResponse DEF IdsUnderWay, Received
<1>4. DOMAIN ids = Hart
  BY DEF IdsUnderWay, Ids
<1>5. ids[h] = {core[h].id} /\ adapter[h].requests = <<>>
  BY <1>1, <1>2 DEF Matched, Busy
<1>6. IdsUnderWay'[h] = {}
  BY <1>3, <1>4, <1>5
<1>7. SentIds(adapter[h]) = {}
  BY <1>5, ProperEmpty DEF SentIds
<1> HIDE DEF r, ids
<1>8. Running(c)
  BY <1>1, ReceivedRuns
<1> HIDE DEF c
<1>9. ASSUME NEW g \in Hart PROVE Matched(g)'
  <2>1. CASE g = h
    <3>1. core'[h] = c /\ c.state # "MemoryWait" /\ adapter'[h] = adapter[h]
      BY <1>1, <1>2, <1>8 DEF Running
    <3>2. QED
      BY <1>6, <1>7, <2>1, <3>1 DEF Matched, State
  <2>2. CASE g # h
    <3>1. core'[g] = core[g] /\ IdsUnderWay'[g] = IdsUnderWay[g] /\ adapter'[g] = adapter[g]
      BY <1>1, <1>2, <1>3, <1>4, <2>2 DEF ids
    <3>2. QED
      BY <1>1, <3>1 DEF Matched, State, Busy
  <2>3. QED
    BY <2>1, <2>2
<1>10. /\ DOMAIN core' = Hart /\ \A g \in Hart : Fields(core'[g])
       /\ DOMAIN adapter' = Hart /\ \A g \in Hart : Window(adapter'[g], g)
  BY <1>1, <1>2, <1>8 DEF Running
<1>11. QED
  BY <1>1, <1>2, <1>3, <1>9, <1>10 DEF IInv

\* What a hart does in its turn.
LEMMA CoreMoves ==
  ASSUME IInv, NEW h \in Hart, CoreTick(h)
  PROVE  \/ UNCHANGED <<core, adapter, busVars>>
         \/ OwnMove(h) \/ IssueSend(h) \/ Receive(h)
<1>1. Fields(core[h])
  BY DEF IInv
<1>2. CASE Fetch(h)
  <2> DEFINE k == Pending(h).latency
             c == IF core[h].pc \in DOMAIN Image
                    THEN [core[h] EXCEPT !.state = "ExecuteWait", !.left = k] ELSE Faulted(core[h])
  <2>1. State(h) # "MemoryWait" /\ Only(h, c)
    BY <1>2 DEF Fetch
  <2>2. Running(c)
    <3> HIDE DEF k
    <3>1. Running(Faulted(core[h]))
      BY <1>1, NewFields
    <3>2. core[h].pc \in DOMAIN Image => Running([core[h] EXCEPT !.state = "ExecuteWait", !.left = k])
      BY <1>1 DEF Running, Fields, CoreFields
    <3>3. QED
      BY <3>1, <3>2
  <2> HIDE DEF c
  <2>3. QED
    BY <2>1, <2>2, CoreOnly
<1>3. CASE Hold(h) \/ IssueBlocked(h) \/ Wait(h) \/ Rest(h)
  BY <1>3 DEF Hold, IssueBlocked, Wait, Rest
<1>4. CASE Execute(h)
  <2> DEFINE c == [core[h] EXCEPT !.left = @ - 1]
  <2>1. State(h) = "ExecuteWait" /\ Only(h, c)
    BY <1>4 DEF Execute
  <2>2. Running(c)
    BY <1>1, <2>1 DEF Running, Fields, CoreFields, State
  <2> HIDE DEF c
  <2>3. QED
    BY <2>1, <2>2, CoreOnly
<1>5. CASE ExecutePlain(h)
  <2> DEFINE i == Pending(h)
             c == IF i.kind = "Branch" /\ core[h].reg \in i.taken
                    THEN Committed(core[h], core[h].pc + i.offset) ELSE CommittedNext(core[h])
  <2>1. State(h) = "ExecuteWait" /\ Only(h, c)
    BY <1>5 DEF ExecutePlain, Ready
  <2>2. Running(c)
    BY <1>1, NewFields
  <2> HIDE DEF c
  <2>3. QED
    BY <2>1, <2>2, CoreOnly
<1>6. CASE ExecuteStop(h)
  <2> DEFINE c == IF Pending(h).kind = "Stop" THEN Stopped(core[h], Pending(h).code)
                                              ELSE Faulted(core[h])
  <2>1. State(h) = "ExecuteWait" /\ Only(h, c)
    BY <1>6 DEF ExecuteStop, Ready
  <2>2. Running(c)
    BY <1>1, NewFields
  <2> HIDE DEF c
  <2>3. QED
    BY <2>1, <2>2, CoreOnly
<1>7. CASE ExecuteMemory(h)
  <2> DEFINE i == Pending(h)
             c == CASE i.kind \in {"Load", "Store"} -> Staged(core[h], i.parts, core[h].issueLeft)
                    [] i.parts = <<>> -> CommittedNext(core[h])
                    [] OTHER -> Staged(core[h], i.parts, VectorIssue - 1)
  <2>1. State(h) = "ExecuteWait" /\ Only(h, c)
    BY <1>7 DEF ExecuteMemory, Ready
  <2>2. Running(c)
    <3>1. Running(CommittedNext(core[h])) /\ \A n : Running(Staged(core[h], i.parts, n))
      BY <1>1, NewFields
    <3> HIDE DEF i
    <3>2. \/ c = CommittedNext(core[h]) \/ \E n : c = Staged(core[h], i.parts, n)
      <4>1. \/ c = CommittedNext(core[h])
            \/ c = Staged(core[h], i.parts, core[h].issueLeft)
            \/ c = Staged(core[h], i.parts, VectorIssue - 1)
        OBVIOUS
      <4>2. QED
        BY <4>1
    <3> HIDE DEF c
    <3>3. QED
      BY <3>1, <3>2
  <2> HIDE DEF c
  <2>3. QED
    BY <2>1, <2>2, CoreOnly
<1>8. CASE ExecuteCsr(h)
  BY <1>8, CsrMoves
<1>9. CASE IssueDelay(h)
  <2> DEFINE c == [core[h] EXCEPT !.issueLeft = @ - 1]
  <2>1. State(h) = "MemoryIssue" /\ Only(h, c)
    BY <1>9 DEF IssueDelay
  <2>2. Running(c)
    BY <1>1, <2>1 DEF Running, Fields, CoreFields, State
  <2> HIDE DEF c
  <2>3. QED
    BY <2>1, <2>2, CoreOnly
<1>10. CASE IssueLocal(h)
  BY <1>10, LocalMoves
<1>11. QED
  BY <1>2, <1>3, <1>4, <1>5, <1>6, <1>7, <1>8, <1>9, <1>10 DEF CoreTick

\* The turn of a hart.
LEMMA CoreKeeps ==
  ASSUME IInv, NEW h \in Hart, CoreTick(h), UNCHANGED memoryVars
  PROVE  IInv'
BY CoreMoves, NoStep, OwnKeeps, IssueKeeps, ReceiveKeeps

(***************************************************************************)
(* The turn of a window.  It never throws: the response it takes is for    *)
(* the oldest of its commands.                                             *)
(***************************************************************************)
LEMMA WindowSends ==
  ASSUME IInv, NEW h \in Hart, NEW sent \in BOOLEAN, AdapterTick(h, sent)
  PROVE  LET a == AdapterAfter(h, sent)
             ids == Ids(transit', inbox, queue, active, response) IN
         /\ Settled(transit', accepted', inbox, queue, active, response)
         /\ Window(a, h)
         /\ \A g \in Hart : g # h => ids[g] = IdsUnderWay[g]
         /\ IF State(h) = "MemoryWait" THEN a = adapter[h] /\ ids[h] = IdsUnderWay[h]
                                       ELSE ids[h] = SentIds(a)
<1> DEFINE a == adapter[h]
           ids == Ids(transit', inbox, queue, active, response)
<1>1. /\ Settled(transit, accepted, inbox, queue, active, response)
      /\ Window(a, h) /\ Matched(h)
  BY DEF IInv
<1>2. CASE ~sent
  <2>1. transit' = transit /\ accepted' = accepted /\ AdapterAfter(h, sent) = a
    BY <1>2 DEF AdapterTick, AdapterAfter
  <2>2. ids = IdsUnderWay
    BY <2>1 DEF IdsUnderWay
  <2>3. QED
    BY <1>1, <2>1, <2>2 DEF Matched
<1>3. CASE sent
  <2> DEFINE k == NextUnsent(a)
             b == a.requests[k].request
  <2>1. /\ Unsents(a) # {} /\ AdapterAfter(h, sent) = Sending(a)
        /\ accepted' = accepted + 1
        /\ transit' = transit \cup {[id |-> accepted', src |-> h, dst |-> MemoryPort,
                                     channel |-> Request, body |-> b]}
    BY <1>3 DEF AdapterTick, AdapterAfter
  <2>2. /\ b.hart = h /\ IdOf(a, k) \in Int
        /\ Window(Sending(a), h)
        /\ SentIds(Sending(a)) = SentIds(a) \cup {IdOf(a, k)}
        /\ \A i \in SentIds(a) : i < IdOf(a, k)
    <3> HIDE DEF a
    <3>1. QED
      BY <1>1, <2>1, SendKeeps
  <2>3. b.transaction = IdOf(a, k)
    BY DEF IdOf
  <2>4. State(h) # "MemoryWait"
    <3>1. a.requests # <<>>
      BY <2>1, ProperEmpty DEF Unsents
    <3>2. QED
      BY <1>1, <3>1 DEF Matched, Busy
  <2>5. IdsUnderWay[h] = SentIds(a)
    BY <1>1, <2>4 DEF Matched
  <2> HIDE DEF a, b, k
  <2>6. Body(b)
    BY <2>2, <2>3 DEF Body
  <2>7. transit' = transit \cup {RequestLetter(accepted, b)}
    BY <2>1, <2>2 DEF RequestLetter
  <2>8. \A i \in Ids(transit, inbox, queue, active, response)[b.hart] : i < b.transaction
    BY <2>2, <2>3, <2>5 DEF IdsUnderWay
  <2>9. /\ Settled(transit \cup {RequestLetter(accepted, b)}, accepted + 1, inbox, queue, active, response)
        /\ Ids(transit \cup {RequestLetter(accepted, b)}, inbox, queue, active, response) =
             [Ids(transit, inbox, queue, active, response) EXCEPT ![b.hart] = @ \cup {b.transaction}]
    BY <1>1, <2>6, <2>8, SendRequest
  <2>10. ids = [IdsUnderWay EXCEPT ![h] = @ \cup {IdOf(a, k)}] /\ DOMAIN IdsUnderWay = Hart
    BY <2>2, <2>3, <2>7, <2>9 DEF IdsUnderWay, Ids
  <2>11. ids[h] = SentIds(Sending(a)) /\ \A g \in Hart : g # h => ids[g] = IdsUnderWay[g]
    <3> HIDE DEF ids
    <3>1. QED
      BY <2>2, <2>5, <2>10
  <2>12. Settled(transit', accepted', inbox, queue, active, response)
    BY <2>1, <2>7, <2>9
  <2>13. QED
    BY <2>1, <2>2, <2>4, <2>11, <2>12
<1>4. QED
  BY <1>2, <1>3

\* The whole turn: the response taken completes the oldest command, so nothing is thrown.
LEMMA WindowKeeps ==
  ASSUME IInv, NEW h \in Hart, NEW sent \in BOOLEAN, AdapterTick(h, sent), UNCHANGED memoryVars
  PROVE  /\ ~AdapterThrows(h, sent)
         /\ core' = core => IInv'
<1> DEFINE a == AdapterAfter(h, sent)
           ids == Ids(transit', inbox, queue, active, response)
           r == Received(h, Response)
<1>1. /\ DOMAIN core = Hart /\ \A g \in Hart : Fields(core[g])
      /\ DOMAIN adapter = Hart /\ \A g \in Hart : Window(adapter[g], g)
      /\ \A g \in Hart : Matched(g)
      /\ UnderService(active, response)
  BY DEF IInv
<1>2. /\ Settled(transit', accepted', inbox, queue, active, response)
      /\ Window(a, h)
      /\ \A g \in Hart : g # h => ids[g] = IdsUnderWay[g]
      /\ IF State(h) = "MemoryWait" THEN a = adapter[h] /\ ids[h] = IdsUnderWay[h]
                                    ELSE ids[h] = SentIds(a)
  BY WindowSends
<1>3. queue' = queue /\ active' = active /\ response' = response
  BY DEF memoryVars
<1>4. DOMAIN ids = Hart
  BY DEF Ids
<1>5. ASSUME NEW b, adapter' = [adapter EXCEPT ![h] = b], Window(b, h), core' = core,
             Settled(transit, accepted, inbox, queue, active, response)',
             \A g \in Hart : g # h => IdsUnderWay'[g] = IdsUnderWay[g],
             IF State(h) = "MemoryWait" THEN b = adapter[h] /\ IdsUnderWay'[h] = IdsUnderWay[h]
                                        ELSE IdsUnderWay'[h] = SentIds(b)
      PROVE  IInv'
  <2>1. DOMAIN adapter' = Hart /\ \A g \in Hart : adapter'[g] = IF g = h THEN b ELSE adapter[g]
    BY <1>1, <1>5
  <2>2. \A g \in Hart : Window(adapter'[g], g)
    BY <1>1, <1>5, <2>1
  <2>3. ASSUME NEW g \in Hart PROVE Matched(g)'
    <3>1. CASE g = h
      BY <1>1, <1>5, <2>1, <3>1 DEF Matched, State, Busy
    <3>2. CASE g # h
      BY <1>1, <1>5, <2>1, <3>2 DEF Matched, State, Busy
    <3>3. QED
      BY <3>1, <3>2
  <2>4. UnderService(active', response')
    BY <1>1, <1>3
  <2>5. QED
    BY <1>1, <1>5, <2>1, <2>2, <2>3, <2>4 DEF IInv
<1>6. CASE ~AdapterTakes(h)
  <2>1. ~AdapterThrows(h, sent)
    BY <1>6 DEF AdapterThrows
  <2>2. adapter' = [adapter EXCEPT ![h] = a] /\ inbox' = inbox
    BY <1>6 DEF AdapterTick
  <2>3. /\ Settled(transit, accepted, inbox, queue, active, response)'
        /\ IdsUnderWay' = ids
    BY <1>2, <1>3, <2>2 DEF IdsUnderWay
  <2> HIDE DEF a, ids
  <2>4. QED
    BY <1>2, <1>5, <2>1, <2>2, <2>3
<1>7. CASE AdapterTakes(h)
  <2>1. Busy(adapter[h]) /\ inbox[h][Response] # <<>>
    BY <1>7 DEF AdapterTakes, CanRecv
  <2>2. State(h) # "MemoryWait"
    BY <1>1, <2>1 DEF Matched
  <2>3. ids[h] = SentIds(a)
    BY <1>2, <2>2
  <2>4. /\ Settled(transit', accepted', Consumed(inbox, h), queue, active, response)
        /\ r.hart = h /\ r.transaction \in ids[h]
        /\ \A i \in ids[h] : i \in Int /\ r.transaction <= i
        /\ Ids(transit', Consumed(inbox, h), queue, active, response) =
             [ids EXCEPT ![h] = @ \ {r.transaction}]
    BY <1>2, <2>1, TakeResponse DEF Received
  <2> HIDE DEF a, ids, r
  <2>5. /\ ~Unexpected(a, h, r) /\ Window(Completed(a, r), h)
        /\ SentIds(Completed(a, r)) = SentIds(a) \ {r.transaction}
    BY <1>2, <2>3, <2>4, CompleteKeeps
  <2>6. ~AdapterThrows(h, sent)
    BY <2>5 DEF AdapterThrows, a, r
  <2>7. adapter' = [adapter EXCEPT ![h] = Completed(a, r)] /\ inbox' = Consumed(inbox, h)
    BY <1>7, <2>6 DEF AdapterTick, a, r, Consumed
  <2>8. /\ Settled(transit, accepted, inbox, queue, active, response)'
        /\ IdsUnderWay' = [ids EXCEPT ![h] = @ \ {r.transaction}]
    BY <1>3, <2>4, <2>7 DEF IdsUnderWay
  <2>9. /\ \A g \in Hart : g # h => IdsUnderWay'[g] = IdsUnderWay[g]
        /\ IdsUnderWay'[h] = SentIds(Completed(a, r))
    BY <1>2, <1>4, <2>3, <2>5, <2>8
  <2>10. QED
    BY <1>5, <2>2, <2>5, <2>6, <2>7, <2>8, <2>9
<1>8. QED
  BY <1>6, <1>7

\* The turn of the bus.
LEMMA BusKeeps ==
  ASSUME IInv, BusTurn
  PROVE  IInv'
<1>1. /\ UNCHANGED <<core, adapter, queue, active, response>>
      /\ Settled(transit, accepted, inbox, queue, active, response)
  BY DEF IInv, BusTurn, memoryVars
<1>2. CASE UNCHANGED busVars
  BY <1>2, NoStep DEF BusTurn
<1>3. CASE Bus!Deliver
  <2>1. PICK S \in SUBSET transit : Bus!Arrive(S)
    BY <1>3 DEF Bus!Deliver
  <2>2. /\ Settled(transit', accepted', inbox', queue', active', response')
        /\ IdsUnderWay' = IdsUnderWay
    BY <1>1, <2>1, ArriveKeeps DEF IdsUnderWay
  <2>3. \A h \in Hart : Matched(h)'
    BY <1>1, <2>2 DEF IInv, Matched, State, Busy
  <2>4. QED
    BY <1>1, <2>2, <2>3 DEF IInv
<1>4. QED
  BY <1>2, <1>3 DEF BusTurn, BusTick

\* The turn of the memory controller.
LEMMA ControllerKeeps ==
  ASSUME IInv, MemoryTurn
  PROVE  IInv'
<1>1. /\ UNCHANGED <<core, adapter>> /\ MemoryTick
      /\ Settled(transit, accepted, inbox, queue, active, response) /\ UnderService(active, response)
  BY DEF IInv, MemoryTurn
<1>2. /\ Settled(transit', accepted', inbox', queue', active', response')
      /\ UnderService(active', response')
      /\ IdsUnderWay' = IdsUnderWay
  BY <1>1, MemoryKeeps DEF IdsUnderWay
<1>3. \A h \in Hart : Matched(h)'
  BY <1>1, <1>2 DEF IInv, Matched, State, Busy
<1>4. QED
  BY <1>1, <1>2, <1>3 DEF IInv

\* At the start nothing is under way.
LEMMA Established == Init => IInv
<1> SUFFICES ASSUME Init PROVE IInv
  OBVIOUS
<1>1. /\ transit = {} /\ accepted = 0 /\ queue = <<>> /\ active = <<>> /\ response = <<>>
      /\ inbox = [p \in Port |-> [c \in Channel |-> <<>>]]
  BY DEF Init, Bus!Init, MemoryInit
<1>2. MemoryPort \in Port /\ Hart \subseteq Port /\ Request \in Channel /\ Response \in Channel
  BY DEF Port, Channel
<1>3. Bodied(<<>>) /\ Bodied(Contents(<<>>)) /\ Bodied(Serving(<<>>)) /\ Contents(<<>>) = <<>>
      /\ Serving(<<>>) = <<>>
  BY LineEmpty, ProperEmpty, ContentsFacts, ServingFacts
<1>4. Arrivals(inbox)
  BY <1>1, <1>2, <1>3, ProperEmpty DEF Arrivals
<1>5. Tokens(transit, inbox, queue, active, response) = {}
  <2>1. \A c, s : Sailing(transit, c, s) = {}
    BY <1>1 DEF Sailing
  <2>2. /\ Line(Contents(inbox[MemoryPort][Request]), 5) = {}
        /\ \A h \in Hart : Line(Contents(inbox[h][Response]), 0) = {}
    BY <1>1, <1>2, <1>3, LineEmpty
  <2>3. Line(queue, 4) = {} /\ Line(Serving(active), 3) = {} /\ Line(response, 2) = {}
    BY <1>1, <1>3, LineEmpty
  <2>4. QED
    BY <2>1, <2>2, <2>3 DEF Tokens
<1>6. Settled(transit, accepted, inbox, queue, active, response)
  <2>1. Posted(transit, accepted) /\ accepted \in Nat
    BY <1>1 DEF Posted
  <2>2. Placed(transit, accepted, inbox, queue, active, response)
    BY <1>1, <1>3, <1>4, <2>1 DEF Placed
  <2>3. QED
    BY <1>5, <2>2 DEF Settled, InLine
<1>7. UnderService(active, response)
  BY <1>1 DEF UnderService, Slot
<1>8. /\ DOMAIN core = Hart /\ \A h \in Hart : Fields(core[h]) /\ State(h) # "MemoryWait"
  <2>1. PICK entry \in Entries :
          core = [h \in Hart |->
            [pc |-> entry[h], state |-> "FetchDecode", left |-> 0, issueLeft |-> 0, parts |-> <<>>,
             id |-> 0, next |-> 1 % IdSpace, reg |-> 0, exit |-> 0]]
    BY DEF Init, CoreInit
  <2>2. 1 % IdSpace \in Int
    BY SystemAssumption
  <2>3. QED
    BY <2>1, <2>2 DEF Fields, CoreFields, State
<1>9. /\ DOMAIN adapter = Hart
      /\ \A h \in Hart : Window(adapter[h], h) /\ SentIds(adapter[h]) = {}
  <2>1. adapter = [h \in Hart |->
          [target |-> 0, wdata |-> 0, size |-> 8, rdata |-> 0, flags |-> {},
           requests |-> <<>>, results |-> <<>>, next |-> 0]]
    BY DEF Init, AdapterInit
  <2>2. ASSUME NEW h \in Hart PROVE Window(adapter[h], h) /\ SentIds(adapter[h]) = {}
    <3> DEFINE a == adapter[h]
    <3>1. DOMAIN a = AdapterFields /\ a.requests = <<>> /\ a.results = <<>> /\ a.next = 0
      BY <2>1 DEF AdapterFields
    <3> HIDE DEF a
    <3>2. SentIds(a) = {}
      BY <3>1, ProperEmpty DEF SentIds
    <3>3. Len(<<>>) = 0
      BY ProperFacts, ProperEmpty
    <3>4. Consecutive(a)
      BY <3>1, <3>3, ProperEmpty, HalfType DEF Consecutive
    <3>5. Window(a, h)
      BY <3>1, <3>4, ProperEmpty DEF Window
    <3>6. QED
      BY <3>2, <3>5 DEF a
  <2>3. QED
    BY <2>1, <2>2
<1>10. \A h \in Hart : IdsUnderWay[h] = {}
  BY <1>5 DEF IdsUnderWay, Ids, IdsOf
<1>11. \A h \in Hart : Matched(h)
  BY <1>8, <1>9, <1>10 DEF Matched
<1>12. QED
  BY <1>6, <1>7, <1>8, <1>9, <1>11 DEF IInv

\* Every step keeps the invariant.
LEMMA StepKeeps ==
  ASSUME IInv, [Next]_vars
  PROVE  IInv'
<1>1. CASE MemoryTurn
  BY <1>1, ControllerKeeps
<1>2. ASSUME NEW h \in Hart, WindowTurn(h) PROVE IInv'
  <2>1. PICK sent \in BOOLEAN :
          /\ AdapterTick(h, sent)
          /\ core' = IF AdapterThrows(h, sent) THEN [core EXCEPT ![h] = Faulted(@)] ELSE core
    BY <1>2 DEF WindowTurn
  <2>2. UNCHANGED memoryVars
    BY <1>2 DEF WindowTurn
  <2>3. QED
    BY <2>1, <2>2, WindowKeeps
<1>3. ASSUME NEW h \in Hart, CoreTurn(h) PROVE IInv'
  BY <1>3, CoreKeeps DEF CoreTurn
<1>4. CASE BusTurn
  BY <1>4, BusKeeps
<1>5. CASE UNCHANGED vars
  BY <1>5, NoStep DEF vars
<1>6. QED
  BY <1>1, <1>2, <1>3, <1>4, <1>5 DEF Next, RunEnded

(***************************************************************************)
(* The invariant holds in every state: requests and responses of a hart    *)
(* stay in the order of their ids all the way, and are those its window or *)
(* the hart itself still waits for.                                        *)
(***************************************************************************)
THEOREM Invariant == Spec => []IInv
BY Established, StepKeeps, PTL DEF Spec

-------------------------------------------------------------------------------
(***************************************************************************)
(* What is under way for a hart, by its place in the line.                 *)
(***************************************************************************)
Letters(s, p) == CHOOSE m \in transit : m.id = p

InPlace(h, s, p) ==
  CASE s = 5 -> inbox[MemoryPort][Request][p].body
    [] s = 4 -> queue[p]
    [] s = 3 -> active[p].request
    [] s = 2 -> response[p]
    [] s = 0 -> inbox[h][Response][p].body
    [] OTHER -> Letters(s, p).body

\* What is under way for a hart is what the tokens of the hart stand for.
LEMMA UnderWayInLine ==
  ASSUME IInv, NEW h \in Hart
  PROVE  LET Z == Tokens(transit, inbox, queue, active, response) IN
         /\ \A r \in Requests(h) :
              \E s \in 3 .. 6, p \in Int : At(r, s, p) \in Z /\ r.hart = h /\ r = InPlace(h, s, p)
         /\ \A r \in Responses(h) :
              \E s \in 0 .. 2, p \in Int : At(r, s, p) \in Z /\ r.hart = h /\ r = InPlace(h, s, p)
         /\ \A z \in Z : z.hart = h => \E r \in UnderWay(h) : r.transaction = z.id
<1> DEFINE Z == Tokens(transit, inbox, queue, active, response)
           Stands(r, S) ==
             \E s \in S, p \in Int : At(r, s, p) \in Z /\ r.hart = h /\ r = InPlace(h, s, p)
<1>1. /\ Posted(transit, accepted) /\ Arrivals(inbox) /\ Bodied(queue) /\ Bodied(Serving(active))
      /\ Bodied(response)
  BY DEF IInv, Settled, Placed
<1>2. MemoryPort \in Port /\ Hart \subseteq Port /\ Request \in Channel /\ Response \in Channel
  BY DEF Port, Channel
<1>3. /\ DOMAIN Contents(inbox[MemoryPort][Request]) = DOMAIN inbox[MemoryPort][Request]
      /\ DOMAIN Contents(inbox[h][Response]) = DOMAIN inbox[h][Response]
      /\ DOMAIN Serving(active) = DOMAIN active
  BY DEF Contents, Serving
<1>4. /\ DOMAIN inbox[MemoryPort][Request] \subseteq Int /\ DOMAIN inbox[h][Response] \subseteq Int
      /\ DOMAIN queue \subseteq Int /\ DOMAIN active \subseteq Int /\ DOMAIN response \subseteq Int
  <2>1. \A q : Proper(q) => DOMAIN q \subseteq Int
    BY ProperFacts
  <2>2. QED
    BY <1>1, <1>2, <1>3, <2>1 DEF Arrivals, Bodied
<1>5. ASSUME NEW r \in UnderWay(h)
      PROVE  /\ r \in Requests(h) => Stands(r, 3 .. 6)
             /\ r \in Responses(h) => Stands(r, 0 .. 2)
  <2>1. ASSUME NEW c, NEW s, (c = Request /\ s = 6) \/ (c = Response /\ s = 1),
               r \in InTransit(c), r.hart = h
        PROVE  \E p \in Int : At(r, s, p) \in Z /\ r = InPlace(h, s, p)
    <3>1. PICK m \in transit : m.channel = c /\ r = m.body
      BY <2>1 DEF InTransit
    <3>2. m.id \in Int /\ Letters(s, m.id) = m
      BY <1>1 DEF Posted, Letters
    <3>3. At(r, s, m.id) \in Z
      BY <2>1, <3>1 DEF Tokens, Sailing
    <3>4. r = InPlace(h, s, m.id)
      BY <2>1, <3>1, <3>2 DEF InPlace
    <3>5. QED
      BY <3>2, <3>3, <3>4
  <2>2. ASSUME r \in Bodies(MemoryPort, Request), r.hart = h PROVE Stands(r, 3 .. 6)
    <3>1. PICK i \in DOMAIN inbox[MemoryPort][Request] : r = inbox[MemoryPort][Request][i].body
      BY <2>2 DEF Bodies
    <3>2. At(r, 5, i) \in Z
      BY <1>3, <3>1 DEF Tokens, Line, Contents
    <3>3. r = InPlace(h, 5, i)
      BY <3>1 DEF InPlace
    <3>4. QED
      BY <1>4, <2>2, <3>2, <3>3
  <2>3. ASSUME r \in {queue[i] : i \in DOMAIN queue}, r.hart = h PROVE Stands(r, 3 .. 6)
    <3>1. PICK i \in DOMAIN queue : r = queue[i]
      BY <2>3
    <3>2. At(r, 4, i) \in Z /\ r = InPlace(h, 4, i)
      BY <3>1 DEF Tokens, Line, InPlace
    <3>3. QED
      BY <1>4, <2>3, <3>2
  <2>4. ASSUME r \in {active[i].request : i \in DOMAIN active}, r.hart = h PROVE Stands(r, 3 .. 6)
    <3>1. PICK i \in DOMAIN active : r = active[i].request
      BY <2>4
    <3>2. At(r, 3, i) \in Z /\ r = InPlace(h, 3, i)
      BY <1>3, <3>1 DEF Tokens, Line, InPlace, Serving
    <3>3. QED
      BY <1>4, <2>4, <3>2
  <2>5. ASSUME r \in {response[i] : i \in DOMAIN response}, r.hart = h PROVE Stands(r, 0 .. 2)
    <3>1. PICK i \in DOMAIN response : r = response[i]
      BY <2>5
    <3>2. At(r, 2, i) \in Z /\ r = InPlace(h, 2, i)
      BY <3>1 DEF Tokens, Line, InPlace
    <3>3. QED
      BY <1>4, <2>5, <3>2
  <2>6. ASSUME r \in Bodies(h, Response) PROVE Stands(r, 0 .. 2)
    <3>1. PICK i \in DOMAIN inbox[h][Response] : r = inbox[h][Response][i].body
      BY <2>6 DEF Bodies
    <3>2. At(r, 0, i) \in Z
      BY <1>3, <3>1 DEF Tokens, Line, Contents
    <3>3. r = InPlace(h, 0, i)
      BY <3>1 DEF InPlace
    <3>4. r.hart = h
      BY <1>1, <3>1 DEF Arrivals
    <3>5. QED
      BY <1>4, <3>1, <3>2, <3>3, <3>4
  <2>7. ASSUME r \in InTransit(Request), r.hart = h PROVE Stands(r, 3 .. 6)
    <3>1. Request = Request /\ 6 = 6 /\ 6 \in 3 .. 6
      OBVIOUS
    <3>2. \E p \in Int : At(r, 6, p) \in Z /\ r = InPlace(h, 6, p)
      BY <2>1, <2>7, <3>1
    <3> HIDE DEF Z
    <3>3. QED
      BY <2>7, <3>1, <3>2
  <2>8. ASSUME r \in InTransit(Response), r.hart = h PROVE Stands(r, 0 .. 2)
    <3>1. \E p \in Int : At(r, 1, p) \in Z /\ r = InPlace(h, 1, p)
      BY <2>1, <2>8
    <3>2. 1 \in 0 .. 2
      OBVIOUS
    <3> HIDE DEF Z
    <3>3. QED
      BY <2>8, <3>1, <3>2
  <2>9. ASSUME r \in Requests(h)
        PROVE  \/ r \in InTransit(Request) /\ r.hart = h
               \/ r \in Bodies(MemoryPort, Request) /\ r.hart = h
               \/ r \in {queue[i] : i \in DOMAIN queue} /\ r.hart = h
               \/ r \in {active[i].request : i \in DOMAIN active} /\ r.hart = h
    BY <2>9 DEF Requests
  <2>10. ASSUME r \in Responses(h)
         PROVE  \/ r \in InTransit(Response) /\ r.hart = h
                \/ r \in {response[i] : i \in DOMAIN response} /\ r.hart = h
                \/ r \in Bodies(h, Response)
    BY <2>10 DEF Responses
  <2> HIDE DEF Stands
  <2>11. QED
    BY <2>2, <2>3, <2>4, <2>5, <2>6, <2>7, <2>8, <2>9, <2>10
<1>6. ASSUME NEW z \in Z, z.hart = h
      PROVE  \E r \in UnderWay(h) : r.transaction = z.id
  <2>1. ASSUME NEW c, (c = Request \/ c = Response), NEW s, z \in Sailing(transit, c, s)
        PROVE  \E r \in InTransit(c) : r.transaction = z.id /\ r.hart = h
    <3>1. PICK m \in transit : m.channel = c /\ z = At(m.body, s, m.id)
      BY <2>1 DEF Sailing
    <3>2. m.body \in InTransit(c) /\ m.body.transaction = z.id /\ m.body.hart = h
      BY <1>6, <3>1 DEF InTransit, At
    <3>3. QED
      BY <3>2
  <2>2. ASSUME NEW q, NEW s, z \in Line(q, s)
        PROVE  \E i \in DOMAIN q : q[i].transaction = z.id /\ q[i].hart = h
    BY <1>6, <2>2 DEF Line, At
  <2>3. CASE z \in Sailing(transit, Request, 6)
    BY <2>1, <2>3 DEF UnderWay, Requests
  <2>4. CASE z \in Sailing(transit, Response, 1)
    BY <2>1, <2>4 DEF UnderWay, Responses
  <2>5. CASE z \in Line(Contents(inbox[MemoryPort][Request]), 5)
    <3>1. PICK i \in DOMAIN inbox[MemoryPort][Request] :
            /\ inbox[MemoryPort][Request][i].body.transaction = z.id
            /\ inbox[MemoryPort][Request][i].body.hart = h
      BY <1>3, <2>2, <2>5 DEF Contents
    <3>2. QED
      BY <3>1 DEF UnderWay, Requests, Bodies
  <2>6. CASE z \in Line(queue, 4)
    BY <2>2, <2>6 DEF UnderWay, Requests
  <2>7. CASE z \in Line(Serving(active), 3)
    <3>1. PICK i \in DOMAIN active : active[i].request.transaction = z.id /\ active[i].request.hart = h
      BY <1>3, <2>2, <2>7 DEF Serving
    <3>2. QED
      BY <3>1 DEF UnderWay, Requests
  <2>8. CASE z \in Line(response, 2)
    BY <2>2, <2>8 DEF UnderWay, Responses
  <2>9. ASSUME NEW g \in Hart, z \in Line(Contents(inbox[g][Response]), 0)
        PROVE  \E r \in UnderWay(h) : r.transaction = z.id
    <3>1. z.hart = g
      BY <1>1, <2>9, InboxTokens
    <3>2. PICK i \in DOMAIN inbox[h][Response] : inbox[h][Response][i].body.transaction = z.id
      BY <1>3, <1>6, <2>2, <2>9, <3>1 DEF Contents
    <3>3. QED
      BY <3>2 DEF UnderWay, Responses, Bodies
  <2>10. QED
    BY <2>3, <2>4, <2>5, <2>6, <2>7, <2>8, <2>9 DEF Tokens
<1>7. QED
  BY <1>5, <1>6 DEF UnderWay

\* The ids under way for a hart are those of its tokens, and no two messages share one.
LEMMA UnderWayIds ==
  ASSUME IInv, NEW h \in Hart
  PROVE  /\ {r.transaction : r \in UnderWay(h)} = IdsUnderWay[h]
         /\ \A r, q \in UnderWay(h) : r.transaction = q.transaction => r = q
<1> DEFINE Z == Tokens(transit, inbox, queue, active, response)
<1>1. /\ \A r \in UnderWay(h) :
           \E s \in 0 .. 6, p \in Int : At(r, s, p) \in Z /\ r.hart = h /\ r = InPlace(h, s, p)
      /\ \A z \in Z : z.hart = h => \E r \in UnderWay(h) : r.transaction = z.id
  <2>1. \A s : s \in 3 .. 6 \/ s \in 0 .. 2 => s \in 0 .. 6
    OBVIOUS
  <2> HIDE DEF Z
  <2>2. QED
    BY <2>1, UnderWayInLine DEF UnderWay, Z
<1>2. /\ Settled(transit, accepted, inbox, queue, active, response)
      /\ IdsUnderWay[h] = IdsOf(Z, h)
  BY DEF IInv, IdsUnderWay, Ids
<1>3. Z \in SUBSET Token /\ InLine(Z)
  BY <1>2, TokenTypes DEF Settled
<1> HIDE DEF Z
<1>4. \A r, s, p : /\ At(r, s, p).hart = r.hart /\ At(r, s, p).id = r.transaction
                   /\ At(r, s, p).stage = s /\ At(r, s, p).place = p
  BY DEF At
<1>5. {r.transaction : r \in UnderWay(h)} = IdsOf(Z, h)
  <2>1. \A r \in UnderWay(h) : \E z \in Z : z.hart = h /\ z.id = r.transaction
    BY <1>1, <1>4
  <2>2. QED
    BY <1>1, <2>1 DEF IdsOf
<1>6. ASSUME NEW r \in UnderWay(h), NEW q \in UnderWay(h), r.transaction = q.transaction
      PROVE  r = q
  <2>1. PICK s \in 0 .. 6, p \in Int : At(r, s, p) \in Z /\ r.hart = h /\ r = InPlace(h, s, p)
    BY <1>1
  <2>2. PICK t \in 0 .. 6, o \in Int : At(q, t, o) \in Z /\ q.hart = h /\ q = InPlace(h, t, o)
    BY <1>1
  <2> DEFINE y == At(r, s, p)
             z == At(q, t, o)
  <2>3. /\ y.hart = z.hart /\ y.id = z.id /\ y \in Z /\ z \in Z
        /\ y.stage = s /\ y.place = p /\ z.stage = t /\ z.place = o
    BY <1>4, <1>6, <2>1, <2>2
  <2> HIDE DEF y, z
  <2>4. ~Ahead(y, z) /\ ~Ahead(z, y)
    <3>1. y.id \in Int
      BY <1>3, <2>3 DEF Token
    <3>2. ~(y.id < z.id) /\ ~(z.id < y.id)
      BY <2>3, <3>1
    <3>3. QED
      BY <1>3, <2>3, <3>2 DEF InLine
  <2>5. s = t /\ p = o
    BY <2>3, <2>4 DEF Ahead
  <2>6. QED
    BY <2>1, <2>2, <2>5
<1>7. QED
  BY <1>2, <1>5, <1>6

\* As many sent commands as ids of theirs.
LEMMA SentInIds ==
  ASSUME IInv, NEW h \in Hart
  PROVE  /\ SentIds(adapter[h]) = {Commands(h)[i].request.transaction : i \in Sent(h)}
         /\ IsFiniteSet(Sent(h))
         /\ \A i, j \in Sent(h) :
              Commands(h)[i].request.transaction = Commands(h)[j].request.transaction => i = j
<1>1. Window(adapter[h], h)
  BY DEF IInv
<1>2. DOMAIN Commands(h) = 1 .. Len(Commands(h)) /\ Len(Commands(h)) \in Nat
  BY <1>1, ProperFacts DEF Window, Commands
<1>3. IsFiniteSet(Sent(h))
  <2>1. IsFiniteSet(1 .. Len(Commands(h)))
    BY <1>2, FS_Interval
  <2>2. Sent(h) \in SUBSET (1 .. Len(Commands(h)))
    BY <1>2 DEF Sent
  <2>3. QED
    BY <2>1, <2>2, FS_Subset
<1>4. ASSUME NEW i \in Sent(h), NEW j \in Sent(h),
             Commands(h)[i].request.transaction = Commands(h)[j].request.transaction
      PROVE  i = j
  <2>1. i \in DOMAIN adapter[h].requests /\ j \in DOMAIN adapter[h].requests /\ i \in Int /\ j \in Int
    BY <1>2 DEF Sent, Commands
  <2>2. IdOf(adapter[h], i) = IdOf(adapter[h], j) /\ IdOf(adapter[h], i) \in Int
    BY <1>1, <1>4, <2>1 DEF Commands, IdOf, Window
  <2>3. ~(i < j) /\ ~(j < i)
    BY <1>1, <2>1, <2>2 DEF Window
  <2>4. QED
    BY <2>1, <2>3
<1>5. SentIds(adapter[h]) = {Commands(h)[i].request.transaction : i \in Sent(h)}
  BY DEF SentIds, IdOf, Sent, Commands
<1>6. QED
  BY <1>3, <1>4, <1>5

\* Two sets have as many elements if each has its own out of the same ids.
Named(f, S, ids) ==
  /\ DOMAIN f = S /\ {f[x] : x \in S} = ids
  /\ \A x, y \in S : f[x] = f[y] => x = y

\* Then two sets with the same ids are as large as each other.
LEMMA SameCount ==
  ASSUME NEW S, NEW T, NEW f, NEW g, NEW ids, IsFiniteSet(S), Named(f, S, ids), Named(g, T, ids)
  PROVE  Cardinality(T) = Cardinality(S)
<1>0. /\ {f[x] : x \in S} = {g[y] : y \in T}
      /\ \A x, y \in S : f[x] = f[y] => x = y
      /\ \A x, y \in T : g[x] = g[y] => x = y
  BY DEF Named
<1> DEFINE F == [x \in S |-> CHOOSE y \in T : g[y] = f[x]]
<1>1. \A x \in S : F[x] \in T /\ g[F[x]] = f[x]
  <2>1. \A x \in S : \E y \in T : g[y] = f[x]
    BY <1>0
  <2>2. QED
    BY <2>1
<1>2. F \in [S -> T]
  BY <1>1
<1>3. \A x, y \in S : F[x] = F[y] => x = y
  BY <1>0, <1>1
<1>4. ASSUME NEW y \in T PROVE \E x \in S : F[x] = y
  <2>1. PICK x \in S : f[x] = g[y]
    BY <1>0
  <2>2. QED
    BY <1>0, <1>1, <2>1
<1> HIDE DEF F
<1>5. F \in Bijection(S, T)
  BY <1>2, <1>3, <1>4 DEF Bijection, Injection, Surjection, IsInjective
<1>6. QED
  BY <1>5, FS_Bijection DEF ExistsBijection

(***************************************************************************)
(* The hart and its window never take each other's responses: what is      *)
(* under way for a hart is its own one request, or what its window has     *)
(* sent, each once.                                                        *)
(***************************************************************************)
LEMMA Distinct == IInv => NoStolenResponse
<1> SUFFICES ASSUME IInv, NEW h \in Hart
             PROVE  LET ids == {r.transaction : r \in UnderWay(h)} IN
                    IF State(h) = "MemoryWait"
                      THEN ~Busy(adapter[h]) /\ ids = {core[h].id} /\ Cardinality(UnderWay(h)) = 1
                      ELSE /\ ids = {Commands(h)[i].request.transaction : i \in Sent(h)}
                           /\ Cardinality(UnderWay(h)) = Cardinality(Sent(h))
  BY DEF NoStolenResponse
<1> DEFINE U == UnderWay(h)
<1>1. /\ {r.transaction : r \in U} = IdsUnderWay[h]
      /\ \A r, q \in U : r.transaction = q.transaction => r = q
  BY UnderWayIds
<1>2. Matched(h)
  BY DEF IInv
<1> HIDE DEF U
<1>3. CASE State(h) = "MemoryWait"
  <2>1. ~Busy(adapter[h]) /\ {r.transaction : r \in U} = {core[h].id}
    BY <1>1, <1>2, <1>3 DEF Matched
  <2>2. PICK r \in U : r.transaction = core[h].id
    BY <2>1
  <2>3. U = {r}
    BY <1>1, <2>1, <2>2
  <2>4. Cardinality(U) = 1
    BY <2>3, FS_Singleton
  <2>5. QED
    BY <1>3, <2>1, <2>4 DEF U
<1>4. CASE State(h) # "MemoryWait"
  <2> DEFINE S == Sent(h)
             f == [i \in S |-> Commands(h)[i].request.transaction]
             g == [r \in U |-> r.transaction]
  <2>1. /\ SentIds(adapter[h]) = {Commands(h)[i].request.transaction : i \in S}
        /\ IsFiniteSet(S)
        /\ \A i, j \in S :
             Commands(h)[i].request.transaction = Commands(h)[j].request.transaction => i = j
    BY SentInIds
  <2>2. IdsUnderWay[h] = SentIds(adapter[h])
    BY <1>2, <1>4 DEF Matched
  <2> HIDE DEF S
  <2>3. /\ DOMAIN f = S /\ \A i \in S : f[i] = Commands(h)[i].request.transaction
        /\ DOMAIN g = U /\ \A r \in U : g[r] = r.transaction
    OBVIOUS
  <2> HIDE DEF f, g
  <2>4. Named(f, S, IdsUnderWay[h])
    BY <2>1, <2>2, <2>3 DEF Named
  <2>5. Named(g, U, IdsUnderWay[h])
    BY <1>1, <2>3 DEF Named
  <2>6. Cardinality(U) = Cardinality(S)
    BY <2>1, <2>4, <2>5, SameCount
  <2>7. QED
    BY <1>1, <1>4, <2>1, <2>2, <2>6 DEF U, S
<1>5. QED
  BY <1>3, <1>4

(***************************************************************************)
(* Normal and vector requests cannot steal responses from the window's     *)
(* commands, nor these from them, for every program and every id space: a  *)
(* hart issues its own request only while its window is idle.              *)
(***************************************************************************)
THEOREM NoneStolen == Spec => []NoStolenResponse
BY Invariant, Distinct, PTL

-------------------------------------------------------------------------------
(***************************************************************************)
(* The fences.  A hart leaves its fence only through ExecutePlain, when    *)
(* its window is not busy: then the invariant leaves nothing under way.    *)
(***************************************************************************)
LEMMA OneHart ==
  ASSUME NEW g, CoreTick(g), NEW h, h # g, DOMAIN core = Hart, h \in Hart
  PROVE  core'[h] = core[h]
<1>1. core' = core \/ \E c : core' = [core EXCEPT ![g] = c]
  <2>1. CASE Hold(g) \/ IssueBlocked(g) \/ Wait(g) \/ Rest(g)
    BY <2>1 DEF Hold, IssueBlocked, Wait, Rest
  <2>2. CASE Fetch(g) \/ Execute(g) \/ ExecutePlain(g) \/ ExecuteStop(g) \/ IssueDelay(g)
    BY <2>2 DEF Fetch, Execute, ExecutePlain, ExecuteStop, IssueDelay, Only, Becomes
  <2>3. CASE ExecuteMemory(g)
    <3> DEFINE i == Pending(g)
               c == CASE i.kind \in {"Load", "Store"} -> Staged(core[g], i.parts, core[g].issueLeft)
                      [] i.parts = <<>> -> CommittedNext(core[g])
                      [] OTHER -> Staged(core[g], i.parts, VectorIssue - 1)
    <3>1. core' = [core EXCEPT ![g] = c]
      BY <2>3 DEF ExecuteMemory, Only, Becomes
    <3> HIDE DEF c
    <3>2. QED
      BY <3>1
  <2>4. CASE ExecuteCsr(g) \/ IssueLocal(g)
    BY <2>4 DEF ExecuteCsr, IssueLocal, Becomes
  <2>5. CASE IssueSend(g) \/ Receive(g)
    BY <2>5 DEF IssueSend, Receive, Becomes
  <2>6. QED
    BY <2>1, <2>2, <2>3, <2>4, <2>5 DEF CoreTick
<1>2. QED
  BY <1>1

\* A fence retires only while the window is not busy (tick, the Fence case).
LEMMA FenceLeaves ==
  ASSUME IInv, NEW h \in Hart, [Next]_vars, FenceRetires(h)
  PROVE  ~Busy(adapter[h]) /\ State(h) # "MemoryWait"
<1>1. /\ State(h) = "ExecuteWait" /\ Pending(h).kind = "Fence"
      /\ core'[h].state = "FetchDecode"
      /\ DOMAIN core = Hart /\ Fields(core[h])
  BY DEF FenceRetires, IInv
<1>2. core'[h].state # core[h].state
  BY <1>1 DEF State
<1>3. core' # core
  BY <1>2
<1>4. PICK g \in Hart : WindowTurn(g) \/ CoreTurn(g)
  BY <1>3 DEF Next, vars, MemoryTurn, BusTurn, RunEnded
<1>5. ~WindowTurn(g)
  <2>1. ASSUME WindowTurn(g)
        PROVE  core' = core \/ core' = [core EXCEPT ![g] = Faulted(@)]
    BY <2>1 DEF WindowTurn
  <2>2. ASSUME core' = [core EXCEPT ![g] = Faulted(@)] PROVE FALSE
    <3>1. core'[h] = core[h] \/ core'[h] = Faulted(core[h])
      BY <1>1, <2>2
    <3>2. Faulted(core[h]).state = "Faulted"
      BY <1>1 DEF Faulted, Fields, CoreFields
    <3>3. QED
      BY <1>1, <1>2, <3>1, <3>2
  <2>3. QED
    BY <1>3, <2>1, <2>2
<1>6. CoreTick(g) /\ g = h
  BY <1>1, <1>2, <1>4, <1>5, OneHart DEF CoreTurn
<1>7. CoreTick(h)
  BY <1>6
<1>8. ~Execute(h)
  <2>1. ASSUME Execute(h) PROVE core'[h].state = core[h].state
    BY <1>1, <2>1 DEF Execute, Only, Becomes, Fields, CoreFields
  <2>2. QED
    BY <1>2, <2>1
<1>9. ExecutePlain(h)
  <2>1. /\ ~Hold(h) /\ ~IssueBlocked(h) /\ ~Wait(h) /\ ~Rest(h)
    BY <1>3 DEF Hold, IssueBlocked, Wait, Rest
  <2>2. /\ ~Fetch(h) /\ ~IssueDelay(h) /\ ~IssueLocal(h) /\ ~IssueSend(h) /\ ~Receive(h)
    BY <1>1 DEF Fetch, IssueDelay, IssueLocal, Issuing, IssueSend, Receive
  <2>3. ~ExecuteStop(h) /\ ~ExecuteMemory(h) /\ ~ExecuteCsr(h)
    BY <1>1 DEF ExecuteStop, ExecuteMemory, ExecuteCsr, Ready
  <2>4. QED
    BY <1>7, <1>8, <2>1, <2>2, <2>3 DEF CoreTick
<1>10. QED
  BY <1>1, <1>9 DEF ExecutePlain, Ready, FenceHeld

\* Nothing of a hart that waits for nothing is under way.
LEMMA NothingLeft ==
  ASSUME IInv, NEW h \in Hart, ~Busy(adapter[h]), State(h) # "MemoryWait"
  PROVE  Commands(h) = <<>> /\ UnderWay(h) = {}
<1>1. Commands(h) = <<>>
  BY DEF Busy, Commands
<1>2. SentIds(adapter[h]) = {}
  BY <1>1, ProperEmpty DEF SentIds, Commands
<1>3. IdsUnderWay[h] = {}
  BY <1>2 DEF IInv, Matched
<1>4. {r.transaction : r \in UnderWay(h)} = {}
  BY <1>3, UnderWayIds
<1>5. QED
  BY <1>1, <1>4

(***************************************************************************)
(* When a fence retires nothing of its hart is left in its window, in the  *)
(* bus, in the memory's queue or on the way back.                          *)
(***************************************************************************)
THEOREM FencesDrain == Spec => FenceDrains
<1>1. ASSUME IInv, [Next]_vars
      PROVE  \A h \in Hart : FenceRetires(h) => Commands(h) = <<>> /\ UnderWay(h) = {}
  BY <1>1, FenceLeaves, NothingLeft
<1>2. QED
  BY <1>1, Invariant, PTL DEF Spec, FenceDrains

-------------------------------------------------------------------------------
(***************************************************************************)
(* The order of the commands.                                              *)
(***************************************************************************)
LEMMA Joined ==
  ASSUME NEW s, NEW t, Proper(s), Proper(t)
  PROVE  /\ Len(s \o t) = Len(s) + Len(t) /\ DOMAIN (s \o t) = 1 .. Len(s) + Len(t)
         /\ \A i \in 1 .. Len(s) + Len(t) :
              (s \o t)[i] = IF i <= Len(s) THEN s[i] ELSE t[i - Len(s)]
<1> DEFINE S == {s[i] : i \in DOMAIN s} \cup {t[i] : i \in DOMAIN t}
<1>1. s \in Seq(S) /\ t \in Seq(S)
  BY SeqMonotonic DEF Proper
<1> HIDE DEF S
<1>2. QED
  BY <1>1

\* A function on the places of a sequence is one as long.
LEMMA Renamed ==
  ASSUME NEW s, Proper(s), NEW f, f = [i \in DOMAIN s |-> f[i]]
  PROVE  Proper(f) /\ Len(f) = Len(s)
<1> DEFINE S == {f[i] : i \in DOMAIN f}
<1>1. Len(s) \in Nat /\ DOMAIN s = 1 .. Len(s)
  BY ProperFacts
<1>2. f = [i \in 1 .. Len(s) |-> f[i]] /\ DOMAIN f = DOMAIN s
  BY <1>1
<1>3. f \in [1 .. Len(s) -> S]
  BY <1>1, <1>2
<1>4. f \in Seq(S)
  BY <1>1, <1>3, SeqDef
<1>5. QED
  <2>1. Len(f) \in Nat /\ DOMAIN f = 1 .. Len(f)
    BY <1>4
  <2>2. Len(f) = Len(s)
    BY <1>1, <1>2, <2>1, SameEnd
  <2>3. QED
    BY <1>4, <2>2 DEF Proper

(***************************************************************************)
(* Results and commands have the ids of the last commands given, in the    *)
(* order in which they were given, and never exceed the depth.             *)
(***************************************************************************)
LEMMA InOrder == IInv => CommandsInOrder
<1> SUFFICES ASSUME IInv, Depth > 1, NEW h \in Hart
             PROVE  LET ids == IdsGiven(h) IN
                    /\ Len(ids) <= Depth
                    /\ \A i \in DOMAIN ids :
                         ids[i] = IdSpace \div 2 + adapter[h].next - 1 - (Len(ids) - i)
  BY DEF CommandsInOrder
<1> DEFINE a == adapter[h]
           s == [i \in DOMAIN a.results |-> a.results[i].id]
           t == [i \in DOMAIN a.requests |-> a.requests[i].request.transaction]
           m == Len(a.results)
           n == Len(a.requests)
           last == Newest(a)
<1>1. Window(a, h) /\ Consecutive(a)
  BY DEF IInv, Window
<1>2. /\ DOMAIN s = DOMAIN a.results /\ \A i \in DOMAIN a.results : s[i] = a.results[i].id
      /\ DOMAIN t = DOMAIN a.requests /\ \A i \in DOMAIN a.requests : t[i] = IdOf(a, i)
      /\ IdsGiven(h) = s \o t
      /\ s = [i \in DOMAIN a.results |-> s[i]] /\ t = [i \in DOMAIN a.requests |-> t[i]]
  BY DEF IdOf, IdsGiven, Commands
<1> HIDE DEF a, s, t
<1>3. /\ Proper(a.results) /\ Proper(a.requests) /\ m \in Nat /\ n \in Nat
      /\ DOMAIN a.results = 1 .. m /\ DOMAIN a.requests = 1 .. n
      /\ a.next \in Int /\ Half \in Int /\ last \in Int
  <2>1. Proper(a.results) /\ Proper(a.requests) /\ a.next \in Int
    BY <1>1 DEF Window
  <2>2. QED
    BY <2>1, ProperFacts, HalfType DEF Newest
<1>4. Proper(s) /\ Len(s) = m /\ Proper(t) /\ Len(t) = n
  BY <1>2, <1>3, Renamed
<1> HIDE DEF m, n, last
<1>5. /\ Len(s \o t) = m + n /\ DOMAIN (s \o t) = 1 .. m + n
      /\ \A i \in 1 .. m + n : (s \o t)[i] = IF i <= m THEN s[i] ELSE t[i - m]
  BY <1>4, Joined
<1>6. /\ n + m <= Depth
      /\ \A i \in 1 .. n : t[i] = last - (n - i)
      /\ \A i \in 1 .. m : s[i] = last - n - (m - i)
  BY <1>1, <1>2, <1>3 DEF Consecutive, m, n, last
<1>7. ASSUME NEW i \in 1 .. m + n PROVE (s \o t)[i] = last - ((m + n) - i)
  <2>1. CASE i <= m
    BY <1>3, <1>5, <1>6, <2>1
  <2>2. CASE ~(i <= m)
    <3>1. i - m \in 1 .. n
      BY <1>3, <2>2
    <3>2. t[i - m] = last - (n - (i - m))
      BY <1>6, <3>1
    <3>3. QED
      BY <1>3, <1>5, <2>2, <3>2
  <2>3. QED
    BY <2>1, <2>2
<1>8. \A k \in Int : last - k = IdSpace \div 2 + adapter[h].next - 1 - k
  BY <1>3 DEF last, Newest, Half, a
<1>9. QED
  <2>1. Len(s \o t) <= Depth
    BY <1>3, <1>5, <1>6, HalfType
  <2>2. ASSUME NEW i \in DOMAIN (s \o t)
        PROVE  (s \o t)[i] = IdSpace \div 2 + adapter[h].next - 1 - (Len(s \o t) - i)
    <3>1. i \in 1 .. m + n /\ Len(s \o t) - i = m + n - i /\ m + n - i \in Int
      BY <1>3, <1>5
    <3>2. (s \o t)[i] = last - (m + n - i)
      BY <1>3, <1>7, <3>1
    <3>3. QED
      BY <1>8, <3>1, <3>2
  <2>3. QED
    BY <1>2, <2>1, <2>2

(***************************************************************************)
(* Commands complete in the order in which they were given, although the   *)
(* adapter matches responses by id and would take them in any order.       *)
(***************************************************************************)
THEOREM CommandsOrdered == Spec => []CommandsInOrder
BY Invariant, InOrder, PTL

-------------------------------------------------------------------------------
(***************************************************************************)
(* The memory the harts see.  Along a path the calls c of a hart fall into *)
(* those that have a response, the first n, and those that wait.           *)
(***************************************************************************)
Answers(R) == {a.transaction : a \in R}

Cut(R, c, n) ==
  /\ Proper(c) /\ n \in 0 .. Len(c)
  /\ \A i \in DOMAIN c : i <= n <=> c[i].transaction \in Answers(R)

ValueOf(R, t) == Number((CHOOSE a \in R : a.transaction = t).data)

Waits(c, n) == [k \in 1 .. Len(c) - n |-> AccessOf(c[n + k])]
Values(R, c, n) == [k \in 1 .. n |-> ValueOf(R, c[k].transaction)]

\* A function on 1 .. n is a sequence of anything.
LEMMA ProperFunction ==
  ASSUME NEW n \in Nat, NEW f, f = [k \in 1 .. n |-> f[k]]
  PROVE  Proper(f) /\ Len(f) = n /\ DOMAIN f = 1 .. n
<1> DEFINE S == {f[k] : k \in 1 .. n}
<1>1. f \in [1 .. n -> S]
  OBVIOUS
<1>2. f \in Seq(S)
  BY <1>1, SeqDef
<1>3. Proper(f) /\ DOMAIN f = 1 .. n
  BY <1>1, <1>2, ProperSeq
<1> HIDE DEF S
<1>4. Len(f) \in Nat /\ DOMAIN f = 1 .. Len(f)
  BY <1>3, ProperFacts
<1>5. QED
  BY <1>3, <1>4, SameEnd

\* The size of a set of consecutive numbers.
LEMMA RunSize ==
  ASSUME NEW a \in Int, NEW b \in Int, a <= b + 1
  PROVE  Cardinality(a .. b) = b + 1 - a
<1>1. Cardinality(a .. b) = IF a > b THEN 0 ELSE b - a + 1
  BY FS_Interval
<1> DEFINE n == Cardinality(a .. b)
<1> HIDE DEF n
<1>2. n = b + 1 - a
  BY <1>1 DEF n
<1>3. QED
  BY <1>2 DEF n

\* What is picked from consecutive places, a + 1 to b.
LEMMA PickedRun ==
  ASSUME NEW a \in Nat, NEW b \in Nat, a <= b, NEW s
  PROVE  Picked(s, (a + 1) .. b) = [k \in 1 .. b - a |-> s[a + k]]
<1> DEFINE S == (a + 1) .. b
           Spot(k) == CHOOSE i \in S : Cardinality({j \in S : j <= i}) = k
<1>1. a + 1 \in Int /\ b \in Int
  OBVIOUS
<1>2. Cardinality(S) = b - a
  <2>1. Cardinality(S) = b + 1 - (a + 1)
    <3>1. a + 1 <= b + 1
      OBVIOUS
    <3>2. QED
      BY <1>1, <3>1, RunSize
  <2> HIDE DEF S
  <2>2. QED
    BY <1>1, <2>1
<1>3. ASSUME NEW i \in S PROVE Cardinality({j \in S : j <= i}) = i - a
  <2>1. {j \in S : j <= i} = (a + 1) .. i
    OBVIOUS
  <2>2. i \in Int /\ a + 1 <= i + 1
    OBVIOUS
  <2>3. Cardinality((a + 1) .. i) = i + 1 - (a + 1)
    BY <1>1, <2>2, RunSize
  <2>4. i \in Int /\ i + 1 - (a + 1) = i - a
    BY <2>2
  <2> HIDE DEF S
  <2>5. QED
    BY <2>1, <2>3, <2>4
<1>4. ASSUME NEW k \in 1 .. b - a PROVE Spot(k) = a + k
  <2>1. a + k \in S /\ \A i \in S : i - a = k <=> i = a + k
    OBVIOUS
  <2> HIDE DEF S
  <2>2. QED
    BY <1>3, <2>1
<1>5. Picked(s, S) = [k \in 1 .. b - a |-> s[Spot(k)]]
  BY <1>2 DEF Picked
<1> HIDE DEF Spot, S
<1>6. Picked(s, S) = [k \in 1 .. b - a |-> s[a + k]]
  BY <1>4, <1>5
<1>7. QED
  BY <1>6 DEF S

\* The requests of a path that have a response come first: those of the others wait.
LEMMA Shown ==
  \A h \in Hart, p \in Path : \A n :
    Cut(Responses(h), Calls(h)[p], n) =>
      /\ Awaited(h, p) = Waits(Calls(h)[p], n)
      /\ Obtained(h, p) = Kept(h)[p] \o Values(Responses(h), Calls(h)[p], n)
<1> SUFFICES ASSUME NEW h \in Hart, NEW p \in Path, NEW n, Cut(Responses(h), Calls(h)[p], n)
             PROVE  /\ Awaited(h, p) = Waits(Calls(h)[p], n)
                    /\ Obtained(h, p) = Kept(h)[p] \o Values(Responses(h), Calls(h)[p], n)
  OBVIOUS
<1> DEFINE c == Calls(h)[p]
           R == Responses(h)
           m == Len(c)
           rest == Picked(c, DOMAIN c \ Came(h, c))
           front == Picked(c, Came(h, c))
<1>1. /\ Proper(c) /\ m \in Nat /\ DOMAIN c = 1 .. m /\ n \in 0 .. m
      /\ \A i \in DOMAIN c : i <= n <=> c[i].transaction \in Answers(R)
  BY ProperFacts DEF Cut
<1>2. Came(h, c) = {i \in DOMAIN c : c[i].transaction \in Answers(R)}
  BY DEF Came, Answers
<1>3. Awaited(h, p) = [i \in DOMAIN rest |-> AccessOf(rest[i])]
  BY DEF Awaited
<1>4. Obtained(h, p) = Kept(h)[p] \o [i \in DOMAIN front |-> ValueOf(R, front[i].transaction)]
  BY DEF Obtained, ResponseValue, ValueOf
<1> HIDE DEF c, R, m
<1>5. Came(h, c) = 1 .. n /\ DOMAIN c \ Came(h, c) = (n + 1) .. m
  BY <1>1, <1>2
<1>6. rest = [k \in 1 .. m - n |-> c[n + k]]
  <2>1. n \in Nat /\ n <= m
    BY <1>1
  <2>2. Picked(c, (n + 1) .. m) = [k \in 1 .. m - n |-> c[n + k]]
    BY <1>1, <2>1, PickedRun
  <2>3. QED
    BY <1>5, <2>2
<1>7. front = [k \in 1 .. n |-> c[k]]
  <2> DEFINE z == 0
  <2>1. z \in Nat /\ n \in Nat /\ z <= n
    BY <1>1
  <2>2. z + 1 = 1 /\ n - z = n /\ \A k \in 1 .. n : z + k = k
    BY <1>1
  <2> HIDE DEF z
  <2>3. Picked(c, (z + 1) .. n) = [k \in 1 .. n - z |-> c[z + k]]
    BY <2>1, PickedRun
  <2>4. [k \in 1 .. n - z |-> c[z + k]] = [k \in 1 .. n |-> c[k]]
    BY <2>2
  <2>5. QED
    BY <1>5, <2>2, <2>3, <2>4
<1> HIDE DEF rest, front
<1>8. Awaited(h, p) = Waits(c, n)
  BY <1>3, <1>6 DEF Waits, m
<1>9. [i \in DOMAIN front |-> ValueOf(R, front[i].transaction)] = Values(R, c, n)
  BY <1>7 DEF Values
<1>10. QED
  BY <1>4, <1>8, <1>9 DEF c, R

\* What waits, w, and what has come, v, of the m calls c of which the first n have a response.
Parted(R, c, m, n, w, v) ==
  /\ Proper(w) /\ Len(w) = m - n /\ DOMAIN w = 1 .. m - n
  /\ \A k \in 1 .. m - n : w[k] = AccessOf(c[n + k])
  /\ Proper(v) /\ Len(v) = n /\ DOMAIN v = 1 .. n
  /\ \A k \in 1 .. n : v[k] = ValueOf(R, c[k].transaction)

\* The two parts of the calls are sequences, and their elements are known.
LEMMA PartsFacts ==
  ASSUME NEW R, NEW c, NEW n, Proper(c), n \in 0 .. Len(c)
  PROVE  Parted(R, c, Len(c), n, Waits(c, n), Values(R, c, n))
<1>1. Len(c) - n \in Nat /\ n \in Nat
  BY ProperFacts
<1> DEFINE d == Len(c) - n
           w == Waits(c, n)
           v == Values(R, c, n)
<1>2. w = [k \in 1 .. d |-> AccessOf(c[n + k])] /\ v = [k \in 1 .. n |-> ValueOf(R, c[k].transaction)]
  BY DEF Waits, Values
<1> HIDE DEF d, w, v
<1>3. /\ w = [k \in 1 .. d |-> w[k]] /\ v = [k \in 1 .. n |-> v[k]]
      /\ \A k \in 1 .. d : w[k] = AccessOf(c[n + k])
      /\ \A k \in 1 .. n : v[k] = ValueOf(R, c[k].transaction)
  BY <1>2
<1>4. d \in Nat
  BY <1>1 DEF d
<1>5. Proper(w) /\ Len(w) = d /\ DOMAIN w = 1 .. d
  BY <1>3, <1>4, ProperFunction
<1>6. Proper(v) /\ Len(v) = n /\ DOMAIN v = 1 .. n
  BY <1>1, <1>3, ProperFunction
<1>7. QED
  BY <1>3, <1>5, <1>6 DEF d, w, v, Parted

\* A call joins those that wait.
Grows(R, c, n, x) ==
  /\ Waits(Append(c, x), n) = Append(Waits(c, n), AccessOf(x))
  /\ Values(R, Append(c, x), n) = Values(R, c, n)

\* A call that has been appended waits, and what has come stays.
LEMMA Grown ==
  ASSUME NEW c, NEW n, Proper(c), n \in 0 .. Len(c), NEW x, NEW R
  PROVE  Grows(R, c, n, x)
<1> DEFINE e == Append(c, x)
           m == Len(c)
           w == Waits(c, n)
           u == Waits(e, n)
           a == AccessOf(x)
<1>1. /\ Proper(e) /\ Len(e) = m + 1 /\ m \in Nat /\ DOMAIN c = 1 .. m
      /\ \A i \in DOMAIN c : e[i] = c[i]
      /\ e[m + 1] = x
  BY AppendFacts, ProperFacts
<1>2. n \in 0 .. m
  OBVIOUS
<1> HIDE DEF e, m
<1>3. n \in 0 .. Len(e)
  BY <1>1, <1>2
<1>4. /\ Proper(w) /\ Len(w) = m - n /\ DOMAIN w = 1 .. m - n
      /\ \A k \in 1 .. m - n : w[k] = AccessOf(c[n + k])
  <2>1. Parted(R, c, m, n, w, Values(R, c, n))
    BY <1>2, PartsFacts DEF m
  <2> HIDE DEF w
  <2>2. QED
    BY <2>1 DEF Parted
<1>5. /\ Proper(u) /\ DOMAIN u = 1 .. (m + 1) - n
      /\ \A k \in 1 .. (m + 1) - n : u[k] = AccessOf(e[n + k])
  <2>1. Parted(R, e, Len(e), n, u, Values(R, e, n))
    BY <1>1, <1>3, PartsFacts
  <2> HIDE DEF u
  <2>2. QED
    BY <1>1, <2>1 DEF Parted
<1> HIDE DEF w, u, a
<1>6. /\ Proper(Append(w, a)) /\ DOMAIN Append(w, a) = 1 .. (m - n) + 1
      /\ \A i \in DOMAIN w : Append(w, a)[i] = w[i]
      /\ Append(w, a)[(m - n) + 1] = a
  BY <1>4, AppendFacts
<1>7. (m - n) + 1 = (m + 1) - n
  BY <1>1, <1>2
<1>8. ASSUME NEW k \in DOMAIN u PROVE u[k] = Append(w, a)[k]
  <2>1. k \in 1 .. (m + 1) - n
    BY <1>5
  <2>2. CASE k = (m + 1) - n
    <3>1. n + k = m + 1
      BY <1>1, <1>2, <2>2
    <3>2. u[k] = AccessOf(e[n + k])
      BY <1>5, <2>1
    <3>3. QED
      BY <1>1, <1>6, <1>7, <2>2, <3>1, <3>2 DEF a
  <2>3. CASE k # (m + 1) - n
    <3>1. k \in 1 .. m - n /\ n + k \in 1 .. m
      BY <1>1, <1>2, <2>1, <2>3
    <3>2. u[k] = AccessOf(e[n + k]) /\ w[k] = AccessOf(c[n + k])
      BY <1>4, <1>5, <2>1, <3>1
    <3>3. e[n + k] = c[n + k]
      BY <1>1, <3>1
    <3>4. Append(w, a)[k] = w[k]
      BY <1>4, <1>6, <3>1
    <3>5. QED
      BY <3>2, <3>3, <3>4
  <2>4. QED
    BY <2>2, <2>3
<1>9. u = Append(w, a)
  BY <1>5, <1>6, <1>7, <1>8, SameElements
<1>10. Values(R, e, n) = Values(R, c, n)
  <2>1. \A k \in 1 .. n : e[k] = c[k]
    BY <1>1, <1>2
  <2>2. QED
    BY <2>1 DEF Values
<1>11. QED
  BY <1>9, <1>10 DEF e, w, u, a, Grows

\* The first call that waits has been served.
Advanced(R, S, c, n) ==
  /\ Waits(c, n) # <<>> /\ Head(Waits(c, n)) = AccessOf(c[n + 1])
  /\ Waits(c, n + 1) = Tail(Waits(c, n))
  /\ Values(S, c, n + 1) = Append(Values(R, c, n), ValueOf(S, c[n + 1].transaction))

\* When the first call that waits has its response, it leaves those that wait
\* and its value comes last.
LEMMA FirstServed ==
  ASSUME NEW c, NEW n, Proper(c), n \in 0 .. Len(c), n # Len(c), NEW R, NEW S,
         \A k \in 1 .. n : ValueOf(S, c[k].transaction) = ValueOf(R, c[k].transaction)
  PROVE  Advanced(R, S, c, n)
<1> DEFINE m == Len(c)
           w == Waits(c, n)
           u == Waits(c, n + 1)
           v == Values(R, c, n)
           z == Values(S, c, n + 1)
           x == ValueOf(S, c[n + 1].transaction)
<1>1. n \in 0 .. m /\ n # m /\ m \in Nat
  BY ProperFacts
<1>2. n + 1 \in 0 .. m
  BY <1>1
<1>3. /\ Proper(w) /\ Len(w) = m - n /\ DOMAIN w = 1 .. m - n
      /\ \A k \in 1 .. m - n : w[k] = AccessOf(c[n + k])
      /\ Proper(v) /\ Len(v) = n /\ DOMAIN v = 1 .. n
      /\ \A k \in 1 .. n : v[k] = ValueOf(R, c[k].transaction)
  <2>1. Parted(R, c, m, n, w, v)
    BY PartsFacts
  <2> HIDE DEF w, v, m
  <2>2. QED
    BY <2>1 DEF Parted
<1>4. /\ Proper(u) /\ DOMAIN u = 1 .. m - (n + 1)
      /\ \A k \in 1 .. m - (n + 1) : u[k] = AccessOf(c[(n + 1) + k])
      /\ Proper(z) /\ DOMAIN z = 1 .. n + 1
      /\ \A k \in 1 .. n + 1 : z[k] = ValueOf(S, c[k].transaction)
  <2> DEFINE l == n + 1
  <2>1. Parted(S, c, m, l, Waits(c, l), Values(S, c, l))
    <3>1. l \in 0 .. m
      BY <1>2
    <3> HIDE DEF l
    <3>2. QED
      BY <3>1, PartsFacts
  <2> HIDE DEF w, v, m, u, z
  <2>2. QED
    BY <2>1 DEF Parted, u, z
<1> HIDE DEF m, w, u, v, z, x
<1>5. w # <<>> /\ Head(w) = AccessOf(c[n + 1])
  <2>1. 1 \in 1 .. m - n
    BY <1>1
  <2>2. w # <<>>
    BY <1>3, <2>1, ProperEmpty
  <2>3. Head(w) = w[1]
    BY <1>3, <2>2, ProperFacts
  <2>4. QED
    BY <1>3, <2>1, <2>2, <2>3
<1>6. u = Tail(w)
  <2>1. /\ Proper(Tail(w)) /\ DOMAIN Tail(w) = 1 .. (m - n) - 1
        /\ \A i \in DOMAIN Tail(w) : i + 1 \in DOMAIN w /\ Tail(w)[i] = w[i + 1]
    BY <1>3, <1>5, TailFacts
  <2>2. (m - n) - 1 = m - (n + 1)
    BY <1>1
  <2>3. ASSUME NEW i \in DOMAIN u PROVE u[i] = Tail(w)[i]
    <3>1. i \in DOMAIN Tail(w) /\ i \in Int
      <4>1. i \in 1 .. m - (n + 1) /\ m - (n + 1) \in Int
        BY <1>1, <1>4
      <4>2. QED
        BY <2>1, <2>2, <4>1
    <3>2. Tail(w)[i] = AccessOf(c[n + (i + 1)])
      BY <1>3, <2>1, <3>1
    <3>3. (n + 1) + i = n + (i + 1)
      BY <1>1, <3>1
    <3>4. QED
      BY <1>4, <3>2, <3>3
  <2>4. QED
    BY <1>4, <2>1, <2>2, <2>3, SameElements
<1>7. z = Append(v, x)
  <2>1. /\ Proper(Append(v, x)) /\ DOMAIN Append(v, x) = 1 .. n + 1
        /\ \A i \in DOMAIN v : Append(v, x)[i] = v[i]
        /\ Append(v, x)[n + 1] = x
    BY <1>3, AppendFacts
  <2>2. ASSUME NEW i \in DOMAIN z PROVE z[i] = Append(v, x)[i]
    <3>1. i \in 1 .. n + 1
      BY <1>4
    <3>2. CASE i = n + 1
      BY <1>4, <2>1, <3>1, <3>2 DEF x
    <3>3. CASE i # n + 1
      <4>1. i \in 1 .. n
        BY <1>1, <3>1, <3>3
      <4>2. QED
        BY <1>3, <1>4, <2>1, <3>1, <4>1
    <3>4. QED
      BY <3>2, <3>3
  <2>3. QED
    BY <1>4, <2>1, <2>2, SameElements
<1>8. QED
  BY <1>5, <1>6, <1>7 DEF w, u, v, z, x, Advanced

\* Joining two sequences.
LEMMA JoinFacts ==
  ASSUME NEW s, NEW t, Proper(s), Proper(t)
  PROVE  /\ Proper(s \o t) /\ DOMAIN (s \o t) = 1 .. Len(s) + Len(t)
         /\ \A i \in 1 .. Len(s) : (s \o t)[i] = s[i]
         /\ \A i \in 1 .. Len(t) : (s \o t)[Len(s) + i] = t[i]
         /\ <<>> \o t = t
<1> DEFINE m == Len(s)
           n == Len(t)
           u == s \o t
<1>1. m \in Nat /\ n \in Nat /\ t \in Seq({t[i] : i \in DOMAIN t})
  BY ProperFacts DEF Proper
<1>2. <<>> \o t = t
  BY <1>1, ConcatEmptySeq
<1>3. /\ DOMAIN u = 1 .. m + n
      /\ \A i \in 1 .. m + n : u[i] = IF i <= m THEN s[i] ELSE t[i - m]
  BY Joined
<1>4. Proper(u)
  <2> DEFINE S == {s[i] : i \in DOMAIN s} \cup {t[i] : i \in DOMAIN t}
  <2>1. s \in Seq(S) /\ t \in Seq(S)
    BY SeqMonotonic DEF Proper
  <2> HIDE DEF S
  <2>2. QED
    BY <2>1, ConcatProperties, ProperSeq
<1> HIDE DEF u, m, n
<1>5. \A i \in 1 .. m : u[i] = s[i]
  BY <1>1, <1>3
<1>6. ASSUME NEW i \in 1 .. n PROVE u[m + i] = t[i]
  <2>1. m + i \in 1 .. m + n /\ ~(m + i <= m) /\ (m + i) - m = i
    BY <1>1
  <2>2. QED
    BY <1>3, <2>1
<1>7. QED
  BY <1>2, <1>3, <1>4, <1>5, <1>6 DEF u, m, n

\* What is appended to the second comes last.
LEMMA JoinAppend ==
  ASSUME NEW s, NEW t, Proper(s), Proper(t), NEW x
  PROVE  s \o Append(t, x) = Append(s \o t, x)
<1> DEFINE S == {s[i] : i \in DOMAIN s} \cup {t[i] : i \in DOMAIN t} \cup {x}
<1>1. s \in Seq(S) /\ t \in Seq(S) /\ x \in S
  BY SeqMonotonic DEF Proper
<1>2. <<x>> \in Seq(S)
  BY <1>1
<1> HIDE DEF S
<1>3. s \o t \in Seq(S)
  BY <1>1, ConcatProperties
<1>4. Append(t, x) = t \o <<x>> /\ Append(s \o t, x) = (s \o t) \o <<x>>
  BY <1>1, <1>3, AppendIsConcat
<1>5. (s \o t) \o <<x>> = s \o (t \o <<x>>)
  BY <1>1, <1>2, ConcatAssociative
<1>6. QED
  BY <1>4, <1>5

\* The first of the first comes first.
LEMMA JoinTail ==
  ASSUME NEW s, NEW t, Proper(s), Proper(t), s # <<>>
  PROVE  s \o t # <<>> /\ Tail(s \o t) = Tail(s) \o t
<1> DEFINE m == Len(s)
           n == Len(t)
           u == s \o t
           v == Tail(s) \o t
<1>1. /\ Proper(u) /\ DOMAIN u = 1 .. m + n
      /\ \A i \in 1 .. m : u[i] = s[i]
      /\ \A i \in 1 .. n : u[m + i] = t[i]
      /\ m \in Nat /\ n \in Nat /\ m # 0 /\ DOMAIN s = 1 .. m
  BY JoinFacts, ProperFacts
<1>2. /\ Proper(Tail(s)) /\ Len(Tail(s)) = m - 1 /\ DOMAIN Tail(s) = 1 .. m - 1
      /\ \A i \in DOMAIN Tail(s) : Tail(s)[i] = s[i + 1]
  BY TailFacts
<1>3. /\ Proper(v) /\ DOMAIN v = 1 .. (m - 1) + n
      /\ \A i \in 1 .. m - 1 : v[i] = Tail(s)[i]
      /\ \A i \in 1 .. n : v[(m - 1) + i] = t[i]
  BY <1>2, JoinFacts
<1> HIDE DEF u, v, m, n
<1>4. u # <<>>
  <2>1. 1 \in 1 .. m + n
    BY <1>1
  <2>2. QED
    BY <1>1, <2>1, ProperEmpty
<1>5. Len(u) = m + n
  <2>1. Len(u) \in Nat /\ DOMAIN u = 1 .. Len(u) /\ m + n \in Nat
    BY <1>1, ProperFacts
  <2>2. QED
    BY <1>1, <2>1, SameEnd
<1>6. /\ Proper(Tail(u)) /\ DOMAIN Tail(u) = 1 .. (m + n) - 1
      /\ \A i \in DOMAIN Tail(u) : Tail(u)[i] = u[i + 1]
  BY <1>1, <1>4, <1>5, TailFacts
<1>7. ASSUME NEW i \in DOMAIN v PROVE v[i] = Tail(u)[i]
  <2>1. i \in 1 .. (m - 1) + n /\ i \in DOMAIN Tail(u) /\ i \in Int
    BY <1>1, <1>3, <1>6
  <2>2. Tail(u)[i] = u[i + 1]
    BY <1>6, <2>1
  <2>3. CASE i <= m - 1
    <3>1. i \in 1 .. m - 1 /\ i + 1 \in 1 .. m
      BY <1>1, <2>1, <2>3
    <3>2. QED
      BY <1>1, <1>2, <1>3, <2>2, <3>1
  <2>4. CASE ~(i <= m - 1)
    <3> DEFINE k == i - (m - 1)
    <3>1. k \in 1 .. n /\ (m - 1) + k = i /\ m + k = i + 1
      BY <1>1, <2>1, <2>4
    <3> HIDE DEF k
    <3>2. QED
      BY <1>1, <1>3, <2>2, <3>1
  <2>5. QED
    BY <2>3, <2>4
<1>8. v = Tail(u)
  <2>1. DOMAIN v = DOMAIN Tail(u)
    BY <1>1, <1>3, <1>6
  <2>2. QED
    BY <1>3, <1>6, <1>7, <2>1, SameElements
<1>9. QED
  BY <1>4, <1>8 DEF u, v

\* The first of the second may as well be the last of the first.
LEMMA JoinMove ==
  ASSUME NEW s, NEW t, Proper(s), Proper(t), t # <<>>
  PROVE  Append(s, t[1]) \o Tail(t) = s \o t
<1> DEFINE S == {s[i] : i \in DOMAIN s} \cup {t[i] : i \in DOMAIN t}
           x == t[1]
           r == Tail(t)
<1>1. s \in Seq(S) /\ t \in Seq(S)
  BY SeqMonotonic DEF Proper
<1>2. 1 \in DOMAIN t
  BY ProperFacts
<1>3. x \in S /\ r \in Seq(S)
  <2>1. x \in S
    BY <1>2
  <2> HIDE DEF S
  <2>2. QED
    BY <1>1, <2>1
<1> DEFINE n == Len(t)
<1> HIDE DEF S
<1>4. <<x>> \in Seq(S)
  <2> HIDE DEF x
  <2>1. QED
    BY <1>3
<1>5. <<x>> \o r = t
  <2>1. n \in Nat /\ DOMAIN t = 1 .. n /\ 1 \in 1 .. n /\ n \in 1 .. n
    <3>1. Len(t) \in Nat /\ DOMAIN t = 1 .. Len(t)
      BY ProperFacts
    <3>2. QED
      BY <1>2, <3>1
  <2>2. SubSeq(t, 1, n) = <<t[1]>> \o SubSeq(t, 1 + 1, n)
    BY <1>1, <2>1, SubSeqRecursiveFirst
  <2>3. SubSeq(t, 1, n) = t
    BY <1>1, SubSeqFull
  <2>4. r = SubSeq(t, 1 + 1, n)
    BY <1>1, TailIsSubSeq
  <2>5. QED
    BY <2>2, <2>3, <2>4
<1> HIDE DEF x, r
<1>6. Append(s, x) = s \o <<x>>
  BY <1>1, <1>3, AppendIsConcat
<1>7. (s \o <<x>>) \o r = s \o (<<x>> \o r)
  BY <1>1, <1>3, <1>4, ConcatAssociative
<1>8. QED
  BY <1>5, <1>6, <1>7 DEF x, r

\* The first response has been taken, and with it the first call.
Shortened(R, S, c, n) ==
  /\ Waits(Tail(c), n - 1) = Waits(c, n)
  /\ Values(R, c, n) # <<>> /\ Values(R, c, n)[1] = ValueOf(R, c[1].transaction)
  /\ Values(S, Tail(c), n - 1) = Tail(Values(R, c, n))

\* When the first response is taken and its call leaves, what waits stays and the
\* first value leaves.
LEMMA FirstTaken ==
  ASSUME NEW c, NEW n, Proper(c), n \in 1 .. Len(c), NEW R, NEW S,
         \A k \in 2 .. n : ValueOf(S, c[k].transaction) = ValueOf(R, c[k].transaction)
  PROVE  Shortened(R, S, c, n)
<1> DEFINE m == Len(c)
           d == Tail(c)
           l == n - 1
           w == Waits(c, n)
           u == Waits(d, l)
           v == Values(R, c, n)
           z == Values(S, d, l)
<1>1. m \in Nat /\ n \in 1 .. m /\ DOMAIN c = 1 .. m
  BY ProperFacts
<1>2. c # <<>>
  BY <1>1, ProperEmpty
<1>3. /\ Proper(d) /\ Len(d) = m - 1 /\ DOMAIN d = 1 .. m - 1
      /\ \A i \in DOMAIN d : d[i] = c[i + 1]
  BY <1>2, TailFacts
<1> HIDE DEF d, m
<1>4. Parted(R, c, m, n, w, v)
  <2>1. n \in 0 .. Len(c)
    BY <1>1 DEF m
  <2> HIDE DEF w, v
  <2>2. QED
    BY <2>1, PartsFacts DEF w, v, m
<1>5. Parted(S, d, m - 1, l, u, z)
  <2>1. l \in 0 .. Len(d)
    BY <1>1, <1>3
  <2> HIDE DEF l
  <2>2. Parted(S, d, Len(d), l, Waits(d, l), Values(S, d, l))
    BY <1>3, <2>1, PartsFacts
  <2>3. QED
    BY <1>3, <2>2
<1> HIDE DEF w, u, v, z
<1>6. /\ Proper(w) /\ DOMAIN w = 1 .. m - n /\ \A k \in 1 .. m - n : w[k] = AccessOf(c[n + k])
      /\ Proper(v) /\ Len(v) = n /\ DOMAIN v = 1 .. n
      /\ \A k \in 1 .. n : v[k] = ValueOf(R, c[k].transaction)
  BY <1>4 DEF Parted
<1>7. /\ Proper(u) /\ DOMAIN u = 1 .. (m - 1) - l
      /\ \A k \in 1 .. (m - 1) - l : u[k] = AccessOf(d[l + k])
      /\ Proper(z) /\ DOMAIN z = 1 .. l
      /\ \A k \in 1 .. l : z[k] = ValueOf(S, d[k].transaction)
  <2> HIDE DEF l
  <2>1. QED
    BY <1>5 DEF Parted
<1>8. u = w
  <2>1. (m - 1) - l = m - n
    BY <1>1
  <2>2. ASSUME NEW k \in 1 .. m - n PROVE u[k] = w[k]
    <3>1. l + k \in 1 .. m - 1 /\ (l + k) + 1 = n + k
      BY <1>1, <2>2
    <3>2. d[l + k] = c[n + k]
      BY <1>3, <3>1
    <3>3. QED
      BY <1>6, <1>7, <2>1, <3>2
  <2>3. QED
    BY <1>6, <1>7, <2>1, <2>2, SameElements
<1>9. v # <<>> /\ v[1] = ValueOf(R, c[1].transaction)
  <2>1. 1 \in 1 .. n
    BY <1>1
  <2>2. QED
    BY <1>6, <2>1, ProperEmpty
<1>10. z = Tail(v)
  <2>1. /\ Proper(Tail(v)) /\ DOMAIN Tail(v) = 1 .. n - 1
        /\ \A i \in DOMAIN Tail(v) : Tail(v)[i] = v[i + 1]
    BY <1>6, <1>9, TailFacts
  <2>2. ASSUME NEW k \in 1 .. l PROVE z[k] = Tail(v)[k]
    <3>1. k + 1 \in 2 .. n /\ k + 1 \in 1 .. n /\ k \in 1 .. m - 1
      BY <1>1, <2>2
    <3>2. d[k] = c[k + 1]
      BY <1>3, <3>1
    <3>3. z[k] = ValueOf(R, c[k + 1].transaction)
      BY <1>7, <2>2, <3>1, <3>2
    <3>4. Tail(v)[k] = v[k + 1]
      BY <2>1, <2>2
    <3>5. QED
      BY <1>6, <3>1, <3>3, <3>4
  <2>3. QED
    BY <1>7, <2>1, <2>2, SameElements
<1>11. QED
  BY <1>8, <1>9, <1>10 DEF w, u, v, z, d, l, Shortened

\* Responses of a hart are nearer to its end of the line than requests: their ids are lower.
LEMMA ResponsesAhead ==
  ASSUME IInv, NEW h \in Hart, NEW a \in Responses(h), NEW r \in Requests(h)
  PROVE  a.transaction \in Int /\ r.transaction \in Int /\ a.transaction < r.transaction
<1> DEFINE Z == Tokens(transit, inbox, queue, active, response)
<1>1. /\ \E s \in 3 .. 6, p \in Int : At(r, s, p) \in Z /\ r.hart = h
      /\ \E s \in 0 .. 2, p \in Int : At(a, s, p) \in Z /\ a.hart = h
  BY UnderWayInLine
<1>2. Z \in SUBSET Token /\ InLine(Z)
  BY TokenTypes DEF IInv, Settled
<1> HIDE DEF Z
<1>3. PICK s \in 3 .. 6, p \in Int : At(r, s, p) \in Z /\ r.hart = h
  BY <1>1
<1>4. PICK t \in 0 .. 2, o \in Int : At(a, t, o) \in Z /\ a.hart = h
  BY <1>1
<1> DEFINE y == At(r, s, p)
           z == At(a, t, o)
<1>5. /\ y.hart = h /\ z.hart = h /\ y.id = r.transaction /\ z.id = a.transaction
      /\ y.stage = s /\ z.stage = t /\ y \in Z /\ z \in Z
  BY <1>3, <1>4 DEF At
<1> HIDE DEF y, z
<1>6. t < s
  BY <1>3, <1>4
<1>7. Ahead(z, y)
  BY <1>5, <1>6 DEF Ahead
<1>8. z.id < y.id /\ z.id \in Int /\ y.id \in Int
  BY <1>2, <1>5, <1>7 DEF InLine, Token
<1>9. QED
  BY <1>5, <1>8

\* The calls of a hart: those of its window have ascending ids.
LEMMA CallFacts ==
  ASSUME IInv, NEW h \in Hart
  PROVE  LET c == Calls(h)["window"]
             q == adapter[h].requests IN
         /\ Calls(h)["core"] = IF State(h) = "MemoryWait" THEN <<RequestOf(h)>> ELSE <<>>
         /\ Proper(q) /\ Proper(c) /\ Len(c) = Len(q) /\ DOMAIN c = DOMAIN q
         /\ \A i \in DOMAIN c : c[i] = q[i].request /\ c[i].transaction \in Int
         /\ \A i, j \in DOMAIN c : i < j => c[i].transaction < c[j].transaction
         /\ State(h) = "MemoryWait" => q = <<>> /\ c = <<>>
<1> DEFINE c == Calls(h)["window"]
           q == adapter[h].requests
<1>1. Window(adapter[h], h) /\ Matched(h)
  BY DEF IInv
<1>2. Calls(h)["core"] = IF State(h) = "MemoryWait" THEN <<RequestOf(h)>> ELSE <<>>
  BY DEF Calls
<1>3. c = [i \in DOMAIN q |-> q[i].request]
  BY DEF Calls, Commands
<1>4. Proper(q)
  BY <1>1 DEF Window
<1>5. /\ \A i \in DOMAIN q : IdOf(adapter[h], i) \in Int
      /\ \A i, j \in DOMAIN q : i < j => IdOf(adapter[h], i) < IdOf(adapter[h], j)
  BY <1>1 DEF Window
<1>6. \A i \in DOMAIN q : IdOf(adapter[h], i) = q[i].request.transaction
  BY DEF IdOf
<1>7. State(h) = "MemoryWait" => q = <<>>
  BY <1>1 DEF Matched, Busy
<1> HIDE DEF c, q
<1>8. DOMAIN c = DOMAIN q /\ \A i \in DOMAIN q : c[i] = q[i].request
  BY <1>3
<1>9. c = [i \in DOMAIN q |-> c[i]]
  BY <1>3
<1>10. Proper(c) /\ Len(c) = Len(q)
  BY <1>4, <1>9, Renamed
<1>11. State(h) = "MemoryWait" => c = <<>>
  BY <1>4, <1>7, <1>8, <1>10, ProperFacts
<1>12. /\ \A i \in DOMAIN c : c[i] = q[i].request /\ c[i].transaction \in Int
       /\ \A i, j \in DOMAIN c : i < j => c[i].transaction < c[j].transaction
  BY <1>5, <1>6, <1>8
<1>13. QED
  BY <1>2, <1>4, <1>7, <1>8, <1>10, <1>11, <1>12 DEF c, q

\* The calls that have a response come before those that have none.
LEMMA CutExists ==
  IInv => \A h \in Hart, p \in Path : \E n : Cut(Responses(h), Calls(h)[p], n)
<1> SUFFICES ASSUME IInv, NEW h \in Hart, NEW p \in Path
             PROVE  \E n : Cut(Responses(h), Calls(h)[p], n)
  OBVIOUS
<1> DEFINE R == Responses(h)
<1>1. Cut(R, <<>>, 0)
  <2>1. Proper(<<>>) /\ DOMAIN <<>> = {} /\ Len(<<>>) = 0 /\ 0 \in 0 .. 0
    BY ProperEmpty, ProperFacts
  <2>2. QED
    BY <2>1 DEF Cut
<1>2. CASE p = "core"
  <2>1. CASE State(h) = "MemoryWait"
    <3> DEFINE x == RequestOf(h)
               c == <<x>>
    <3>1. Proper(c) /\ DOMAIN c = {1} /\ Len(c) = 1
      <4> HIDE DEF x
      <4>1. Proper(c) /\ DOMAIN c = {1}
        BY ProperOne
      <4>2. QED
        BY <4>1
    <3>2. Calls(h)[p] = c
      BY <1>2, <2>1, CallFacts
    <3> HIDE DEF c
    <3>3. CASE c[1].transaction \in Answers(R)
      BY <3>1, <3>2, <3>3 DEF Cut
    <3>4. CASE c[1].transaction \notin Answers(R)
      BY <3>1, <3>2, <3>4 DEF Cut
    <3>5. QED
      BY <3>3, <3>4
  <2>2. CASE State(h) # "MemoryWait"
    <3>1. Calls(h)[p] = <<>>
      BY <1>2, <2>2, CallFacts
    <3>2. QED
      BY <1>1, <3>1
  <2>3. QED
    BY <2>1, <2>2
<1>3. CASE p = "window" /\ State(h) = "MemoryWait"
  <2>1. Calls(h)[p] = <<>>
    BY <1>3, CallFacts
  <2>2. QED
    BY <1>1, <2>1
<1>4. CASE p = "window" /\ State(h) # "MemoryWait"
  <2> DEFINE c == Calls(h)[p]
             q == adapter[h].requests
             m == Len(c)
             D == {i \in DOMAIN c : c[i].transaction \notin Answers(R)}
  <2>1. /\ Proper(c) /\ DOMAIN c = DOMAIN q
        /\ \A i \in DOMAIN c : c[i] = q[i].request /\ c[i].transaction \in Int
        /\ \A i, j \in DOMAIN c : i < j => c[i].transaction < c[j].transaction
    BY <1>4, CallFacts
  <2>2. m \in Nat /\ DOMAIN c = 1 .. m
    BY <2>1, ProperFacts
  <2>3. \A i, j \in DOMAIN q : i < j /\ q[j].sent => q[i].sent
    BY DEF IInv, Window
  <2>4. {r.transaction : r \in UnderWay(h)} = SentIds(adapter[h])
    BY <1>4, UnderWayIds DEF IInv, Matched
  <2>5. ASSUME NEW i \in DOMAIN c, NEW j \in DOMAIN c, i < j, c[j].transaction \in Answers(R)
        PROVE  c[i].transaction \in Answers(R)
    <3>1. PICK a \in R : a.transaction = c[j].transaction
      BY <2>5 DEF Answers
    <3>2. c[j].transaction \in SentIds(adapter[h])
      BY <2>4, <3>1 DEF UnderWay
    <3>3. PICK k \in DOMAIN q : q[k].sent /\ q[k].request.transaction = c[j].transaction
      BY <3>2 DEF SentIds, IdOf
    <3>4. k = j
      <4>1. k \in DOMAIN c /\ c[k].transaction = c[j].transaction /\ k \in 1 .. m /\ j \in 1 .. m
        BY <2>1, <2>2, <3>3
      <4>2. ~(k < j) /\ ~(j < k)
        BY <2>1, <4>1
      <4>3. QED
        BY <2>2, <4>1, <4>2
    <3>5. q[i].sent
      BY <2>1, <2>3, <2>5, <3>3, <3>4
    <3>6. c[i].transaction \in SentIds(adapter[h])
      BY <2>1, <3>5 DEF SentIds, IdOf
    <3>7. PICK r \in UnderWay(h) : r.transaction = c[i].transaction
      BY <2>4, <3>6
    <3>8. r \notin Requests(h)
      <4>1. SUFFICES ASSUME r \in Requests(h) PROVE FALSE
        OBVIOUS
      <4>2. a.transaction < r.transaction
        BY <4>1, ResponsesAhead
      <4>3. c[j].transaction < c[i].transaction /\ c[i].transaction < c[j].transaction
        BY <2>1, <2>5, <3>1, <3>7, <4>2
      <4>4. c[i].transaction \in Int /\ c[j].transaction \in Int
        BY <2>1
      <4>5. QED
        BY <4>3, <4>4
    <3>9. QED
      BY <3>7, <3>8 DEF UnderWay, Answers
  <2> HIDE DEF c, q, R, m
  <2>6. CASE D = {}
    <3>1. \A i \in DOMAIN c : i <= m
      BY <2>2
    <3>2. Cut(R, c, m)
      BY <2>1, <2>2, <2>6, <3>1 DEF Cut, m
    <3>3. QED
      BY <3>2 DEF c, R
  <2>7. CASE D # {}
    <3>1. D \in SUBSET Nat
      BY <2>2
    <3>2. PICK x \in D : \A y \in D : x <= y
      BY <2>7, <3>1, LeastNumber
    <3>3. x \in 1 .. m /\ c[x].transaction \notin Answers(R)
      BY <2>2, <3>2
    <3>4. ASSUME NEW i \in DOMAIN c
          PROVE  i <= x - 1 <=> c[i].transaction \in Answers(R)
      <4>1. i \in 1 .. m
        BY <2>2
      <4>2. CASE i <= x - 1
        <5>1. i \notin D
          BY <2>2, <3>2, <3>3, <4>1, <4>2
        <5>2. QED
          BY <4>2, <5>1
      <4>3. CASE i = x
        BY <2>2, <3>3, <4>1, <4>3
      <4>4. CASE x < i
        <5>1. c[i].transaction \notin Answers(R)
          BY <2>2, <2>5, <3>3, <4>4
        <5>2. QED
          BY <2>2, <3>3, <4>1, <4>4, <5>1
      <4>5. QED
        BY <2>2, <3>3, <4>1, <4>2, <4>3, <4>4
    <3>5. x - 1 \in 0 .. Len(c)
      BY <2>2, <3>3 DEF m
    <3>6. Cut(R, c, x - 1)
      BY <2>1, <3>4, <3>5 DEF Cut
    <3>7. QED
      BY <3>6 DEF c, R
  <2>8. QED
    BY <2>6, <2>7
<1>5. QED
  BY <1>2, <1>3, <1>4 DEF Path

-------------------------------------------------------------------------------
(***************************************************************************)
(* What a step does to the requests and responses of each hart.            *)
(***************************************************************************)
Elements(s) == {s[i] : i \in DOMAIN s}

\* The bodies of the messages on channel c.
Mail(T, c) == {m.body : m \in {k \in T : k.channel = c}}

\* The requests not yet served and the responses not yet in an inbox, of all harts.
Asked(T, I, Q, A) ==
  Mail(T, Request) \cup Elements(Contents(I[MemoryPort][Request])) \cup Elements(Q)
  \cup Elements(Serving(A))
Replies(T, R) == Mail(T, Response) \cup Elements(R)

\* The elements of a sequence that grows or shrinks.
LEMMA ElementFacts ==
  ASSUME NEW s, Proper(s)
  PROVE  /\ \A x : Elements(Append(s, x)) = Elements(s) \cup {x}
         /\ s # <<>> => Elements(s) = {Head(s)} \cup Elements(Tail(s))
<1>1. Len(s) \in Nat /\ DOMAIN s = 1 .. Len(s)
  BY ProperFacts
<1>2. ASSUME NEW x PROVE Elements(Append(s, x)) = Elements(s) \cup {x}
  <2> DEFINE t == Append(s, x)
  <2>1. /\ DOMAIN t = 1 .. Len(s) + 1 /\ \A i \in DOMAIN s : t[i] = s[i]
        /\ t[Len(s) + 1] = x
    BY AppendFacts
  <2> HIDE DEF t
  <2>2. DOMAIN t = DOMAIN s \cup {Len(s) + 1}
    BY <1>1, <2>1
  <2>3. Elements(t) = Elements(s) \cup {x}
    BY <2>1, <2>2 DEF Elements
  <2>4. QED
    BY <2>3 DEF t
<1>3. ASSUME s # <<>> PROVE Elements(s) = {Head(s)} \cup Elements(Tail(s))
  <2> DEFINE t == Tail(s)
  <2>1. /\ DOMAIN t = 1 .. Len(s) - 1
        /\ \A i \in DOMAIN t : i + 1 \in DOMAIN s /\ t[i] = s[i + 1]
        /\ 1 \in DOMAIN s /\ Head(s) = s[1]
    BY <1>3, TailFacts, ProperFacts
  <2> HIDE DEF t
  <2>2. ASSUME NEW i \in DOMAIN s PROVE s[i] = Head(s) \/ s[i] \in Elements(t)
    <3>1. CASE i = 1
      BY <2>1, <3>1
    <3>2. CASE i # 1
      <4> DEFINE k == i - 1
      <4>1. k \in DOMAIN t /\ k + 1 = i
        BY <1>1, <2>1, <3>2
      <4> HIDE DEF k
      <4>2. t[k] = s[i]
        BY <2>1, <4>1
      <4>3. QED
        BY <4>1, <4>2 DEF Elements
    <3>3. QED
      BY <3>1, <3>2
  <2>3. \A i \in DOMAIN t : t[i] \in Elements(s)
    BY <2>1 DEF Elements
  <2>4. Head(s) \in Elements(s)
    BY <2>1 DEF Elements
  <2>5. Elements(s) = {Head(s)} \cup Elements(t)
    BY <2>2, <2>3, <2>4 DEF Elements
  <2>6. QED
    BY <2>5 DEF t
<1>4. QED
  BY <1>2, <1>3

\* The elements of the empty sequence and of one of length one.
LEMMA ElementsOne == Elements(<<>>) = {} /\ \A x : Elements(<<x>>) = {x}
<1>1. Elements(<<>>) = {}
  BY ProperEmpty DEF Elements
<1>2. ASSUME NEW x PROVE Elements(<<x>>) = {x}
  <2> DEFINE t == <<x>>
  <2>1. DOMAIN t = {1} /\ t[1] = x
    BY ProperOne
  <2> HIDE DEF t
  <2>2. Elements(t) = {x}
    BY <2>1 DEF Elements
  <2>3. QED
    BY <2>2 DEF t
<1>3. QED
  BY <1>1, <1>2

\* The requests and responses of a hart are its share of them.
Shared ==
  \A h : /\ Requests(h) = {r \in Asked(transit, inbox, queue, active) : r.hart = h}
         /\ Responses(h) = {r \in Replies(transit, response) : r.hart = h}
                           \cup Elements(Contents(inbox[h][Response]))

\* What a hart has under way, as the mail of the ports, the queue and the two slots.
LEMMA Shares == Shared
<1>1. ASSUME NEW q PROVE Elements(Contents(q)) = {q[i].body : i \in DOMAIN q}
  BY DEF Elements, Contents
<1>2. Elements(Serving(active)) = {active[i].request : i \in DOMAIN active}
  BY DEF Elements, Serving
<1>3. Asked(transit, inbox, queue, active) =
        InTransit(Request) \cup Bodies(MemoryPort, Request)
         \cup {queue[i] : i \in DOMAIN queue} \cup {active[i].request : i \in DOMAIN active}
  BY <1>1, <1>2 DEF Asked, Mail, InTransit, Bodies, Elements
<1>4. Replies(transit, response) = InTransit(Response) \cup {response[i] : i \in DOMAIN response}
  BY DEF Replies, Mail, InTransit, Elements
<1>5. ASSUME NEW h PROVE Elements(Contents(inbox[h][Response])) = Bodies(h, Response)
  BY <1>1 DEF Bodies
<1>6. QED
  BY <1>3, <1>4, <1>5 DEF Shared, Requests, Responses

\* One more message on channel c.
LEMMA MailSent ==
  ASSUME NEW T, NEW m
  PROVE  /\ Mail(T \cup {m}, m.channel) = Mail(T, m.channel) \cup {m.body}
         /\ \A c : c # m.channel => Mail(T \cup {m}, c) = Mail(T, c)
BY DEF Mail

\* No request is new, and the responses are the same.
SameShares(h) == Requests(h)' \subseteq Requests(h) /\ Responses(h)' = Responses(h)

\* The turn of the bus: a message that arrives is still under way for its hart.
LEMMA BusShares ==
  ASSUME IInv, BusTurn, NEW h \in Hart
  PROVE  SameShares(h)
<1>1. /\ queue' = queue /\ active' = active /\ response' = response
      /\ Posted(transit, accepted) /\ Arrivals(inbox)
  BY DEF IInv, Settled, Placed, BusTurn, memoryVars
<1>2. CASE UNCHANGED busVars
  BY <1>1, <1>2 DEF SameShares, Requests, Responses, InTransit, Bodies, busVars
<1>3. CASE Bus!Deliver
  <2>1. PICK S \in SUBSET transit : Bus!Arrive(S)
    BY <1>3 DEF Bus!Deliver
  <2>2. transit' = transit \ S /\ \A m, k \in S : m.dst = k.dst => m = k
    BY <2>1 DEF Bus!Arrive
  <2>3. \A p \in Port, c \in Channel :
          \/ inbox'[p][c] = inbox[p][c] /\ \A m \in S : m.dst # p \/ m.channel # c
          \/ \E m \in S : /\ m.dst = p /\ m.channel = c
                          /\ inbox'[p][c] = Append(inbox[p][c], m)
    BY <1>1, <2>1, ArrivedInboxes
  <2>4. /\ MemoryPort \in Port /\ h \in Port /\ Request \in Channel /\ Response \in Channel
        /\ Request # Response
    BY DEF Port, Channel, Request, Response
  <2>5. \A m \in transit :
          /\ m.channel = Request => m.dst = MemoryPort
          /\ m.channel = Response => m.dst = m.body.hart
    BY <1>1, <2>4 DEF Posted
  <2>6. ASSUME NEW p \in Port, NEW c \in Channel, NEW m,
               inbox'[p][c] = Append(inbox[p][c], m)
        PROVE  Elements(Contents(inbox'[p][c])) = Elements(Contents(inbox[p][c])) \cup {m.body}
    <3> DEFINE q == inbox[p][c]
               f == Contents(q)
    <3>1. Proper(q)
      BY <1>1 DEF Arrivals
    <3> HIDE DEF q
    <3>2. Proper(f) /\ Contents(Append(q, m)) = Append(f, m.body)
      BY <3>1, ContentsFacts
    <3> HIDE DEF f
    <3>3. Elements(Append(f, m.body)) = Elements(f) \cup {m.body}
      BY <3>2, ElementFacts
    <3>4. QED
      BY <2>6, <3>2, <3>3 DEF f, q
  <2>7. Mail(transit', Request) \cup Elements(Contents(inbox'[MemoryPort][Request]))
          \subseteq Mail(transit, Request) \cup Elements(Contents(inbox[MemoryPort][Request]))
    <3>1. Mail(transit', Request) \subseteq Mail(transit, Request)
      BY <2>2 DEF Mail
    <3>2. CASE inbox'[MemoryPort][Request] = inbox[MemoryPort][Request]
      BY <3>1, <3>2
    <3>3. ASSUME NEW m \in S, m.channel = Request,
                 inbox'[MemoryPort][Request] = Append(inbox[MemoryPort][Request], m)
          PROVE  Elements(Contents(inbox'[MemoryPort][Request])) \subseteq
                   Mail(transit, Request) \cup Elements(Contents(inbox[MemoryPort][Request]))
      <4>1. m.body \in Mail(transit, Request)
        BY <3>3 DEF Mail
      <4>2. Elements(Contents(inbox'[MemoryPort][Request])) =
              Elements(Contents(inbox[MemoryPort][Request])) \cup {m.body}
        BY <2>4, <2>6, <3>3
      <4>3. QED
        BY <4>1, <4>2
    <3>4. QED
      BY <2>3, <2>4, <3>1, <3>2, <3>3
  <2>8. Requests(h)' \subseteq Requests(h)
    <3>1. Asked(transit', inbox', queue', active') \subseteq Asked(transit, inbox, queue, active)
      BY <1>1, <2>7 DEF Asked
    <3>2. Shared /\ Shared'
      BY Shares, PTL
    <3>3. QED
      BY <3>1, <3>2 DEF Shared
  <2>9. Responses(h)' = Responses(h)
    <3> DEFINE mine == {r \in Replies(transit, response) : r.hart = h}
               theirs == {r \in Replies(transit', response') : r.hart = h}
               home == Elements(Contents(inbox[h][Response]))
               there == Elements(Contents(inbox'[h][Response]))
    <3>1. theirs \cup there = mine \cup home
      <4>1. Elements(response') = Elements(response)
        BY <1>1
      <4>2. theirs \subseteq mine
        BY <2>2, <4>1 DEF Replies, Mail
      <4>3. ASSUME NEW r \in mine, r \notin theirs
            PROVE  \E m \in S : m.channel = Response /\ m.dst = h /\ r = m.body
        <5>1. r.hart = h /\ r \in Mail(transit, Response)
          BY <4>1, <4>3 DEF Replies
        <5>2. PICK m \in transit : m.channel = Response /\ r = m.body
          BY <5>1 DEF Mail
        <5>3. m \in S
          BY <2>2, <4>3, <5>1, <5>2 DEF Replies, Mail
        <5>4. QED
          BY <2>5, <5>1, <5>2, <5>3
      <4>4. CASE inbox'[h][Response] = inbox[h][Response] /\ \A m \in S : m.dst # h \/ m.channel # Response
        <5>1. theirs = mine
          BY <4>2, <4>3, <4>4
        <5>2. QED
          BY <4>4, <5>1
      <4>5. ASSUME NEW m \in S, m.dst = h, m.channel = Response,
                   inbox'[h][Response] = Append(inbox[h][Response], m)
            PROVE  theirs \cup there = mine \cup home
        <5>1. there = home \cup {m.body}
          BY <2>4, <2>6, <4>5
        <5>2. m.body \in mine
          BY <2>5, <4>5 DEF Replies, Mail
        <5>3. mine \subseteq theirs \cup {m.body}
          BY <2>2, <4>3, <4>5
        <5> HIDE DEF mine, theirs, home, there
        <5>4. QED
          BY <4>2, <5>1, <5>2, <5>3
      <4>6. QED
        BY <2>3, <2>4, <4>4, <4>5
    <3>2. Shared /\ Shared'
      BY Shares, PTL
    <3>3. QED
      BY <3>1, <3>2 DEF Shared
  <2>10. QED
    BY <2>8, <2>9 DEF SameShares
<1>4. QED
  BY <1>2, <1>3 DEF BusTurn, BusTick

\* A step that leaves hart g's calls and results alone.
SameCalls(g) == Calls(g)' = Calls(g) /\ Kept(g)' = Kept(g)
Same(g) == SameCalls(g) /\ SameShares(g)

\* The steps of the system, by what they do to the calls, requests and responses of a hart.
Quiet == bytes' = bytes /\ \A g \in Hart : Same(g)

\* The memory performs request q.
Serves(q) ==
  /\ q.hart \in Hart /\ q \in Requests(q.hart)
  /\ bytes' = Effect(bytes, q)
  /\ \A g \in Hart :
       /\ SameCalls(g) /\ Requests(g)' \subseteq Requests(g)
       /\ Responses(g)' = Responses(g) \cup {r \in {ResponseTo(q)} : g = q.hart}

\* The calls and results of a hart are a matter of its own fields and its window's.
LEMMA SameHart ==
  ASSUME NEW g, core'[g] = core[g], adapter'[g] = adapter[g]
  PROVE  SameCalls(g)
BY DEF SameCalls, Calls, Kept, State, Commands, RequestOf, IsWrite, Part, Pending

\* The turn of the controller: it performs at most one request.
LEMMA ControllerShares ==
  ASSUME IInv, MemoryTurn
  PROVE  Quiet \/ \E q : Serves(q)
<1>1. /\ Posted(transit, accepted) /\ Arrivals(inbox) /\ Bodied(queue)
      /\ Bodied(Serving(active)) /\ UnderService(active, response)
      /\ core' = core /\ adapter' = adapter
  BY DEF IInv, Settled, Placed, MemoryTurn
<1>2. \A g : SameCalls(g)
  BY <1>1, SameHart
<1>3. PICK sent \in BOOLEAN : (sent => response # <<>>) /\ Serve(sent) /\ Exchange(sent)
  BY DEF MemoryTurn, MemoryTick
<1>4. /\ Request # Response /\ MemoryPort \in Port /\ \A h \in Hart : h \in Port /\ h # MemoryPort
      /\ Request \in Channel /\ Response \in Channel
  BY SystemAssumption DEF Request, Response, Port, Hart, MemoryPort, Channel
<1> DEFINE unsent == Unsent(sent)
           home == Contents(inbox[MemoryPort][Request])
           there == Contents(inbox'[MemoryPort][Request])
<1>5. Slot(active) /\ Slot(response) /\ (unsent = <<>> \/ unsent = response)
  BY <1>1 DEF UnderService, Unsent
<1>6. /\ Mail(transit', Request) = Mail(transit, Request)
      /\ Mail(transit', Response) \cup Elements(unsent) = Mail(transit, Response) \cup Elements(response)
  <2>1. CASE sent
    <3> DEFINE r == response[1]
               m == AnswerOf(accepted, r)
    <3>1. response = <<r>> /\ unsent = <<>> /\ transit' = transit \cup {m}
      BY <1>3, <1>5, <2>1 DEF Slot, Exchange, Unsent, AnswerOf
    <3>2. m.channel = Response /\ m.body = r
      BY DEF AnswerOf
    <3> HIDE DEF r, m, unsent
    <3>3. /\ Mail(transit', Request) = Mail(transit, Request)
          /\ Mail(transit', Response) = Mail(transit, Response) \cup {r}
      <4>1. /\ Mail(transit \cup {m}, m.channel) = Mail(transit, m.channel) \cup {m.body}
            /\ \A c : c # m.channel => Mail(transit \cup {m}, c) = Mail(transit, c)
        BY MailSent
      <4>2. QED
        BY <1>4, <3>1, <3>2, <4>1
    <3>4. Elements(unsent) = {} /\ Elements(response) = {r}
      BY <3>1, ElementsOne
    <3>5. QED
      BY <3>3, <3>4
  <2>2. CASE ~sent
    BY <1>3, <2>2 DEF Exchange, Unsent
  <2>3. QED
    BY <2>1, <2>2
<1>7. /\ Elements(there) \cup Elements(Taken) = Elements(home) \cup Elements(queue)
      /\ Proper(Taken) /\ \A h \in Hart : inbox'[h][Response] = inbox[h][Response]
  <2>1. CASE MayTake
    <3> DEFINE f == inbox[MemoryPort][Request]
    <3>1. /\ inbox' = Emptier(inbox) /\ f # <<>> /\ Taken = Append(queue, Head(f).body)
      BY <1>3, <2>1 DEF Exchange, Taken, Received, MayTake, CanRecv, Emptier
    <3>2. /\ inbox'[MemoryPort][Request] = Tail(f)
          /\ \A h \in Hart : inbox'[h][Response] = inbox[h][Response]
      BY <1>1, <1>4, <3>1 DEF Emptier, Arrivals
    <3>3. Proper(f)
      BY <1>1, <1>4 DEF Arrivals
    <3> HIDE DEF f
    <3>4. /\ Proper(home) /\ home # <<>> /\ there = Tail(home) /\ Head(home) = Head(f).body
      BY <3>1, <3>2, <3>3, ContentsFacts DEF f
    <3> HIDE DEF home, there
    <3>5. Elements(home) = {Head(f).body} \cup Elements(there)
      BY <3>4, ElementFacts
    <3>6. Elements(Taken) = Elements(queue) \cup {Head(f).body} /\ Proper(Taken)
      BY <1>1, <3>1, ElementFacts, AppendFacts DEF Bodied
    <3>7. QED
      BY <3>2, <3>5, <3>6
  <2>2. CASE ~MayTake
    BY <1>1, <1>3, <2>2 DEF Exchange, Taken, Bodied
  <2>3. QED
    BY <2>1, <2>2
<1> HIDE DEF unsent, home, there
<1> DEFINE advancing == active # <<>> /\ unsent = <<>>
           done == advancing /\ active[1].left = 1
           starting == unsent = <<>> /\ ~done /\ active = <<>> /\ Taken # <<>>
           q == active[1].request
           old == Asked(transit, inbox, queue, active)
           new == Asked(transit', inbox', queue', active')
<1>8. /\ response' = IF done THEN <<ResponseTo(q)>> ELSE unsent
      /\ bytes' = IF done THEN Effect(bytes, q) ELSE bytes
      /\ active' = CASE done -> <<>>
                     [] advancing /\ ~done -> <<[active[1] EXCEPT !.left = @ - 1]>>
                     [] starting -> <<[request |-> Head(Taken), left |-> ServiceLatency]>>
                     [] OTHER -> active
      /\ queue' = IF starting THEN Tail(Taken) ELSE Taken
  BY <1>3 DEF Serve, unsent
<1>9. active # <<>> => Elements(Serving(active)) = {q} /\ q.hart \in Hart
  <2>1. SUFFICES ASSUME active # <<>> PROVE Elements(Serving(active)) = {q} /\ q.hart \in Hart
    OBVIOUS
  <2>2. active = <<active[1]>>
    BY <1>5, <2>1 DEF Slot
  <2>3. Serving(active) = <<q>>
    BY <2>2, ServingFacts
  <2> HIDE DEF q
  <2>4. 1 \in DOMAIN Serving(active) /\ Serving(active)[1] = q
    BY <2>3, ProperOne
  <2>5. q.hart \in Hart
    BY <1>1, <2>4 DEF Bodied, Body
  <2>6. QED
    BY <2>3, <2>5, ElementsOne
<1>10. Elements(queue') \cup Elements(Serving(active')) \subseteq
         Elements(Taken) \cup Elements(Serving(active))
  <2>1. CASE starting
    <3> DEFINE a == [request |-> Head(Taken), left |-> ServiceLatency]
    <3>1. queue' = Tail(Taken) /\ active' = <<a>> /\ a.request = Head(Taken) /\ Taken # <<>>
      BY <1>8, <2>1
    <3> HIDE DEF a
    <3>2. Elements(Serving(active')) = {Head(Taken)}
      BY <3>1, ServingFacts, ElementsOne
    <3>3. QED
      BY <1>7, <3>1, <3>2, ElementFacts
  <2>2. CASE done
    <3>1. queue' = Taken /\ active' = <<>>
      BY <1>8, <2>2
    <3>2. Elements(Serving(active')) = {}
      BY <3>1, ServingFacts, ElementsOne
    <3>3. QED
      BY <3>1, <3>2
  <2>3. CASE advancing /\ ~done
    <3> DEFINE b == [active[1] EXCEPT !.left = @ - 1]
    <3>1. queue' = Taken /\ active' = <<b>>
      BY <1>8, <2>3
    <3>2. b.request = q
      BY <1>1, <2>3 DEF UnderService
    <3> HIDE DEF b, q
    <3>3. Elements(Serving(active')) = {q}
      BY <3>1, <3>2, ServingFacts, ElementsOne
    <3>4. QED
      BY <1>9, <2>3, <3>1, <3>3
  <2>4. CASE ~starting /\ ~done /\ ~advancing
    BY <1>8, <2>4
  <2>5. QED
    BY <2>1, <2>2, <2>3, <2>4
<1>11. new \subseteq old
  BY <1>6, <1>7, <1>10 DEF Asked, home, there
<1>12. Shared /\ Shared'
  BY Shares, PTL
<1>13. \A g \in Hart : Requests(g)' \subseteq Requests(g)
  BY <1>11, <1>12 DEF Shared
<1>14. CASE done
  <2>1. response' = <<ResponseTo(q)>> /\ unsent = <<>> /\ bytes' = Effect(bytes, q) /\ active # <<>>
    BY <1>8, <1>14
  <2> DEFINE a == ResponseTo(q)
  <2>2. a.hart = q.hart
    BY DEF ResponseTo
  <2>3. Elements(response') = {a} /\ Elements(unsent) = {}
    BY <2>1, ElementsOne
  <2> HIDE DEF a, q, done
  <2>4. Replies(transit', response') = Replies(transit, response) \cup {a}
    BY <1>6, <2>3 DEF Replies
  <2>5. \A g \in Hart : Responses(g)' = Responses(g) \cup {r \in {a} : g = q.hart}
    BY <1>7, <1>12, <2>2, <2>4 DEF Shared
  <2>6. q.hart \in Hart /\ q \in Requests(q.hart)
    BY <1>9, <1>12, <2>1 DEF Shared, Asked
  <2>7. Serves(q)
    BY <1>2, <1>13, <2>1, <2>5, <2>6 DEF Serves, a
  <2>8. QED
    BY <2>7
<1>15. CASE ~done
  <2>1. response' = unsent /\ bytes' = bytes
    BY <1>8, <1>15
  <2>2. Replies(transit', response') = Replies(transit, response)
    BY <1>6, <2>1 DEF Replies
  <2>3. \A g \in Hart : Responses(g)' = Responses(g)
    BY <1>7, <1>12, <2>2 DEF Shared
  <2>4. QED
    BY <1>2, <1>13, <2>1, <2>3 DEF Quiet, Same, SameShares
<1>16. QED
  BY <1>14, <1>15

\* What else a step may do: only hart h's calls, requests and responses change.
Others(h) == bytes' = bytes /\ \A g \in Hart \ {h} : Same(g)

\* Hart h makes a call x along path p, the only one it uses.
Begins(h, p) ==
  /\ Others(h) /\ Kept(h)' = Kept(h) /\ Responses(h)' = Responses(h)
  /\ \A o \in Path \ {p} : Calls(h)[o] = <<>> /\ Calls(h)'[o] = <<>>
  /\ \E x : /\ Calls(h)'[p] = Append(Calls(h)[p], x)
            /\ Requests(h)' \subseteq Requests(h) \cup {x}

\* It pops a result.
Pops(h) ==
  /\ Others(h) /\ Calls(h)' = Calls(h) /\ SameShares(h)
  /\ Kept(h)["window"] # <<>>
  /\ Kept(h)'["window"] = Tail(Kept(h)["window"])
  /\ Kept(h)'["core"] = Kept(h)["core"]

\* It sends the request of a call.
Sends(h) ==
  /\ Others(h) /\ SameCalls(h) /\ Responses(h)' = Responses(h)
  /\ Requests(h)' \subseteq Requests(h) \cup Elements(Calls(h)["window"])

\* It takes the response r to its oldest call along path p, and may keep the result.
Takes(h, p, r) ==
  /\ Others(h)
  /\ \A o \in Path \ {p} : Calls(h)[o] = <<>> /\ Calls(h)'[o] = <<>> /\ Kept(h)'[o] = Kept(h)[o]
  /\ Calls(h)[p] # <<>> /\ Calls(h)'[p] = Tail(Calls(h)[p])
  /\ r.transaction = Calls(h)[p][1].transaction
  /\ Responses(h) = Responses(h)' \cup {r}
  /\ Requests(h)' \subseteq Requests(h) \cup Elements(Calls(h)[p])
  /\ \/ (p = "core" \/ Depth = 1) /\ Kept(h)'[p] = Kept(h)[p]
     \/ /\ p = "window" /\ Depth > 1
        /\ \E x : /\ Kept(h)'[p] = Append(Kept(h)[p], x)
                  /\ Fits(r, Calls(h)[p][1]) => x = Number(r.data)

\* A command more, a result less, or neither.
OneMove(a, b) ==
  \/ b.requests = a.requests /\ b.results = a.results
  \/ b.results = a.results /\ \E x : b.requests = Append(a.requests, x)
  \/ b.requests = a.requests /\ a.results # <<>> /\ b.results = Tail(a.results)

\* What a write to a register does to the commands and results.
LEMMA RegisterMoves ==
  ASSUME NEW a, NEW h, NEW reg \in Writable, NEW v, Window(a, h)
  PROVE  OneMove(a, WriteRegister(a, h, reg, v))
<1> DEFINE b == WriteRegister(a, h, reg, v)
<1>1. DOMAIN a = AdapterFields
  BY DEF Window
<1>2. \A d : DOMAIN d = AdapterFields =>
        Rejected(d).requests = d.requests /\ Rejected(d).results = d.results
  BY DEF Rejected, AdapterFields
<1>3. CASE reg = Pop
  <2>1. b = Popped(a, v)
    BY <1>3 DEF WriteRegister
  <2>2. CASE v # 1 \/ a.results = <<>>
    BY <1>1, <1>2, <2>1, <2>2 DEF Popped, OneMove
  <2>3. CASE ~(v # 1 \/ a.results = <<>>)
    <3>1. b.requests = a.requests /\ b.results = Tail(a.results)
      BY <1>1, <2>1, <2>3 DEF Popped, AdapterFields
    <3>2. QED
      BY <2>3, <3>1 DEF OneMove
  <2>4. QED
    BY <2>2, <2>3
<1>4. CASE reg # Pop /\ ((Busy(a) /\ Depth = 1) \/ reg = ReadData)
  <2>1. b = Rejected(a)
    BY <1>4 DEF WriteRegister, Command, Target, WriteData, Size, Status, ReadData, Pop
  <2>2. QED
    BY <1>1, <1>2, <2>1 DEF OneMove
<1>5. CASE reg = Command /\ ~(Busy(a) /\ Depth = 1)
  <2> DEFINE cleared == [a EXCEPT !.flags = IF Depth = 1 THEN {} ELSE @, !.rdata = 0]
             x == [request |-> CommandRequest(a, h, v), sent |-> FALSE]
  <2>1. b = Commanded(a, h, v)
    BY <1>5 DEF WriteRegister, Command, Target, WriteData, Size, Status, ReadData, Pop
  <2>2. /\ DOMAIN cleared = AdapterFields /\ cleared.requests = a.requests
        /\ cleared.results = a.results
    BY <1>1 DEF AdapterFields
  <2>3. CASE Full(a)
    BY <1>1, <1>2, <2>1, <2>3 DEF Commanded, OneMove
  <2>4. CASE ~Full(a) /\ (~ValidCommand(a, v) \/ Exhausted(a))
    <3>1. b = Rejected(cleared)
      BY <2>1, <2>4 DEF Commanded
    <3> HIDE DEF b, cleared
    <3>2. QED
      BY <1>2, <2>2, <3>1 DEF b, OneMove
  <2>5. CASE ~Full(a) /\ ~(~ValidCommand(a, v) \/ Exhausted(a))
    <3>1. b.requests = Append(a.requests, x) /\ b.results = a.results
      BY <1>1, <2>1, <2>5 DEF Commanded, AdapterFields
    <3> HIDE DEF b, x
    <3>2. QED
      BY <3>1 DEF b, OneMove
  <2>6. QED
    BY <2>3, <2>4, <2>5
<1>6. CASE reg \in {Target, WriteData, Size, Status} /\ ~(Busy(a) /\ Depth = 1)
  <2>1. \/ b = [a EXCEPT !.target = v] \/ b = [a EXCEPT !.wdata = v] \/ b = [a EXCEPT !.size = v]
        \/ b = [a EXCEPT !.flags = Cleared(@, v)]
    BY <1>6 DEF WriteRegister, Command, Target, WriteData, Size, Status, ReadData, Pop
  <2> HIDE DEF b
  <2>2. b.requests = a.requests /\ b.results = a.results
    BY <1>1, <2>1 DEF AdapterFields
  <2>3. QED
    BY <2>2 DEF b, OneMove
<1>7. QED
  BY <1>3, <1>4, <1>5, <1>6 DEF Writable

\* The calls and results of a hart, in terms of its state and its window's queues.
Views ==
  \A h : /\ Calls(h) = [core |-> IF State(h) = "MemoryWait" THEN <<RequestOf(h)>> ELSE <<>>,
                        window |-> Serving(adapter[h].requests)]
         /\ Kept(h) = [core |-> <<>>, window |-> Column(adapter[h].results, "data")]

\* Calls and Kept are these views.
LEMMA Viewed == Views
<1>1. \A s : Serving(s) = [i \in DOMAIN s |-> s[i].request]
  BY DEF Serving
<1>2. \A s : Column(s, "data") = [i \in DOMAIN s |-> s[i].data]
  BY DEF Column
<1>3. QED
  BY <1>1, <1>2 DEF Views, Calls, Kept, Commands

\* A step of hart h alone that leaves the shared state alone.
LEMMA OwnShares ==
  ASSUME UNCHANGED <<busVars, memoryVars>>
  PROVE  bytes' = bytes /\ \A g : SameShares(g)
<1>1. Asked(transit', inbox', queue', active') = Asked(transit, inbox, queue, active)
      /\ Replies(transit', response') = Replies(transit, response) /\ inbox' = inbox /\ bytes' = bytes
  BY DEF busVars, memoryVars
<1>2. Shared /\ Shared'
  BY Shares, PTL
<1>3. QED
  BY <1>1, <1>2 DEF Shared, SameShares

\* A move of a hart on its own: it makes a call through its window, pops a result, or neither.
LEMMA OwnStepsTo ==
  ASSUME IInv, NEW h \in Hart, OwnMove(h), UNCHANGED memoryVars
  PROVE  Quiet \/ Begins(h, "window") \/ Pops(h)
<1>1. PICK c, a : Becomes(h, c) /\ Running(c) /\ WindowBecomes(h, a) /\ Written(h, a)
  BY DEF OwnMove
<1>2. /\ DOMAIN core = Hart /\ DOMAIN adapter = Hart /\ Window(adapter[h], h)
  BY DEF IInv
<1>3. /\ core' = [core EXCEPT ![h] = c] /\ c.state # "MemoryWait"
      /\ adapter'[h] = a /\ \A g \in Hart : g # h => adapter'[g] = adapter[g]
  BY <1>1 DEF Becomes, Running, WindowBecomes
<1>4. /\ core'[h] = c /\ \A g \in Hart : g # h => core'[g] = core[g]
  BY <1>2, <1>3
<1>5. bytes' = bytes /\ \A g : SameShares(g)
  BY OwnShares DEF OwnMove
<1>6. \A g \in Hart \ {h} : SameCalls(g)
  BY <1>3, <1>4, SameHart
<1>7. Others(h)
  BY <1>5, <1>6 DEF Others, Same
<1>8. Views /\ Views'
  BY Viewed, PTL
<1>9. State(h) # "MemoryWait" /\ State(h)' # "MemoryWait"
  BY <1>3, <1>4 DEF OwnMove, State
<1> DEFINE q == adapter[h].requests
           s == adapter[h].results
<1>10. /\ Calls(h) = [core |-> <<>>, window |-> Serving(q)]
       /\ Calls(h)' = [core |-> <<>>, window |-> Serving(a.requests)]
       /\ Kept(h) = [core |-> <<>>, window |-> Column(s, "data")]
       /\ Kept(h)' = [core |-> <<>>, window |-> Column(a.results, "data")]
  BY <1>3, <1>8, <1>9 DEF Views
<1>11. OneMove(adapter[h], a)
  <2>1. CASE a = adapter[h]
    BY <2>1 DEF OneMove
  <2>2. CASE \E reg \in Writable : \E v : a = WriteRegister(adapter[h], h, reg, v)
    <3>1. PICK reg \in Writable : \E v : a = WriteRegister(adapter[h], h, reg, v)
      BY <2>2
    <3>2. PICK v : a = WriteRegister(adapter[h], h, reg, v)
      BY <3>1
    <3>3. QED
      BY <1>2, <3>2, RegisterMoves
  <2>3. QED
    BY <1>1, <2>1, <2>2 DEF Written
<1>12. Proper(q) /\ Proper(s)
  BY <1>2 DEF Window
<1> HIDE DEF q, s
<1>13. CASE a.requests = q /\ a.results = s
  <2>1. SameCalls(h)
    BY <1>10, <1>13 DEF SameCalls
  <2>2. QED
    BY <1>5, <1>7, <2>1 DEF Quiet, Others, Same
<1>14. CASE a.results = s /\ \E x : a.requests = Append(q, x)
  <2>1. PICK x : a.requests = Append(q, x)
    BY <1>14
  <2>2. Serving(Append(q, x)) = Append(Serving(q), x.request)
    BY <1>12, ServingColumn
  <2>3. Calls(h)'["window"] = Append(Calls(h)["window"], x.request)
    BY <1>10, <2>1, <2>2
  <2>4. Kept(h)' = Kept(h) /\ Calls(h)["core"] = <<>> /\ Calls(h)'["core"] = <<>>
    BY <1>10, <1>14
  <2>5. Requests(h)' \subseteq Requests(h) \cup {x.request} /\ Responses(h)' = Responses(h)
    BY <1>5 DEF SameShares
  <2>6. QED
    BY <1>7, <2>3, <2>4, <2>5 DEF Begins, Path
<1>15. CASE a.requests = q /\ s # <<>> /\ a.results = Tail(s)
  <2> DEFINE d == Column(s, "data")
  <2>1. d # <<>> /\ Column(Tail(s), "data") = Tail(d)
    BY <1>12, <1>15, ColumnFacts
  <2>2. /\ Kept(h)["window"] # <<>> /\ Kept(h)'["window"] = Tail(Kept(h)["window"])
        /\ Kept(h)'["core"] = Kept(h)["core"] /\ Calls(h)' = Calls(h)
    BY <1>10, <1>15, <2>1
  <2>3. QED
    BY <1>5, <1>7, <2>2 DEF Pops
<1>16. QED
  BY <1>11, <1>13, <1>14, <1>15 DEF OneMove, q, s

\* A hart that does nothing of note.
LEMMA NothingSteps ==
  ASSUME UNCHANGED <<core, adapter, busVars, memoryVars>>
  PROVE  Quiet
<1>1. bytes' = bytes /\ \A g : SameShares(g)
  BY OwnShares
<1>2. \A g : SameCalls(g)
  BY SameHart
<1>3. QED
  BY <1>1, <1>2 DEF Quiet, Same

\* A request that goes into the bus is one of its hart.
LEMMA SentShares ==
  ASSUME NEW b, b.hart \in Hart, transit' = transit \cup {RequestLetter(accepted, b)},
         UNCHANGED <<queue, active, response>>,
         inbox'[MemoryPort][Request] = inbox[MemoryPort][Request]
  PROVE  /\ \A g : Requests(g)' = Requests(g) \cup {r \in {b} : r.hart = g}
         /\ Replies(transit', response') = Replies(transit, response)
<1> DEFINE m == RequestLetter(accepted, b)
<1>1. m.channel = Request /\ m.body = b /\ Request # Response
  BY DEF RequestLetter, Request, Response
<1> HIDE DEF m
<1>2. /\ Mail(transit \cup {m}, m.channel) = Mail(transit, m.channel) \cup {m.body}
      /\ \A c : c # m.channel => Mail(transit \cup {m}, c) = Mail(transit, c)
  BY MailSent
<1>3. /\ Mail(transit', Request) = Mail(transit, Request) \cup {b}
      /\ Mail(transit', Response) = Mail(transit, Response)
  BY <1>1, <1>2 DEF m
<1>4. /\ Asked(transit', inbox', queue', active') = Asked(transit, inbox, queue, active) \cup {b}
      /\ Replies(transit', response') = Replies(transit, response)
  BY <1>3 DEF Asked, Replies
<1>5. Shared /\ Shared'
  BY Shares, PTL
<1>6. QED
  BY <1>4, <1>5 DEF Shared

\* A response that hart h takes is one of its own.
LEMMA TakenShares ==
  ASSUME IInv, NEW h \in Hart, inbox[h][Response] # <<>>
  PROVE  LET I == Consumed(inbox, h)
             r == Received(h, Response) IN
         /\ \A g \in Hart : g # h => I[g][Response] = inbox[g][Response]
         /\ I[MemoryPort][Request] = inbox[MemoryPort][Request]
         /\ Elements(Contents(inbox[h][Response])) = Elements(Contents(I[h][Response])) \cup {r}
         /\ r \in Responses(h)
<1>1. Arrivals(inbox)
  BY DEF IInv, Settled, Placed
<1>2. /\ h \in Port /\ MemoryPort \in Port /\ h # MemoryPort /\ \A g \in Hart : g \in Port
      /\ Request \in Channel /\ Response \in Channel
  BY SystemAssumption DEF Port, Hart, MemoryPort, Channel
<1> DEFINE f == inbox[h][Response]
           I == Consumed(inbox, h)
           r == Received(h, Response)
<1>3. /\ I[h][Response] = Tail(f)
      /\ \A g \in Hart : g # h => I[g][Response] = inbox[g][Response]
      /\ I[MemoryPort][Request] = inbox[MemoryPort][Request]
  BY <1>1, <1>2 DEF Consumed, Arrivals
<1>4. Proper(f) /\ f # <<>> /\ r = Head(f).body
  BY <1>1, <1>2 DEF Arrivals, Received
<1> HIDE DEF f, I, r
<1> DEFINE b == Contents(f)
<1>5. Proper(b) /\ b # <<>> /\ Contents(Tail(f)) = Tail(b) /\ Head(b) = r
  BY <1>4, ContentsFacts
<1> HIDE DEF b
<1>6. Elements(b) = {r} \cup Elements(Tail(b))
  BY <1>5, ElementFacts
<1>7. r \in Responses(h)
  BY <1>6, Shares DEF Shared, b, f
<1>8. QED
  BY <1>3, <1>5, <1>6, <1>7 DEF b, f, I, r

\* The hart sends its own request: a call along its core path, the window being idle.
LEMMA IssueStepsTo ==
  ASSUME IInv, NEW h \in Hart, IssueSend(h), UNCHANGED memoryVars
  PROVE  Begins(h, "core")
<1> DEFINE b == RequestOf(h)
           c == [core[h] EXCEPT !.state = "MemoryWait"]
<1>1. /\ DOMAIN core = Hart /\ Fields(core[h])
  BY DEF IInv
<1>2. /\ State(h) = "MemoryIssue" /\ adapter[h].requests = <<>>
      /\ Bus!Send(h, MemoryPort, Request, b) /\ core' = [core EXCEPT ![h] = c] /\ adapter' = adapter
      /\ queue' = queue /\ active' = active /\ response' = response /\ bytes' = bytes
  BY DEF IssueSend, Issuing, PortFree, Busy, Becomes, memoryVars
<1>3. c.state = "MemoryWait" /\ c.id = core[h].id /\ c.pc = core[h].pc /\ c.parts = core[h].parts
  BY <1>1 DEF Fields, CoreFields
<1>4. b.hart = h
  BY DEF RequestOf
<1> HIDE DEF c
<1>5. core'[h] = c /\ \A g \in Hart : g # h => core'[g] = core[g]
  BY <1>1, <1>2
<1>6. State(h)' = "MemoryWait" /\ RequestOf(h)' = b
  BY <1>3, <1>5 DEF State, RequestOf, IsWrite, Part, Pending
<1> HIDE DEF b
<1>7. transit' = transit \cup {RequestLetter(accepted, b)} /\ inbox' = inbox
  BY <1>2, <1>4 DEF Bus!Send, RequestLetter
<1>8. /\ \A g : Requests(g)' = Requests(g) \cup {r \in {b} : r.hart = g}
      /\ Replies(transit', response') = Replies(transit, response)
  BY <1>2, <1>4, <1>7, SentShares
<1>9. Shared /\ Shared' /\ Views /\ Views'
  BY Shares, Viewed, PTL
<1>10. \A g : Responses(g)' = Responses(g)
  BY <1>7, <1>8, <1>9 DEF Shared
<1>11. \A g \in Hart \ {h} : SameCalls(g)
  BY <1>2, <1>5, SameHart
<1>12. Others(h)
  <2>1. \A g \in Hart \ {h} : Requests(g)' \subseteq Requests(g)
    BY <1>4, <1>8
  <2>2. QED
    BY <1>2, <1>10, <1>11, <2>1 DEF Others, Same, SameShares
<1>13. Serving(<<>>) = <<>>
  BY ServingFacts
<1>14. Calls(h) = [core |-> <<>>, window |-> <<>>] /\ Calls(h)' = [core |-> <<b>>, window |-> <<>>]
  BY <1>2, <1>6, <1>9, <1>13 DEF Views
<1>15. Kept(h)' = Kept(h)
  BY <1>2, <1>9 DEF Views
<1>16. <<b>> = Append(<<>>, b)
  OBVIOUS
<1>17. Calls(h)'["core"] = Append(Calls(h)["core"], b)
  BY <1>14, <1>16
<1>18. \A o \in Path \ {"core"} : Calls(h)[o] = <<>> /\ Calls(h)'[o] = <<>>
  BY <1>14 DEF Path
<1>19. Requests(h)' \subseteq Requests(h) \cup {b}
  BY <1>8
<1>20. QED
  BY <1>10, <1>12, <1>15, <1>17, <1>18, <1>19 DEF Begins

\* It takes the response to it.
LEMMA ReceiveStepsTo ==
  ASSUME IInv, NEW h \in Hart, Receive(h), UNCHANGED memoryVars
  PROVE  \E r : Takes(h, "core", r)
<1> DEFINE r == Received(h, Response)
           c == IF Misfit(h, r) THEN Faulted(core[h]) ELSE Answered(h, r)
<1>1. /\ DOMAIN core = Hart /\ Matched(h) /\ Fields(core[h])
      /\ Settled(transit, accepted, inbox, queue, active, response)
  BY DEF IInv
<1>2. /\ State(h) = "MemoryWait" /\ inbox[h][Response] # <<>>
      /\ core' = [core EXCEPT ![h] = c] /\ adapter' = adapter
      /\ inbox' = Consumed(inbox, h) /\ transit' = transit
      /\ queue' = queue /\ active' = active /\ response' = response /\ bytes' = bytes
  BY DEF Receive, CanRecv, Becomes, memoryVars, Bus!Recv, Consumed
<1>3. r.transaction \in IdsUnderWay[h]
  BY <1>1, <1>2, TakeResponse DEF IdsUnderWay, Received
<1>4. IdsUnderWay[h] = {core[h].id} /\ adapter[h].requests = <<>>
  BY <1>1, <1>2 DEF Matched, Busy
<1>5. State(h)' # "MemoryWait"
  <2>1. Running(c)
    BY <1>1, ReceivedRuns
  <2> HIDE DEF c
  <2>2. core'[h] = c
    BY <1>1, <1>2
  <2>3. QED
    BY <2>1, <2>2 DEF Running, State
<1> HIDE DEF c
<1>6. /\ \A g \in Hart : g # h => inbox'[g][Response] = inbox[g][Response]
      /\ inbox'[MemoryPort][Request] = inbox[MemoryPort][Request]
      /\ Elements(Contents(inbox[h][Response])) = Elements(Contents(inbox'[h][Response])) \cup {r}
      /\ r \in Responses(h)
  BY <1>2, TakenShares
<1> HIDE DEF r
<1>7. Shared /\ Shared' /\ Views /\ Views'
  BY Shares, Viewed, PTL
<1>8. \A g : Requests(g)' = Requests(g)
  BY <1>2, <1>6, <1>7 DEF Shared, Asked
<1>9. \A g \in Hart : g # h => Responses(g)' = Responses(g)
  BY <1>2, <1>6, <1>7 DEF Shared
<1>10. Responses(h) = Responses(h)' \cup {r}
  BY <1>2, <1>6, <1>7 DEF Shared
<1>11. \A g \in Hart \ {h} : SameCalls(g)
  <2>1. \A g \in Hart : g # h => core'[g] = core[g]
    BY <1>1, <1>2
  <2>2. QED
    BY <1>2, <2>1, SameHart
<1>12. Others(h)
  BY <1>2, <1>8, <1>9, <1>11 DEF Others, Same, SameShares
<1> DEFINE b == RequestOf(h)
<1>13. b.transaction = core[h].id
  BY DEF RequestOf
<1> HIDE DEF b
<1>14. Serving(<<>>) = <<>>
  BY ServingFacts
<1>15. Calls(h) = [core |-> <<b>>, window |-> <<>>] /\ Calls(h)' = [core |-> <<>>, window |-> <<>>]
  BY <1>2, <1>4, <1>7, <1>14, <1>5 DEF Views, b
<1>16. Kept(h)' = Kept(h)
  BY <1>2, <1>7 DEF Views
<1>17. <<b>> # <<>> /\ Tail(<<b>>) = <<>> /\ <<b>>[1] = b
  OBVIOUS
<1>18. /\ Calls(h)["core"] # <<>> /\ Calls(h)'["core"] = Tail(Calls(h)["core"])
       /\ r.transaction = Calls(h)["core"][1].transaction
  BY <1>3, <1>4, <1>13, <1>15, <1>17
<1>19. \A o \in Path \ {"core"} : Calls(h)[o] = <<>> /\ Calls(h)'[o] = <<>> /\ Kept(h)'[o] = Kept(h)[o]
  BY <1>15, <1>16 DEF Path
<1>20. QED
  BY <1>8, <1>10, <1>12, <1>16, <1>18, <1>19 DEF Takes

\* What a window may send before it takes a response: one of its requests, marked as sent.
LEMMA WindowMails ==
  ASSUME IInv, NEW h \in Hart, NEW sent \in BOOLEAN, AdapterTick(h, sent)
  PROVE  LET a == AdapterAfter(h, sent)
             q == Serving(adapter[h].requests) IN
         /\ Proper(a.requests) /\ Proper(adapter[h].requests)
         /\ Serving(a.requests) = q /\ a.results = adapter[h].results
         /\ Mail(transit', Response) = Mail(transit, Response)
         /\ \E B : /\ B \subseteq Elements(q) /\ \A b \in B : b.hart = h
                   /\ Mail(transit', Request) = Mail(transit, Request) \cup B
<1> DEFINE d == adapter[h]
<1>1. Window(d, h)
  BY DEF IInv
<1>2. CASE ~sent
  <2>1. transit' = transit /\ AdapterAfter(h, sent) = d
    BY <1>2 DEF AdapterTick, AdapterAfter
  <2>2. Proper(d.requests)
    BY <1>1 DEF Window
  <2> DEFINE B == {}
  <2>3. B \subseteq Elements(Serving(d.requests)) /\ Mail(transit', Request) = Mail(transit, Request) \cup B
    BY <2>1
  <2>4. \A b \in B : b.hart = h
    OBVIOUS
  <2> HIDE DEF B, d
  <2>5. QED
    BY <2>1, <2>2, <2>3, <2>4 DEF d
<1>3. CASE sent
  <2> DEFINE k == NextUnsent(d)
             b == d.requests[k].request
             a == Sending(d)
             m == [id |-> accepted', src |-> h, dst |-> MemoryPort, channel |-> Request, body |-> b]
  <2>1. /\ Unsents(d) # {} /\ AdapterAfter(h, sent) = a
        /\ transit' = transit \cup {m}
    BY <1>3 DEF AdapterTick, AdapterAfter
  <2>2. m.channel = Request /\ m.body = b /\ Request # Response
    BY DEF Request, Response
  <2> HIDE DEF d, m
  <2>3. /\ b.hart = h /\ Window(a, h)
        /\ k \in DOMAIN d.requests /\ DOMAIN a.requests = DOMAIN d.requests
        /\ \A i \in DOMAIN d.requests : a.requests[i].request = d.requests[i].request
        /\ a.results = d.results
    BY <1>1, <2>1, SendKeeps
  <2> HIDE DEF k, a
  <2>4. Proper(a.requests) /\ Proper(d.requests)
    BY <1>1, <2>3 DEF Window
  <2>5. Serving(a.requests) = Serving(d.requests)
    BY <2>3 DEF Serving
  <2>6. b \in Elements(Serving(d.requests))
    <3>1. k \in DOMAIN Serving(d.requests) /\ Serving(d.requests)[k] = b
      BY <2>3 DEF Serving
    <3> HIDE DEF b
    <3>2. QED
      BY <3>1 DEF Elements
  <2> HIDE DEF b
  <2>7. /\ Mail(transit \cup {m}, m.channel) = Mail(transit, m.channel) \cup {m.body}
        /\ \A c : c # m.channel => Mail(transit \cup {m}, c) = Mail(transit, c)
    BY MailSent
  <2> DEFINE B == {b}
  <2>8. /\ Mail(transit', Request) = Mail(transit, Request) \cup B
        /\ Mail(transit', Response) = Mail(transit, Response)
    BY <2>1, <2>2, <2>7
  <2>9. B \subseteq Elements(Serving(d.requests)) /\ \A x \in B : x.hart = h
    BY <2>3, <2>6
  <2> HIDE DEF B
  <2>10. QED
    BY <2>1, <2>3, <2>4, <2>5, <2>8, <2>9 DEF d
<1>4. QED
  BY <1>2, <1>3

\* The response that a window takes is for the oldest of the commands it has sent.
LEMMA WindowTakes ==
  ASSUME IInv, NEW h \in Hart, NEW sent \in BOOLEAN, AdapterTick(h, sent), AdapterTakes(h)
  PROVE  LET a == AdapterAfter(h, sent)
             r == Received(h, Response) IN
         /\ State(h) # "MemoryWait" /\ inbox[h][Response] # <<>>
         /\ Window(a, h) /\ r.hart = h /\ r.transaction \in SentIds(a)
         /\ \A i \in SentIds(a) : r.transaction <= i
<1> DEFINE a == AdapterAfter(h, sent)
           ids == Ids(transit', inbox, queue, active, response)
           r == Received(h, Response)
<1>1. Busy(adapter[h]) /\ inbox[h][Response] # <<>>
  BY DEF AdapterTakes, CanRecv
<1>2. State(h) # "MemoryWait"
  BY <1>1 DEF IInv, Matched
<1>3. /\ Settled(transit', accepted', inbox, queue, active, response)
      /\ Window(a, h) /\ ids[h] = SentIds(a)
  BY <1>2, WindowSends
<1>4. /\ r.hart = h /\ r.transaction \in ids[h]
      /\ \A i \in ids[h] : i \in Int /\ r.transaction <= i
  BY <1>1, <1>3, TakeResponse DEF Received
<1>5. QED
  BY <1>1, <1>2, <1>3, <1>4

\* The turn of a window: it sends at most one request and takes at most one response.
LEMMA WindowStepsTo ==
  ASSUME IInv, NEW h \in Hart, NEW sent \in BOOLEAN, AdapterTick(h, sent), UNCHANGED memoryVars,
         core' = core
  PROVE  Sends(h) \/ \E r : Takes(h, "window", r)
<1> DEFINE a == AdapterAfter(h, sent)
           d == adapter[h]
           q == Serving(d.requests)
           r == Received(h, Response)
<1>1. /\ Proper(a.requests) /\ Proper(d.requests)
      /\ Serving(a.requests) = q /\ a.results = d.results
      /\ Mail(transit', Response) = Mail(transit, Response)
  BY WindowMails
<1>2. PICK B : /\ B \subseteq Elements(q) /\ \A b \in B : b.hart = h
               /\ Mail(transit', Request) = Mail(transit, Request) \cup B
  BY WindowMails
<1>3. /\ queue' = queue /\ active' = active /\ response' = response /\ bytes' = bytes
      /\ ~AdapterThrows(h, sent) /\ DOMAIN adapter = Hart /\ Window(d, h)
  BY WindowKeeps DEF memoryVars, IInv
<1>4. Shared /\ Shared' /\ Views /\ Views'
  BY Shares, Viewed, PTL
<1>5. \A g \in Hart : g # h => adapter'[g] = adapter[g]
  BY <1>3 DEF AdapterTick
<1>6. \A g \in Hart \ {h} : SameCalls(g)
  BY <1>5, SameHart
<1> DEFINE c == IF State(h) = "MemoryWait" THEN <<RequestOf(h)>> ELSE <<>>
<1>7. /\ Calls(h) = [core |-> c, window |-> q] /\ Kept(h) = [core |-> <<>>, window |-> Column(d.results, "data")]
  BY <1>4 DEF Views
<1>8. c' = c
  BY DEF State, RequestOf, IsWrite, Part, Pending
<1>9. /\ Calls(h)' = [core |-> c, window |-> Serving(adapter'[h].requests)]
      /\ Kept(h)' = [core |-> <<>>, window |-> Column(adapter'[h].results, "data")]
  BY <1>4, <1>8 DEF Views
<1> HIDE DEF q, c
<1>10. CASE ~AdapterTakes(h)
  <2>1. adapter'[h] = a /\ inbox' = inbox
    BY <1>3, <1>10 DEF AdapterTick
  <2>2. /\ Asked(transit', inbox', queue', active') = Asked(transit, inbox, queue, active) \cup B
        /\ Replies(transit', response') = Replies(transit, response)
    BY <1>1, <1>2, <1>3, <2>1 DEF Asked, Replies
  <2>3. \A g : /\ Requests(g)' = Requests(g) \cup {b \in B : b.hart = g}
               /\ Responses(g)' = Responses(g)
    BY <1>4, <2>1, <2>2 DEF Shared
  <2>4. \A g \in Hart \ {h} : Requests(g)' \subseteq Requests(g)
    BY <1>2, <2>3
  <2>5. Others(h)
    BY <1>3, <1>6, <2>3, <2>4 DEF Others, Same, SameShares
  <2> HIDE DEF a, d
  <2>6. SameCalls(h)
    BY <1>1, <1>7, <1>9, <2>1 DEF SameCalls
  <2>7. Requests(h)' \subseteq Requests(h) \cup Elements(Calls(h)["window"])
    BY <1>2, <1>7, <2>3
  <2>8. QED
    BY <2>3, <2>5, <2>6, <2>7 DEF Sends
<1>11. CASE AdapterTakes(h)
  <2>1. /\ State(h) # "MemoryWait" /\ inbox[h][Response] # <<>>
        /\ Window(a, h) /\ r.hart = h /\ r.transaction \in SentIds(a)
        /\ \A i \in SentIds(a) : r.transaction <= i
    BY <1>11, WindowTakes
  <2>2. adapter'[h] = Completed(a, r) /\ inbox' = Consumed(inbox, h)
    BY <1>3, <1>11 DEF AdapterTick, Consumed
  <2>3. /\ \A g \in Hart : g # h => inbox'[g][Response] = inbox[g][Response]
        /\ inbox'[MemoryPort][Request] = inbox[MemoryPort][Request]
        /\ Elements(Contents(inbox[h][Response])) = Elements(Contents(inbox'[h][Response])) \cup {r}
        /\ r \in Responses(h)
    BY <2>1, <2>2, TakenShares
  <2> HIDE DEF a, r
  <2>4. /\ 1 \in DOMAIN a.requests /\ IdOf(a, 1) = r.transaction
        /\ Completed(a, r).requests = Tail(a.requests)
        /\ Depth = 1 => Completed(a, r).results = a.results
        /\ Depth > 1 => \E x : /\ Completed(a, r).results = Append(a.results, x)
                               /\ Fits(r, a.requests[1].request) => x.data = Number(r.data)
    BY <2>1, CompleteKeeps
  <2>5. /\ Asked(transit', inbox', queue', active') = Asked(transit, inbox, queue, active) \cup B
        /\ Replies(transit', response') = Replies(transit, response)
    BY <1>1, <1>2, <1>3, <2>3 DEF Asked, Replies
  <2>6. /\ \A g \in Hart : Requests(g)' = Requests(g) \cup {b \in B : b.hart = g}
        /\ \A g \in Hart : g # h => Responses(g)' = Responses(g)
        /\ Responses(h) = Responses(h)' \cup {r}
    BY <1>4, <2>3, <2>5 DEF Shared
  <2>7. \A g \in Hart \ {h} : Requests(g)' \subseteq Requests(g)
    BY <1>2, <2>6
  <2>8. Others(h)
    BY <1>3, <1>6, <2>6, <2>7 DEF Others, Same, SameShares
  <2>9. a.requests # <<>>
    BY <2>4, ProperEmpty
  <2>10. q # <<>> /\ Serving(Tail(a.requests)) = Tail(q) /\ q[1] = a.requests[1].request
    <3>1. /\ Serving(a.requests) # <<>> /\ Serving(Tail(a.requests)) = Tail(Serving(a.requests))
      BY <1>1, <2>9, ServingColumn
    <3>2. Serving(a.requests)[1] = a.requests[1].request
      BY <2>4 DEF Serving
    <3>3. QED
      BY <1>1, <3>1, <3>2
  <2>11. c = <<>>
    BY <2>1 DEF c
  <2>12. /\ Calls(h)["window"] # <<>> /\ Calls(h)'["window"] = Tail(Calls(h)["window"])
         /\ Calls(h)["window"][1] = a.requests[1].request
         /\ r.transaction = Calls(h)["window"][1].transaction
         /\ Calls(h)["core"] = <<>> /\ Calls(h)'["core"] = <<>> /\ Kept(h)["core"] = Kept(h)'["core"]
    BY <1>7, <1>9, <2>2, <2>4, <2>10, <2>11 DEF IdOf
  <2>13. Requests(h)' \subseteq Requests(h) \cup Elements(Calls(h)["window"])
    BY <1>2, <1>7, <2>6
  <2>14. Depth = 1 => Kept(h)'["window"] = Kept(h)["window"]
    BY <1>1, <1>7, <1>9, <2>2, <2>4
  <2>15. ASSUME Depth > 1
         PROVE  \E x : /\ Kept(h)'["window"] = Append(Kept(h)["window"], x)
                       /\ Fits(r, Calls(h)["window"][1]) => x = Number(r.data)
    <3>1. PICK z : /\ Completed(a, r).results = Append(a.results, z)
                   /\ Fits(r, a.requests[1].request) => z.data = Number(r.data)
      BY <2>4, <2>15
    <3>2. Column(Append(a.results, z), "data") = Append(Column(a.results, "data"), z["data"])
      BY <2>1, ColumnFacts DEF Window
    <3>3. Kept(h)'["window"] = Append(Kept(h)["window"], z.data)
      BY <1>1, <1>7, <1>9, <2>2, <3>1, <3>2
    <3>4. Fits(r, Calls(h)["window"][1]) => z.data = Number(r.data)
      BY <2>12, <3>1
    <3>5. WITNESS z.data
    <3>6. QED
      BY <3>3, <3>4
  <2>16. \A o \in Path \ {"window"} : Calls(h)[o] = <<>> /\ Calls(h)'[o] = <<>> /\ Kept(h)'[o] = Kept(h)[o]
    BY <2>12 DEF Path
  <2>17. Depth = 1 \/ Depth > 1
    BY HalfType
  <2>18. Takes(h, "window", r)
    BY <2>6, <2>8, <2>12, <2>13, <2>14, <2>15, <2>16, <2>17 DEF Takes
  <2>19. QED
    BY <2>18
<1>12. QED
  BY <1>10, <1>11

\* What any step is, in terms of calls, requests, responses and results.
Step ==
  \/ Quiet
  \/ \E q : Serves(q)
  \/ \E h \in Hart :
       \/ Pops(h) \/ Sends(h)
       \/ \E p \in Path : Begins(h, p) \/ \E r : Takes(h, p, r)

\* Every step of the system is one of these.
LEMMA Steps ==
  ASSUME IInv, [Next]_vars
  PROVE  Step
<1>1. CASE UNCHANGED <<core, adapter, busVars, memoryVars>>
  BY <1>1, NothingSteps DEF Step
<1>2. CASE UNCHANGED vars
  BY <1>1, <1>2 DEF vars
<1>3. CASE MemoryTurn
  BY <1>3, ControllerShares DEF Step
<1>4. ASSUME NEW h \in Hart, WindowTurn(h) PROVE Step
  <2>1. PICK sent \in BOOLEAN :
          /\ AdapterTick(h, sent)
          /\ core' = IF AdapterThrows(h, sent) THEN [core EXCEPT ![h] = Faulted(@)] ELSE core
    BY <1>4 DEF WindowTurn
  <2>2. UNCHANGED memoryVars
    BY <1>4 DEF WindowTurn
  <2>3. core' = core
    BY <2>1, <2>2, WindowKeeps
  <2>4. Sends(h) \/ \E r : Takes(h, "window", r)
    BY <2>1, <2>2, <2>3, WindowStepsTo
  <2>5. QED
    BY <2>4 DEF Step, Path
<1>5. ASSUME NEW h \in Hart, CoreTurn(h) PROVE Step
  <2>1. CoreTick(h) /\ UNCHANGED memoryVars
    BY <1>5 DEF CoreTurn
  <2>2. CASE UNCHANGED <<core, adapter, busVars>>
    BY <1>1, <2>1, <2>2
  <2>3. CASE OwnMove(h)
    BY <2>1, <2>3, OwnStepsTo DEF Step, Path
  <2>4. CASE IssueSend(h)
    BY <2>1, <2>4, IssueStepsTo DEF Step, Path
  <2>5. CASE Receive(h)
    BY <2>1, <2>5, ReceiveStepsTo DEF Step, Path
  <2>6. QED
    BY <2>1, <2>2, <2>3, <2>4, <2>5, CoreMoves
<1>6. CASE BusTurn
  <2>1. core' = core /\ adapter' = adapter /\ bytes' = bytes
    BY <1>6 DEF BusTurn, memoryVars
  <2>2. \A g : SameCalls(g)
    BY <2>1, SameHart
  <2>3. \A g \in Hart : SameShares(g)
    BY <1>6, BusShares
  <2>4. QED
    BY <2>1, <2>2, <2>3 DEF Step, Quiet, Same
<1>7. CASE RunEnded
  BY <1>2, <1>7 DEF RunEnded
<1>8. QED
  BY <1>2, <1>3, <1>4, <1>5, <1>6, <1>7 DEF Next

\* The calls and results are sequences, and an id names one call of a hart.
OneCall ==
  \A h \in Hart, p, o \in Path :
    \A x \in Elements(Calls(h)[p]), y \in Elements(Calls(h)[o]) :
      x.transaction = y.transaction => x = y /\ p = o
Ordered == \A h \in Hart, p \in Path : Proper(Calls(h)[p]) /\ Proper(Kept(h)[p])

\* What is under way for a hart is for one of its calls.
Expected ==
  \A h \in Hart : \A x \in UnderWay(h) :
    \E p \in Path : \E y \in Elements(Calls(h)[p]) : x.transaction = y.transaction

\* The invariant makes the calls and the results sequences.
LEMMA CallsOrdered == IInv => Ordered
<1> SUFFICES ASSUME IInv, NEW h \in Hart, NEW p \in Path
             PROVE  Proper(Calls(h)[p]) /\ Proper(Kept(h)[p])
  BY DEF Ordered
<1>1. Window(adapter[h], h)
  BY DEF IInv
<1>2. Proper(Calls(h)[p])
  <2>1. PICK n : Cut(Responses(h), Calls(h)[p], n)
    BY CutExists
  <2>2. QED
    BY <2>1 DEF Cut
<1>3. Kept(h)["core"] = <<>> /\ Kept(h)["window"] = Column(adapter[h].results, "data")
  BY Viewed DEF Views
<1>4. Proper(Column(adapter[h].results, "data"))
  BY <1>1, ColumnFacts DEF Window
<1>5. QED
  BY <1>2, <1>3, <1>4, ProperEmpty DEF Path

\* The invariant makes the ids of the calls of a hart distinct.
LEMMA CallsDistinct == IInv => OneCall
<1> SUFFICES ASSUME IInv, NEW h \in Hart, NEW p \in Path, NEW o \in Path,
                    NEW x \in Elements(Calls(h)[p]), NEW y \in Elements(Calls(h)[o]),
                    x.transaction = y.transaction
             PROVE  x = y /\ p = o
  BY DEF OneCall
<1> DEFINE c == Calls(h)["window"]
           e == Calls(h)["core"]
           b == RequestOf(h)
<1>1. /\ e = IF State(h) = "MemoryWait" THEN <<b>> ELSE <<>>
      /\ Proper(c)
      /\ \A i \in DOMAIN c : c[i].transaction \in Int
      /\ \A i, j \in DOMAIN c : i < j => c[i].transaction < c[j].transaction
      /\ State(h) = "MemoryWait" => c = <<>>
  BY CallFacts
<1> HIDE DEF c, e, b
<1>2. Elements(<<>>) = {} /\ Elements(<<b>>) = {b}
  BY ElementsOne
<1>3. \/ p = "window" /\ o = "window" /\ x \in Elements(c) /\ y \in Elements(c)
      \/ p = "core" /\ o = "core" /\ x \in Elements(e) /\ y \in Elements(e)
      \/ e # <<>> /\ c # <<>>
  BY <1>2 DEF Path, c, e
<1>4. ~(e # <<>> /\ c # <<>>)
  BY <1>1
<1>5. CASE p = "window" /\ o = "window" /\ x \in Elements(c) /\ y \in Elements(c)
  <2>1. PICK i \in DOMAIN c : x = c[i]
    BY <1>5 DEF Elements
  <2>2. PICK j \in DOMAIN c : y = c[j]
    BY <1>5 DEF Elements
  <2>3. Len(c) \in Nat /\ DOMAIN c = 1 .. Len(c)
    BY <1>1, ProperFacts
  <2>4. ~(i < j) /\ ~(j < i)
    BY <1>1, <2>1, <2>2
  <2>5. i = j
    BY <2>3, <2>4
  <2>6. QED
    BY <1>5, <2>1, <2>2, <2>5
<1>6. CASE p = "core" /\ o = "core" /\ x \in Elements(e) /\ y \in Elements(e)
  BY <1>1, <1>2, <1>6
<1>7. QED
  BY <1>3, <1>4, <1>5, <1>6

\* The invariant makes everything under way a request of a call or its response.
LEMMA CallsExpected == IInv => Expected
<1> SUFFICES ASSUME IInv, NEW h \in Hart, NEW x \in UnderWay(h)
             PROVE  \E p \in Path : \E y \in Elements(Calls(h)[p]) : x.transaction = y.transaction
  BY DEF Expected
<1>1. Matched(h) /\ x.transaction \in IdsUnderWay[h]
  BY UnderWayIds DEF IInv
<1>2. CASE State(h) = "MemoryWait"
  <2> DEFINE b == RequestOf(h)
  <2>1. b.transaction = core[h].id
    BY DEF RequestOf
  <2>2. Calls(h)["core"] = <<b>>
    BY <1>2, CallFacts
  <2> HIDE DEF b
  <2>3. b \in Elements(Calls(h)["core"])
    BY <2>2, ElementsOne
  <2>4. x.transaction = b.transaction
    BY <1>1, <1>2, <2>1 DEF Matched
  <2>5. QED
    BY <2>3, <2>4 DEF Path
<1>3. CASE State(h) # "MemoryWait"
  <2>1. x.transaction \in SentIds(adapter[h])
    BY <1>1, <1>3 DEF Matched
  <2>2. PICK i \in DOMAIN adapter[h].requests : x.transaction = adapter[h].requests[i].request.transaction
    BY <2>1 DEF SentIds, IdOf
  <2> DEFINE c == Calls(h)["window"]
  <2>3. DOMAIN c = DOMAIN adapter[h].requests /\ \A j \in DOMAIN c : c[j] = adapter[h].requests[j].request
    BY CallFacts
  <2>4. c[i] \in Elements(c) /\ x.transaction = c[i].transaction
    BY <2>2, <2>3 DEF Elements
  <2>5. QED
    BY <2>4 DEF Path
<1>4. QED
  BY <1>2, <1>3

-------------------------------------------------------------------------------
\* Every request under way is a call, every response answers its call, and a window that
\* holds one command at a time keeps no results.
Truthful(h) ==
  /\ \A q \in Requests(h) : \E p \in Path : q \in Elements(Calls(h)[p])
  /\ \A r \in Responses(h), p \in Path : \A q \in Elements(Calls(h)[p]) :
       r.transaction = q.transaction => Fits(r, q)
  /\ Depth = 1 => Kept(h)["window"] = <<>>

RInv == \A h \in Hart : Truthful(h)

\* An access within the memory: its size, and the data it carries.
LEMMA AccessFacts ==
  ASSUME NEW q, AccessOf(q) \in Accesses
  PROVE  /\ q.op \in {"Read", "Write"} /\ q.address \in Address /\ q.size \in {1, 2, 4, 8}
         /\ q.op = "Write" => DOMAIN q.data = 1 .. q.size
<1> DEFINE a == AccessOf(q)
<1>1. a.op = q.op /\ a.address = q.address /\ a.size = q.size /\ a.data = q.data
  BY DEF AccessOf
<1> HIDE DEF a
<1>2. CASE a \in [op : {"Read"}, address : Address, size : AccessSize, data : {<<>>}]
  BY <1>1, <1>2, SizeAssumption
<1>3. ASSUME NEW n \in AccessSize,
             a \in [op : {"Write"}, address : Address, size : {n}, data : [1 .. n -> Byte]]
      PROVE  /\ q.op = "Write" /\ q.address \in Address /\ q.size \in {1, 2, 4, 8}
             /\ DOMAIN q.data = 1 .. q.size
  BY <1>1, <1>3, SizeAssumption
<1>4. QED
  BY <1>2, <1>3 DEF Accesses, a

\* Every call is within the memory.
WithinMemory ==
  \A h \in Hart, p \in Path : \A i \in DOMAIN Calls(h)[p] : AccessOf(Calls(h)[p][i]) \in Accesses

\* What a call asks for is within the memory.
LEMMA CallWithin ==
  ASSUME WithinMemory, NEW h \in Hart, NEW p \in Path, NEW q \in Elements(Calls(h)[p])
  PROVE  AccessOf(q) \in Accesses
BY DEF WithinMemory, Elements

\* The data of the response to a request is as long as the request asks for.
LEMMA ResponseFits ==
  ASSUME NEW q, AccessOf(q) \in Accesses
  PROVE  Fits(ResponseTo(q), q)
<1>1. q.op \in {"Read", "Write"} /\ q.size \in {1, 2, 4, 8}
  BY AccessFacts
<1> DEFINE d == Result(bytes, q)
<1>2. ResponseTo(q).data = d
  BY DEF ResponseTo
<1>3. CASE q.op = "Read"
  <2> DEFINE n == q.size
  <2>1. d = [i \in 1 .. n |-> bytes[q.address + i - 1]]
    BY <1>3 DEF Result, Read
  <2>2. d = [i \in 1 .. n |-> d[i]]
    BY <2>1
  <2>3. n \in Nat
    BY <1>1
  <2> HIDE DEF d, n
  <2>4. Len(d) = n
    BY <2>2, <2>3, ProperFunction
  <2>5. QED
    BY <1>2, <1>3, <2>4 DEF Fits, n
<1>4. CASE q.op = "Write"
  <2>1. d = <<>>
    BY <1>4 DEF Result
  <2>2. Len(<<>>) = 0
    BY ProperEmpty, ProperFacts
  <2>3. QED
    BY <1>2, <1>4, <2>1, <2>2 DEF Fits
<1>5. QED
  BY <1>1, <1>3, <1>4

\* The hart that a step does not concern.
LEMMA SameTruth ==
  ASSUME NEW h, Truthful(h), Same(h)
  PROVE  Truthful(h)'
BY DEF Truthful, Same, SameCalls, SameShares

\* The elements of a sequence without its first, and the others of its elements.
LEMMA TailElements ==
  ASSUME NEW s, Proper(s), s # <<>>
  PROVE  Elements(s) = {s[1]} \cup Elements(Tail(s))
BY ElementFacts, ProperFacts

\* A new call has no response yet.
LEMMA BeginsTruth ==
  ASSUME IInv, OneCall', NEW h \in Hart, NEW p \in Path, Truthful(h), Begins(h, p)
  PROVE  Truthful(h)'
<1>1. PICK x : /\ Calls(h)'[p] = Append(Calls(h)[p], x)
               /\ Requests(h)' \subseteq Requests(h) \cup {x}
  BY DEF Begins
<1>2. Ordered /\ Expected
  BY CallsOrdered, CallsExpected
<1>3. Elements(Calls(h)'[p]) = Elements(Calls(h)[p]) \cup {x}
  BY <1>1, <1>2, ElementFacts DEF Ordered
<1>4. /\ \A o \in Path \ {p} : Calls(h)[o] = <<>> /\ Calls(h)'[o] = <<>>
      /\ Kept(h)' = Kept(h) /\ Responses(h)' = Responses(h)
  BY DEF Begins
<1>5. \A o \in Path : Elements(Calls(h)[o]) \subseteq Elements(Calls(h)'[o])
  BY <1>3, <1>4
<1>6. \A o \in Path : o # p => Elements(Calls(h)'[o]) = {}
  BY <1>4, ElementsOne
<1>7. \A q \in Requests(h)' : \E o \in Path : q \in Elements(Calls(h)'[o])
  <2>1. ASSUME NEW q \in Requests(h) PROVE \E o \in Path : q \in Elements(Calls(h)'[o])
    BY <1>5 DEF Truthful
  <2>2. QED
    BY <1>1, <1>3, <2>1
<1>8. ASSUME NEW r \in Responses(h), NEW o \in Path, NEW q \in Elements(Calls(h)'[o]),
             r.transaction = q.transaction
      PROVE  Fits(r, q)
  <2>1. o = p
    BY <1>6, <1>8
  <2>2. CASE q \in Elements(Calls(h)[p])
    BY <1>8, <2>2 DEF Truthful
  <2>3. CASE q = x
    <3>1. r \in UnderWay(h)
      BY DEF UnderWay
    <3>2. PICK l \in Path : \E y \in Elements(Calls(h)[l]) : r.transaction = y.transaction
      BY <1>2, <3>1 DEF Expected
    <3>3. PICK y \in Elements(Calls(h)[l]) : r.transaction = y.transaction
      BY <3>2
    <3>4. y \in Elements(Calls(h)'[l])
      BY <1>5
    <3>5. y = q
      <4>1. \A f, g \in Path : \A u \in Elements(Calls(h)'[f]), v \in Elements(Calls(h)'[g]) :
               u.transaction = v.transaction => u = v
        BY DEF OneCall
      <4>2. QED
        BY <1>8, <3>3, <3>4, <4>1
    <3>6. QED
      BY <1>8, <3>3, <3>5 DEF Truthful
  <2>4. QED
    BY <1>3, <2>1, <2>2, <2>3
<1>9. QED
  BY <1>4, <1>7, <1>8 DEF Truthful

\* A response taken leaves with its call.
LEMMA TakesTruth ==
  ASSUME IInv, Expected', NEW h \in Hart, NEW p \in Path, NEW r, Truthful(h), Takes(h, p, r)
  PROVE  Truthful(h)'
<1> DEFINE c == Calls(h)[p]
<1>1. /\ \A o \in Path \ {p} : Calls(h)[o] = <<>> /\ Calls(h)'[o] = <<>> /\ Kept(h)'[o] = Kept(h)[o]
      /\ c # <<>> /\ Calls(h)'[p] = Tail(c)
      /\ Responses(h) = Responses(h)' \cup {r}
      /\ Requests(h)' \subseteq Requests(h) \cup Elements(c)
  BY DEF Takes
<1>2. Ordered /\ OneCall
  BY CallsOrdered, CallsDistinct
<1>3. Proper(c)
  BY <1>2 DEF Ordered
<1>4. Elements(<<>>) = {}
  BY ElementsOne
<1>5. \A o \in Path : o # p => Elements(Calls(h)[o]) = {} /\ Elements(Calls(h)'[o]) = {}
  BY <1>1, <1>4
<1>6. Elements(Calls(h)'[p]) \subseteq Elements(c)
  <2> HIDE DEF c
  <2>1. Elements(c) = {c[1]} \cup Elements(Tail(c))
    BY <1>1, <1>3, TailElements
  <2>2. QED
    BY <1>1, <2>1
<1>7. ASSUME NEW q \in Requests(h)' PROVE \E o \in Path : q \in Elements(Calls(h)'[o])
  <2>1. q \in Elements(c)
    BY <1>1, <1>5 DEF Truthful
  <2>2. PICK o \in Path : \E y \in Elements(Calls(h)'[o]) : q.transaction = y.transaction
    BY DEF Expected, UnderWay
  <2>3. PICK y \in Elements(Calls(h)'[o]) : q.transaction = y.transaction
    BY <2>2
  <2>4. o = p
    BY <1>5
  <2>5. q = y
    BY <1>2, <1>6, <2>1, <2>3, <2>4 DEF OneCall
  <2>6. QED
    BY <2>3, <2>5
<1>8. ASSUME NEW s \in Responses(h)', NEW o \in Path, NEW q \in Elements(Calls(h)'[o]),
             s.transaction = q.transaction
      PROVE  Fits(s, q)
  <2>1. s \in Responses(h) /\ o = p /\ q \in Elements(c)
    BY <1>1, <1>5, <1>6
  <2>2. QED
    BY <1>8, <2>1 DEF Truthful
<1>9. Depth = 1 => Kept(h)'["window"] = <<>>
  <2>1. Depth = 1 => Kept(h)'[p] = Kept(h)[p]
    BY DEF Takes
  <2>2. "window" \in Path
    BY DEF Path
  <2>3. QED
    BY <1>1, <2>1, <2>2 DEF Truthful
<1>10. QED
  BY <1>7, <1>8, <1>9 DEF Truthful

\* The memory answers what it is asked.
LEMMA ServesTruth ==
  ASSUME IInv, WithinMemory, NEW q, Serves(q), NEW h \in Hart, Truthful(h)
  PROVE  Truthful(h)'
<1> DEFINE a == ResponseTo(q)
<1>1. /\ q.hart \in Hart /\ q \in Requests(q.hart)
      /\ SameCalls(h) /\ Requests(h)' \subseteq Requests(h)
      /\ Responses(h)' = Responses(h) \cup {r \in {a} : h = q.hart}
  BY DEF Serves
<1>2. a.transaction = q.transaction
  BY DEF ResponseTo
<1>3. OneCall
  BY CallsDistinct
<1> HIDE DEF a
<1>4. ASSUME h = q.hart, NEW p \in Path, NEW x \in Elements(Calls(h)[p]), a.transaction = x.transaction
      PROVE  Fits(a, x)
  <2>1. PICK o \in Path : q \in Elements(Calls(h)[o])
    BY <1>1, <1>4 DEF Truthful
  <2>2. q.transaction = x.transaction
    BY <1>2, <1>4
  <2>3. q = x
    BY <1>3, <2>1, <2>2 DEF OneCall
  <2>4. QED
    BY <2>1, <2>3, CallWithin, ResponseFits DEF a
<1>5. QED
  BY <1>1, <1>4 DEF Truthful, SameCalls

\* Every step keeps requests and responses true to the calls.
LEMMA StepTruth ==
  ASSUME IInv, RInv, WithinMemory, [Next]_vars
  PROVE  RInv'
<1>1. IInv'
  BY StepKeeps
<1>2. OneCall' /\ Expected'
  BY <1>1, CallsDistinct, CallsExpected, PTL
<1> SUFFICES ASSUME NEW g \in Hart PROVE Truthful(g)'
  BY DEF RInv
<1>3. Truthful(g)
  BY DEF RInv
<1>4. Step
  BY Steps
<1>5. CASE Same(g)
  BY <1>3, <1>5, SameTruth
<1>6. CASE Quiet
  BY <1>5, <1>6 DEF Quiet
<1>7. ASSUME NEW q, Serves(q) PROVE Truthful(g)'
  BY <1>3, <1>7, ServesTruth
<1>8. ASSUME NEW h \in Hart, Others(h), g # h PROVE Truthful(g)'
  BY <1>5, <1>8 DEF Others
<1>9. ASSUME NEW h \in Hart, Pops(h) PROVE Truthful(g)'
  <2>1. CASE g = h
    BY <1>3, <1>9, <2>1 DEF Pops, SameShares, Truthful
  <2>2. QED
    BY <1>8, <1>9, <2>1 DEF Pops
<1>10. ASSUME NEW h \in Hart, Sends(h) PROVE Truthful(g)'
  <2>1. CASE g = h
    <3>1. "window" \in Path
      BY DEF Path
    <3>2. QED
      BY <1>3, <1>10, <2>1, <3>1 DEF Sends, SameCalls, Truthful
  <2>2. QED
    BY <1>8, <1>10, <2>1 DEF Sends
<1>11. ASSUME NEW h \in Hart, NEW p \in Path, Begins(h, p) PROVE Truthful(g)'
  <2>1. CASE g = h
    BY <1>2, <1>3, <1>11, <2>1, BeginsTruth
  <2>2. QED
    BY <1>8, <1>11, <2>1 DEF Begins
<1>12. ASSUME NEW h \in Hart, NEW p \in Path, NEW r, Takes(h, p, r) PROVE Truthful(g)'
  <2>1. CASE g = h
    BY <1>2, <1>3, <1>12, <2>1, TakesTruth
  <2>2. QED
    BY <1>8, <1>12, <2>1 DEF Takes
<1>13. QED
  BY <1>4, <1>6, <1>7, <1>9, <1>10, <1>11, <1>12 DEF Step

\* A hart has calls along one path at a time, each with an id of its own.
OnePath == \A h \in Hart : Calls(h)["core"] = <<>> \/ Calls(h)["window"] = <<>>
OnePlace ==
  \A h \in Hart, p \in Path : \A i, j \in DOMAIN Calls(h)[p] :
    Calls(h)[p][i].transaction = Calls(h)[p][j].transaction => i = j

\* The invariant leaves a hart one path at a time, and each call its own id.
LEMMA CallsApart == IInv => OnePath /\ OnePlace
<1> SUFFICES ASSUME IInv PROVE OnePath /\ OnePlace
  OBVIOUS
<1>1. ASSUME NEW h \in Hart PROVE Calls(h)["core"] = <<>> \/ Calls(h)["window"] = <<>>
  BY CallFacts
<1>2. ASSUME NEW h \in Hart, NEW p \in Path, NEW i \in DOMAIN Calls(h)[p], NEW j \in DOMAIN Calls(h)[p],
             Calls(h)[p][i].transaction = Calls(h)[p][j].transaction
      PROVE  i = j
  <2>1. CASE p = "window"
    <3> DEFINE c == Calls(h)["window"]
    <3>1. /\ Proper(c) /\ \A k \in DOMAIN c : c[k].transaction \in Int
          /\ \A k, l \in DOMAIN c : k < l => c[k].transaction < c[l].transaction
      BY CallFacts
    <3> HIDE DEF c
    <3>2. DOMAIN c = 1 .. Len(c) /\ Len(c) \in Nat /\ i \in DOMAIN c /\ j \in DOMAIN c
      BY <2>1, <3>1, ProperFacts DEF c
    <3>3. ~(i < j) /\ ~(j < i)
      BY <1>2, <2>1, <3>1, <3>2 DEF c
    <3>4. QED
      BY <3>2, <3>3
  <2>2. CASE p = "core"
    <3> DEFINE b == RequestOf(h)
    <3>1. Calls(h)["core"] = <<b>> \/ Calls(h)["core"] = <<>>
      BY CallFacts
    <3> HIDE DEF b
    <3>2. DOMAIN <<b>> = {1} /\ DOMAIN <<>> = {}
      BY ProperOne, ProperEmpty
    <3>3. QED
      BY <2>2, <3>1, <3>2
  <2>3. QED
    BY <2>1, <2>2 DEF Path
<1>3. QED
  BY <1>1, <1>2 DEF OnePath, OnePlace

\* The response with an id is the only one.
Valued == \A h \in Hart : \A a \in Responses(h) : ValueOf(Responses(h), a.transaction) = Number(a.data)

\* The invariant leaves one response for an id.
LEMMA ValueFacts == IInv => Valued
<1> SUFFICES ASSUME IInv, NEW h \in Hart, NEW a \in Responses(h)
             PROVE  ValueOf(Responses(h), a.transaction) = Number(a.data)
  BY DEF Valued
<1> DEFINE b == CHOOSE x \in Responses(h) : x.transaction = a.transaction
<1>1. b \in Responses(h) /\ b.transaction = a.transaction
  OBVIOUS
<1> HIDE DEF b
<1>2. a \in UnderWay(h) /\ b \in UnderWay(h)
  BY <1>1 DEF UnderWay
<1>3. a = b
  BY <1>1, <1>2, UnderWayIds
<1>4. QED
  BY <1>3 DEF ValueOf, b

\* Along a path with no calls nothing is awaited, and what is obtained is what is kept.
Vacant ==
  \A h \in Hart, p \in Path :
    Calls(h)[p] = <<>> /\ Proper(Kept(h)[p]) => Awaited(h, p) = <<>> /\ Obtained(h, p) = Kept(h)[p]

\* With no calls both parts of the calls are empty.
LEMMA NothingCalled == Vacant
<1> SUFFICES ASSUME NEW h \in Hart, NEW p \in Path, Calls(h)[p] = <<>>, Proper(Kept(h)[p])
             PROVE  Awaited(h, p) = <<>> /\ Obtained(h, p) = Kept(h)[p]
  BY DEF Vacant
<1> DEFINE R == Responses(h)
           e == <<>>
           w == Waits(e, 0)
           v == Values(R, e, 0)
<1>1. Proper(e) /\ Len(e) = 0 /\ DOMAIN e = {}
  BY ProperEmpty, ProperFacts
<1> HIDE DEF e
<1>2. Cut(R, e, 0)
  BY <1>1 DEF Cut
<1>3. Awaited(h, p) = w /\ Obtained(h, p) = Kept(h)[p] \o v
  BY <1>2, Shown DEF e
<1>4. Parted(R, e, Len(e), 0, w, v)
  BY <1>1, PartsFacts
<1> HIDE DEF w, v
<1>5. Proper(w) /\ Len(w) = 0 /\ Proper(v) /\ Len(v) = 0
  BY <1>1, <1>4 DEF Parted
<1>6. w = <<>> /\ v = <<>>
  BY <1>5, ProperFacts
<1>7. Kept(h)[p] \o <<>> = Kept(h)[p]
  BY ConcatEmptySeq DEF Proper
<1>8. QED
  BY <1>3, <1>6, <1>7

-------------------------------------------------------------------------------
(***************************************************************************)
(* The steps of OrderedMemory.                                             *)
(***************************************************************************)
Open == [h \in Hart |-> [p \in Path |-> Awaited(h, p)]]
Back == [h \in Hart |-> [p \in Path |-> Obtained(h, p)]]

SameAt(h, p) == Awaited(h, p)' = Awaited(h, p) /\ Obtained(h, p)' = Obtained(h, p)
Elsewhere(h, p) == \A g \in Hart, o \in Path : g # h \/ o # p => SameAt(g, o)

\* A step that concerns one path of one hart updates what is awaited and obtained there.
LEMMA Updates ==
  ASSUME NEW h \in Hart, NEW p \in Path, Elsewhere(h, p)
  PROVE  /\ Open' = [Open EXCEPT ![h][p] = Awaited(h, p)']
         /\ Back' = [Back EXCEPT ![h][p] = Obtained(h, p)']
         /\ Open[h][p] = Awaited(h, p) /\ Back[h][p] = Obtained(h, p)
<1>1. /\ Open' = [g \in Hart |-> [o \in Path |-> Awaited(g, o)']]
      /\ Back' = [g \in Hart |-> [o \in Path |-> Obtained(g, o)']]
  BY DEF Open, Back
<1>2. \A g \in Hart, o \in Path : g # h \/ o # p =>
        Awaited(g, o)' = Awaited(g, o) /\ Obtained(g, o)' = Obtained(g, o)
  BY DEF Elsewhere, SameAt
<1>3. Open' = [Open EXCEPT ![h][p] = Awaited(h, p)']
  BY <1>1, <1>2 DEF Open
<1>4. Back' = [Back EXCEPT ![h][p] = Obtained(h, p)']
  BY <1>1, <1>2 DEF Back
<1>5. QED
  BY <1>3, <1>4 DEF Open, Back

\* In terms of Open and Back the mapped variables of OrderedMemory.
LEMMA CallStep ==
  ASSUME NEW h \in Hart, NEW p \in Path, Elsewhere(h, p), bytes' = bytes,
         \A o \in Path \ {p} : Awaited(h, o) = <<>>,
         NEW a \in Accesses, Awaited(h, p)' = Append(Awaited(h, p), a),
         Proper(Awaited(h, p)), Obtained(h, p)' = Obtained(h, p)
  PROVE  Memory!Call(h, p)
<1>1. /\ Open' = [Open EXCEPT ![h][p] = Append(@, a)] /\ Back' = Back
  <2>1. /\ Open' = [Open EXCEPT ![h][p] = Awaited(h, p)']
        /\ Back' = [Back EXCEPT ![h][p] = Obtained(h, p)']
        /\ Open[h][p] = Awaited(h, p) /\ Back[h][p] = Obtained(h, p)
    BY Updates
  <2>2. Back = [Back EXCEPT ![h][p] = Back[h][p]]
    BY DEF Back
  <2>3. QED
    BY <2>1, <2>2
<1>2. \A o \in Path \ {p} : Open[h][o] = <<>>
  BY DEF Open
<1>3. Append(Awaited(h, p), a) # Awaited(h, p)
  <2> DEFINE s == Awaited(h, p)
             t == Append(s, a)
  <2>1. Len(t) = Len(s) + 1 /\ Len(s) \in Nat
    BY AppendFacts, ProperFacts
  <2> HIDE DEF s, t
  <2>2. t # s
    BY <2>1
  <2>3. QED
    BY <2>2 DEF s, t
<1>4. Open'[h][p] = Awaited(h, p)' /\ Open[h][p] = Awaited(h, p)
  BY DEF Open
<1>5. Open' # Open
  BY <1>3, <1>4
<1>6. QED
  BY <1>1, <1>2, <1>5 DEF Memory!Call, Open, Back

\* What the request of a call does to the memory is what its access does.
LEMMA SameEffect ==
  ASSUME NEW q, AccessOf(q) \in Accesses
  PROVE  /\ Effect(bytes, q) = Memory!Effect(bytes, AccessOf(q))
         /\ Result(bytes, q) = Memory!Result(bytes, AccessOf(q))
<1> DEFINE a == AccessOf(q)
<1>1. a.op = q.op /\ a.address = q.address /\ a.size = q.size /\ a.data = q.data
  BY DEF AccessOf
<1> HIDE DEF a
<1>2. q.op = "Write" => DOMAIN q.data = 1 .. q.size
  BY AccessFacts
<1> DEFINE x0 == q.address
           l == q.size
<1>3. x0 \in Nat /\ l \in Nat /\ Address \subseteq Nat
  <2>1. x0 \in Address /\ l \in {1, 2, 4, 8}
    BY AccessFacts
  <2>2. Address \subseteq Nat
    BY SystemAssumption
  <2> HIDE DEF x0, l
  <2>3. l \in Nat
    BY <2>1
  <2>4. x0 \in Nat
    BY <2>1, <2>2
  <2>5. QED
    BY <2>2, <2>3, <2>4
<1>4. Result(bytes, q) = Memory!Result(bytes, a)
  BY <1>1 DEF Result, Memory!Result, Read
<1>5. CASE q.op = "Write"
  <2>1. \A x \in Address :
          x - q.address + 1 \in 1 .. q.size <=> x \in q.address .. q.address + q.size - 1
    BY <1>3
  <2>2. Effect(bytes, q) = [x \in Address |->
          IF x - q.address + 1 \in 1 .. q.size THEN q.data[x - q.address + 1] ELSE bytes[x]]
    BY <1>2, <1>5 DEF Effect, Write
  <2>3. Memory!Effect(bytes, a) = [x \in Address |->
          IF x \in q.address .. q.address + q.size - 1
            THEN q.data[x - q.address + 1] ELSE bytes[x]]
    BY <1>1, <1>5 DEF Memory!Effect, Memory!Span
  <2>4. QED
    BY <1>4, <2>1, <2>2, <2>3 DEF a
<1>6. CASE q.op # "Write"
  BY <1>1, <1>4, <1>6 DEF Effect, Memory!Effect, a
<1>7. QED
  BY <1>5, <1>6

\* The memory performs an access: the first that waits, with its value returned last.
LEMMA PerformStep ==
  ASSUME NEW h \in Hart, NEW p \in Path, Elsewhere(h, p),
         NEW q, AccessOf(q) \in Accesses, bytes' = Effect(bytes, q),
         Awaited(h, p) # <<>>, Head(Awaited(h, p)) = AccessOf(q),
         Awaited(h, p)' = Tail(Awaited(h, p)),
         Obtained(h, p)' = Append(Obtained(h, p), Number(Result(bytes, q)))
  PROVE  Memory!Perform(h, p)
<1> DEFINE a == AccessOf(q)
<1>1. /\ Open' = [Open EXCEPT ![h][p] = Awaited(h, p)']
      /\ Back' = [Back EXCEPT ![h][p] = Obtained(h, p)']
      /\ Open[h][p] = Awaited(h, p) /\ Back[h][p] = Obtained(h, p)
  BY Updates
<1>2. /\ bytes' = Memory!Effect(bytes, a)
      /\ Result(bytes, q) = Memory!Result(bytes, a)
  BY SameEffect
<1> HIDE DEF a
<1>3. Open[h][p] # <<>> /\ Head(Open[h][p]) = a
  BY <1>1 DEF a
<1>4. /\ Open' = [Open EXCEPT ![h][p] = Tail(@)]
      /\ Back' = [Back EXCEPT ![h][p] = Append(@, Number(Memory!Result(bytes, a)))]
  BY <1>1, <1>2
<1>5. QED
  BY <1>2, <1>3, <1>4 DEF Memory!Perform, Open, Back

\* A value returned is collected: the first.
LEMMA CollectStep ==
  ASSUME NEW h \in Hart, NEW p \in Path, Elsewhere(h, p), bytes' = bytes,
         Awaited(h, p)' = Awaited(h, p), Obtained(h, p) # <<>>,
         Obtained(h, p)' = Tail(Obtained(h, p))
  PROVE  Memory!Collect(h, p)
<1>1. /\ Open' = [Open EXCEPT ![h][p] = Awaited(h, p)']
      /\ Back' = [Back EXCEPT ![h][p] = Obtained(h, p)']
      /\ Open[h][p] = Awaited(h, p) /\ Back[h][p] = Obtained(h, p)
  BY Updates
<1>2. Open = [Open EXCEPT ![h][p] = Open[h][p]]
  BY DEF Open
<1>3. Open' = Open /\ Back' = [Back EXCEPT ![h][p] = Tail(@)] /\ Back[h][p] # <<>>
  BY <1>1, <1>2
<1>4. QED
  BY <1>3 DEF Memory!Collect, Open, Back

\* The bytes and what every path shows stay: nothing happens in the memory.
LEMMA StutterStep ==
  ASSUME bytes' = bytes, \A h \in Hart, p \in Path : SameAt(h, p)
  PROVE  UNCHANGED Memory!vars
<1>1. Open' = Open /\ Back' = Back
  BY DEF Open, Back, SameAt
<1>2. QED
  BY <1>1 DEF Memory!vars, Open, Back

\* What the mapped variables show, at any cut.
ShownAt ==
  \A h \in Hart, p \in Path : \A n :
    Cut(Responses(h), Calls(h)[p], n) =>
      /\ Awaited(h, p) = Waits(Calls(h)[p], n)
      /\ Obtained(h, p) = Kept(h)[p] \o Values(Responses(h), Calls(h)[p], n)
Cuts == \A h \in Hart, p \in Path : \E n : Cut(Responses(h), Calls(h)[p], n)

\* What holds of the calls, requests and responses before and after every step.
Sane ==
  /\ OneCall /\ OnePath /\ OnePlace /\ Ordered /\ Expected /\ Valued
  /\ Vacant /\ ShownAt /\ Cuts

\* All of this follows from the invariant.
LEMMA Sanity == IInv => Sane
<1>1. ShownAt
  BY Shown DEF ShownAt
<1>2. IInv => Cuts
  BY CutExists DEF Cuts
<1>3. QED
  BY <1>1, <1>2, CallsDistinct, CallsApart, CallsOrdered, CallsExpected, ValueFacts, NothingCalled
     DEF Sane

\* The same calls, kept results and responses show the same.
LEMMA SameShown ==
  ASSUME Sane, Sane', NEW h \in Hart, NEW p \in Path,
         Calls(h)'[p] = Calls(h)[p], Kept(h)'[p] = Kept(h)[p], Responses(h)' = Responses(h)
  PROVE  SameAt(h, p)
<1>1. PICK n : Cut(Responses(h), Calls(h)[p], n)
  BY DEF Sane, Cuts
<1>2. /\ Awaited(h, p) = Waits(Calls(h)[p], n)
      /\ Obtained(h, p) = Kept(h)[p] \o Values(Responses(h), Calls(h)[p], n)
  BY <1>1 DEF Sane, ShownAt
<1>3. Cut(Responses(h)', Calls(h)'[p], n)
  BY <1>1
<1>4. /\ Awaited(h, p)' = Waits(Calls(h)'[p], n)
      /\ Obtained(h, p)' = Kept(h)'[p] \o Values(Responses(h)', Calls(h)'[p], n)
  BY <1>3 DEF Sane, ShownAt
<1>5. QED
  BY <1>2, <1>4 DEF SameAt

\* So does a path without calls, whatever the responses.
LEMMA VacantShown ==
  ASSUME Sane, Sane', NEW h \in Hart, NEW p \in Path,
         Calls(h)[p] = <<>>, Calls(h)'[p] = <<>>, Kept(h)'[p] = Kept(h)[p]
  PROVE  SameAt(h, p) /\ Awaited(h, p) = <<>>
<1>1. Awaited(h, p) = <<>> /\ Obtained(h, p) = Kept(h)[p]
  BY DEF Sane, Vacant, Ordered
<1>2. Awaited(h, p)' = <<>> /\ Obtained(h, p)' = Kept(h)'[p]
  BY DEF Sane, Vacant, Ordered
<1>3. QED
  BY <1>1, <1>2 DEF SameAt

\* A hart that the step does not concern.
LEMMA OthersShown ==
  ASSUME Sane, Sane', NEW h \in Hart, Same(h)
  PROVE  \A p \in Path : SameAt(h, p)
BY SameShown DEF Same, SameCalls, SameShares

\* A step that touches no call is no step of the memory.
LEMMA QuietRefines ==
  ASSUME Sane, Sane', Quiet
  PROVE  UNCHANGED Memory!vars
BY OthersShown, StutterStep DEF Quiet

\* Nor is the sending of a request: its call was made before.
LEMMA SendsRefines ==
  ASSUME Sane, Sane', NEW h \in Hart, Sends(h)
  PROVE  UNCHANGED Memory!vars
<1>1. \A g \in Hart \ {h}, p \in Path : SameAt(g, p)
  BY OthersShown DEF Sends, Others
<1>2. \A p \in Path : SameAt(h, p)
  BY SameShown DEF Sends, SameCalls
<1>3. QED
  BY <1>1, <1>2, StutterStep DEF Sends, Others

\* A result popped is collected.
LEMMA PopsRefines ==
  ASSUME Sane, Sane', NEW h \in Hart, Pops(h)
  PROVE  Memory!Collect(h, "window")
<1> DEFINE p == "window"
           R == Responses(h)
           c == Calls(h)[p]
           k == Kept(h)[p]
<1>1. /\ p \in Path /\ "core" \in Path /\ \A o \in Path : o # p => o = "core"
  BY DEF Path
<1>2. \A g \in Hart \ {h}, o \in Path : SameAt(g, o)
  BY OthersShown DEF Pops, Others
<1>3. SameAt(h, "core")
  BY <1>1, SameShown DEF Pops, SameShares
<1>4. Elsewhere(h, p)
  BY <1>1, <1>2, <1>3 DEF Elsewhere
<1>5. /\ Calls(h)'[p] = c /\ Responses(h)' = R /\ k # <<>> /\ Kept(h)'[p] = Tail(k) /\ bytes' = bytes
  BY DEF Pops, SameShares, Others
<1>6. PICK n : Cut(R, c, n)
  BY <1>1 DEF Sane, Cuts
<1> DEFINE v == Values(R, c, n)
<1>7. Awaited(h, p) = Waits(c, n) /\ Obtained(h, p) = k \o v
  BY <1>1, <1>6 DEF Sane, ShownAt
<1>8. Awaited(h, p)' = Waits(c, n) /\ Obtained(h, p)' = Tail(k) \o v
  <2>1. Cut(Responses(h)', Calls(h)'[p], n)
    BY <1>5, <1>6
  <2>2. /\ Awaited(h, p)' = Waits(Calls(h)'[p], n)
        /\ Obtained(h, p)' = Kept(h)'[p] \o Values(Responses(h)', Calls(h)'[p], n)
    BY <1>1, <2>1 DEF Sane, ShownAt
  <2>3. QED
    BY <1>5, <2>2
<1>9. Proper(k)
  BY <1>1 DEF Sane, Ordered
<1>10. Proper(v)
  <2>1. Parted(R, c, Len(c), n, Waits(c, n), v)
    BY <1>6, PartsFacts DEF Cut
  <2>2. QED
    BY <2>1 DEF Parted
<1> HIDE DEF k, v, p
<1>11. k \o v # <<>> /\ Tail(k \o v) = Tail(k) \o v
  BY <1>5, <1>9, <1>10, JoinTail
<1>12. Memory!Collect(h, p)
  BY <1>1, <1>4, <1>5, <1>7, <1>8, <1>11, CollectStep
<1>13. QED
  BY <1>12 DEF p

\* A call made is a call of the memory.
LEMMA BeginsRefines ==
  ASSUME Sane, Sane', WithinMemory', NEW h \in Hart, NEW p \in Path, Begins(h, p)
  PROVE  Memory!Call(h, p)
<1> DEFINE R == Responses(h)
           c == Calls(h)[p]
           k == Kept(h)[p]
<1>1. PICK x : Calls(h)'[p] = Append(c, x)
  BY DEF Begins
<1>2. /\ Responses(h)' = R /\ Kept(h)' = Kept(h) /\ bytes' = bytes
      /\ \A o \in Path \ {p} : Calls(h)[o] = <<>> /\ Calls(h)'[o] = <<>>
      /\ \A g \in Hart \ {h} : Same(g)
  BY DEF Begins, Others
<1>3. \A o \in Path \ {p} : SameAt(h, o) /\ Awaited(h, o) = <<>>
  BY <1>2, VacantShown
<1>4. Elsewhere(h, p)
  <2>1. \A g \in Hart \ {h}, o \in Path : SameAt(g, o)
    BY <1>2, OthersShown
  <2>2. QED
    BY <1>3, <2>1 DEF Elsewhere
<1>5. PICK n : Cut(R, c, n)
  BY DEF Sane, Cuts
<1> DEFINE v == Values(R, c, n)
           w == Waits(c, n)
           d == Append(c, x)
<1>6. Awaited(h, p) = w /\ Obtained(h, p) = k \o v
  BY <1>5 DEF Sane, ShownAt
<1>7. Proper(c) /\ n \in 0 .. Len(c) /\ Len(c) \in Nat /\ DOMAIN c = 1 .. Len(c)
  BY <1>5, ProperFacts DEF Cut
<1>8. /\ Proper(d) /\ Len(d) = Len(c) + 1 /\ DOMAIN d = 1 .. Len(c) + 1
      /\ \A i \in DOMAIN c : d[i] = c[i]
      /\ d[Len(c) + 1] = x
  BY <1>7, AppendFacts
<1>9. x.transaction \notin Answers(R)
  <2>1. SUFFICES ASSUME x.transaction \in Answers(R) PROVE FALSE
    OBVIOUS
  <2>2. PICK r \in R : r.transaction = x.transaction
    BY <2>1 DEF Answers
  <2>3. r \in UnderWay(h)
    BY DEF UnderWay
  <2>4. PICK o \in Path : \E y \in Elements(Calls(h)[o]) : r.transaction = y.transaction
    BY <2>3 DEF Sane, Expected
  <2>5. PICK y \in Elements(Calls(h)[o]) : r.transaction = y.transaction
    BY <2>4
  <2>6. o = p
    <3>1. o # p => Elements(Calls(h)[o]) = {}
      BY <1>2, ElementsOne
    <3>2. QED
      BY <3>1
  <2>7. PICK i \in DOMAIN c : y = c[i]
    BY <2>6 DEF Elements
  <2> HIDE DEF d, c
  <2>8. i \in DOMAIN d /\ Len(c) + 1 \in DOMAIN d /\ d[i].transaction = d[Len(c) + 1].transaction
    BY <1>7, <1>8, <2>2, <2>5, <2>7
  <2>9. \A j, l \in DOMAIN d : d[j].transaction = d[l].transaction => j = l
    BY <1>1 DEF Sane, OnePlace, d, c
  <2>10. i = Len(c) + 1
    BY <2>8, <2>9
  <2>11. QED
    BY <1>7, <2>10
<1> HIDE DEF d, c, R, v, w
<1>10. Cut(R, d, n)
  <2>1. n \in 0 .. Len(d)
    BY <1>7, <1>8
  <2>2. ASSUME NEW i \in DOMAIN d PROVE i <= n <=> d[i].transaction \in Answers(R)
    <3>1. CASE i \in DOMAIN c
      BY <1>5, <1>8, <3>1 DEF Cut
    <3>2. CASE i = Len(c) + 1
      <4>1. ~(i <= n)
        BY <1>7, <3>2
      <4>2. QED
        BY <1>8, <1>9, <3>2, <4>1
    <3>3. QED
      BY <1>7, <1>8, <3>1, <3>2
  <2>3. QED
    BY <1>8, <2>1, <2>2 DEF Cut
<1>11. Awaited(h, p)' = Waits(d, n) /\ Obtained(h, p)' = k \o Values(R, d, n)
  <2>1. Cut(Responses(h)', Calls(h)'[p], n)
    BY <1>1, <1>2, <1>10 DEF d, R, c
  <2>2. /\ Awaited(h, p)' = Waits(Calls(h)'[p], n)
        /\ Obtained(h, p)' = Kept(h)'[p] \o Values(Responses(h)', Calls(h)'[p], n)
    BY <2>1 DEF Sane, ShownAt
  <2>3. QED
    BY <1>1, <1>2, <2>2 DEF d, R, c
<1> DEFINE a == AccessOf(x)
<1>12. Waits(d, n) = Append(w, a) /\ Values(R, d, n) = v
  <2>1. Proper(c) /\ n \in 0 .. Len(c)
    BY <1>7
  <2> HIDE DEF a
  <2>2. Grows(R, c, n, x)
    BY <2>1, Grown
  <2>3. QED
    BY <2>2 DEF Grows, d, v, w, a
<1>13. a \in Accesses
  <2>1. Len(c) + 1 \in DOMAIN d
    BY <1>7, <1>8
  <2>2. \A i \in DOMAIN d : AccessOf(d[i]) \in Accesses
    BY <1>1 DEF WithinMemory, d, c
  <2>3. QED
    BY <1>8, <2>1, <2>2
<1>14. Proper(w)
  <2>1. Parted(R, c, Len(c), n, w, v)
    BY <1>7, PartsFacts DEF w, v
  <2>2. QED
    BY <2>1 DEF Parted
<1> HIDE DEF a
<1>15. QED
  BY <1>2, <1>3, <1>4, <1>6, <1>11, <1>12, <1>13, <1>14, CallStep

\* The result of a call that has returned is the first of those obtained: it is kept, which
\* the abstract memory does not see, or handed to the hart.
LEMMA TakesRefines ==
  ASSUME Sane, Sane', NEW h \in Hart, Truthful(h), NEW p \in Path, NEW r, Takes(h, p, r)
  PROVE  UNCHANGED Memory!vars \/ Memory!Collect(h, p)
<1> DEFINE R == Responses(h)
           S == Responses(h)'
           c == Calls(h)[p]
           d == Calls(h)'[p]
           k == Kept(h)[p]
           l == Kept(h)'[p]
<1>1. /\ \A o \in Path \ {p} : Calls(h)[o] = <<>> /\ Calls(h)'[o] = <<>> /\ Kept(h)'[o] = Kept(h)[o]
      /\ c # <<>> /\ d = Tail(c) /\ r.transaction = c[1].transaction /\ R = S \cup {r}
      /\ \A g \in Hart \ {h} : Same(g)
      /\ bytes' = bytes
  BY DEF Takes, Others
<1>2. \/ (p = "core" \/ Depth = 1) /\ l = k
      \/ p = "window" /\ \E x : l = Append(k, x) /\ (Fits(r, c[1]) => x = Number(r.data))
  BY DEF Takes
<1>3. Elsewhere(h, p)
  <2>1. \A g \in Hart \ {h}, o \in Path : SameAt(g, o)
    BY <1>1, OthersShown
  <2>2. \A o \in Path \ {p} : SameAt(h, o)
    BY <1>1, VacantShown
  <2>3. QED
    BY <2>1, <2>2 DEF Elsewhere
<1>4. PICK n : Cut(R, c, n)
  BY DEF Sane, Cuts
<1>5. /\ Proper(c) /\ n \in 0 .. Len(c) /\ Len(c) \in Nat /\ DOMAIN c = 1 .. Len(c)
      /\ \A i \in DOMAIN c : i <= n <=> c[i].transaction \in Answers(R)
  BY <1>4, ProperFacts DEF Cut
<1>6. Proper(k)
  BY DEF Sane, Ordered
<1>7. \A a \in R : ValueOf(R, a.transaction) = Number(a.data)
  BY DEF Sane, Valued
<1>8. \A a \in S : ValueOf(S, a.transaction) = Number(a.data)
  BY DEF Sane, Valued
<1>9. \A i, j \in DOMAIN c : c[i].transaction = c[j].transaction => i = j
  BY DEF Sane, OnePlace
<1>10. Fits(r, c[1])
  <2>1. 1 \in DOMAIN c
    BY <1>1, <1>5, ProperFacts
  <2>2. c[1] \in Elements(c)
    BY <2>1 DEF Elements
  <2>3. r \in R
    BY <1>1
  <2>4. QED
    BY <1>1, <2>2, <2>3 DEF Truthful
<1>11. Depth = 1 => Kept(h)["window"] = <<>>
  BY DEF Truthful
<1>12. Kept(h)["core"] = <<>>
  BY DEF Kept
<1>13. Awaited(h, p) = Waits(c, n) /\ Obtained(h, p) = k \o Values(R, c, n)
  BY <1>4 DEF Sane, ShownAt
<1>14. \A m : Cut(S, d, m) => Awaited(h, p)' = Waits(d, m) /\ Obtained(h, p)' = l \o Values(S, d, m)
  BY DEF Sane, ShownAt
<1> HIDE DEF R, S, c, d, k, l
<1>15. 1 \in DOMAIN c /\ n \in 1 .. Len(c)
  <2>1. 1 \in DOMAIN c
    BY <1>1, <1>5, ProperFacts
  <2>2. r.transaction \in Answers(R)
    BY <1>1 DEF Answers
  <2>3. 1 <= n
    BY <1>1, <1>5, <2>1, <2>2
  <2>4. QED
    BY <1>5, <2>1, <2>3
<1>16. \A t : t \in Answers(R) <=> t \in Answers(S) \/ t = r.transaction
  BY <1>1 DEF Answers
<1>17. ASSUME NEW i \in DOMAIN c, i # 1
       PROVE  i <= n <=> c[i].transaction \in Answers(S)
  <2>1. c[i].transaction # r.transaction
    BY <1>1, <1>9, <1>15, <1>17
  <2>2. QED
    BY <1>5, <1>16, <2>1
<1>18. /\ Proper(d) /\ Len(d) = Len(c) - 1 /\ DOMAIN d = 1 .. Len(c) - 1
       /\ \A i \in DOMAIN d : d[i] = c[i + 1]
  BY <1>1, <1>5, TailFacts
<1> DEFINE m == n - 1
<1>19. Cut(S, d, m)
  <2>1. m \in 0 .. Len(d)
    BY <1>5, <1>15, <1>18
  <2>2. ASSUME NEW i \in DOMAIN d PROVE i <= m <=> d[i].transaction \in Answers(S)
    <3>1. i + 1 \in DOMAIN c /\ i + 1 # 1 /\ (i <= m <=> i + 1 <= n)
      BY <1>5, <1>15, <1>18
    <3> HIDE DEF m
    <3>2. QED
      BY <1>17, <1>18, <3>1
  <2> HIDE DEF m
  <2>3. QED
    BY <1>18, <2>1, <2>2 DEF Cut
<1>20. ASSUME NEW i \in 2 .. n
       PROVE  ValueOf(S, c[i].transaction) = ValueOf(R, c[i].transaction)
  <2>1. i \in DOMAIN c /\ i # 1 /\ i <= n
    BY <1>5, <1>15
  <2>2. c[i].transaction \in Answers(S)
    BY <1>17, <2>1
  <2>3. PICK a \in S : a.transaction = c[i].transaction
    BY <2>2 DEF Answers
  <2>4. a \in R
    BY <1>1
  <2>5. QED
    BY <1>7, <1>8, <2>3, <2>4
<1>21. Shortened(R, S, c, n)
  BY <1>5, <1>15, <1>20, FirstTaken
<1> DEFINE v == Values(R, c, n)
<1>22. /\ Awaited(h, p)' = Awaited(h, p) /\ Obtained(h, p)' = l \o Tail(v)
       /\ Obtained(h, p) = k \o v
       /\ v # <<>> /\ v[1] = Number(r.data)
  <2>1. /\ Waits(d, m) = Waits(c, n) /\ v # <<>> /\ v[1] = ValueOf(R, c[1].transaction)
        /\ Values(S, d, m) = Tail(v)
    BY <1>1, <1>21 DEF Shortened
  <2>2. Awaited(h, p)' = Waits(d, m) /\ Obtained(h, p)' = l \o Values(S, d, m)
    BY <1>14, <1>19
  <2>3. ValueOf(R, c[1].transaction) = Number(r.data)
    BY <1>1, <1>7
  <2> HIDE DEF v, m
  <2>4. QED
    BY <1>13, <2>1, <2>2, <2>3 DEF v
<1>23. Proper(v)
  <2>1. Parted(R, c, Len(c), n, Waits(c, n), v)
    BY <1>5, PartsFacts
  <2> HIDE DEF v
  <2>2. QED
    BY <2>1 DEF Parted
<1> HIDE DEF v, m
<1>24. ASSUME NEW x, l = Append(k, x), x = Number(r.data) PROVE UNCHANGED Memory!vars
  <2>1. Append(k, v[1]) \o Tail(v) = k \o v
    BY <1>6, <1>22, <1>23, JoinMove
  <2>2. Obtained(h, p)' = Obtained(h, p)
    BY <1>22, <1>24, <2>1
  <2>3. SameAt(h, p)
    BY <1>22, <2>2 DEF SameAt
  <2>4. \A g \in Hart, o \in Path : SameAt(g, o)
    BY <1>3, <2>3 DEF Elsewhere
  <2>5. QED
    BY <1>1, <2>4, StutterStep
<1>25. ASSUME p = "core" \/ Depth = 1, l = k PROVE Memory!Collect(h, p)
  <2>1. k = <<>>
    BY <1>11, <1>12, <1>25 DEF Path, k
  <2>2. /\ Proper(Tail(v)) /\ Proper(<<>>)
    BY <1>22, <1>23, TailFacts, ProperEmpty
  <2>3. <<>> \o v = v /\ <<>> \o Tail(v) = Tail(v)
    BY <1>23, <2>2, JoinFacts
  <2>4. Obtained(h, p) # <<>> /\ Obtained(h, p)' = Tail(Obtained(h, p))
    BY <1>22, <1>25, <2>1, <2>3
  <2>5. QED
    BY <1>1, <1>3, <1>22, <2>4, CollectStep
<1>26. QED
  BY <1>2, <1>10, <1>24, <1>25

\* The memory performs the oldest access of its hart that waits.
LEMMA ServesRefines ==
  ASSUME IInv, Sane, Sane', RInv, WithinMemory, NEW q, Serves(q)
  PROVE  \E h \in Hart, p \in Path : Memory!Perform(h, p)
<1> DEFINE h == q.hart
           R == Responses(h)
           S == Responses(h)'
           a == ResponseTo(q)
<1>1. /\ h \in Hart /\ q \in Requests(h) /\ bytes' = Effect(bytes, q)
      /\ S = R \cup {a}
      /\ \A g \in Hart : SameCalls(g)
      /\ \A g \in Hart \ {h} : Responses(g)' = Responses(g)
  BY DEF Serves
<1>2. a.transaction = q.transaction /\ a.data = Result(bytes, q)
  BY DEF ResponseTo
<1>3. PICK p \in Path : q \in Elements(Calls(h)[p])
  BY <1>1 DEF RInv, Truthful
<1> DEFINE c == Calls(h)[p]
           k == Kept(h)[p]
<1>4. PICK j \in DOMAIN c : q = c[j]
  BY <1>3 DEF Elements
<1>5. Calls(h)' = Calls(h) /\ Kept(h)' = Kept(h)
  BY <1>1 DEF SameCalls
<1>6. Elsewhere(h, p)
  <2>1. ASSUME NEW g \in Hart, NEW o \in Path, g # h PROVE SameAt(g, o)
    BY <1>1, <2>1, SameShown DEF SameCalls
  <2>2. ASSUME NEW o \in Path, o # p PROVE SameAt(h, o)
    <3>1. Calls(h)[p] # <<>>
      BY <1>3, ElementsOne
    <3>2. Calls(h)[o] = <<>>
      BY <1>1, <2>2, <3>1 DEF Sane, OnePath, Path
    <3>3. QED
      BY <1>1, <1>5, <3>2, VacantShown
  <2>3. QED
    BY <2>1, <2>2 DEF Elsewhere
<1>7. PICK n : Cut(R, c, n)
  BY <1>1 DEF Sane, Cuts
<1>8. PICK m : Cut(S, c, m)
  <2>1. PICK m : Cut(S, Calls(h)'[p], m)
    BY <1>1 DEF Sane, Cuts
  <2>2. QED
    BY <1>5, <2>1
<1>9. /\ Proper(c) /\ n \in 0 .. Len(c) /\ Len(c) \in Nat /\ DOMAIN c = 1 .. Len(c)
      /\ \A i \in DOMAIN c : i <= n <=> c[i].transaction \in Answers(R)
      /\ m \in 0 .. Len(c)
      /\ \A i \in DOMAIN c : i <= m <=> c[i].transaction \in Answers(S)
  BY <1>7, <1>8, ProperFacts DEF Cut
<1>10. \A b \in R : ValueOf(R, b.transaction) = Number(b.data)
  BY <1>1 DEF Sane, Valued
<1>11. \A b \in S : ValueOf(S, b.transaction) = Number(b.data)
  BY <1>1 DEF Sane, Valued
<1>12. \A i, l \in DOMAIN c : c[i].transaction = c[l].transaction => i = l
  BY <1>1 DEF Sane, OnePlace
<1>13. q.transaction \notin Answers(R)
  <2>1. SUFFICES ASSUME q.transaction \in Answers(R) PROVE FALSE
    OBVIOUS
  <2>2. PICK b \in R : b.transaction = q.transaction
    BY <2>1 DEF Answers
  <2>3. q.transaction \in Int /\ b.transaction < q.transaction
    BY <1>1, ResponsesAhead
  <2>4. QED
    BY <2>2, <2>3
<1>14. Awaited(h, p) = Waits(c, n) /\ Obtained(h, p) = k \o Values(R, c, n)
  BY <1>1, <1>7 DEF Sane, ShownAt
<1>15. Awaited(h, p)' = Waits(c, m) /\ Obtained(h, p)' = k \o Values(S, c, m)
  <2>1. Cut(Responses(h)', Calls(h)'[p], m)
    BY <1>5, <1>8
  <2>2. /\ Awaited(h, p)' = Waits(Calls(h)'[p], m)
        /\ Obtained(h, p)' = Kept(h)'[p] \o Values(Responses(h)', Calls(h)'[p], m)
    BY <1>1, <2>1 DEF Sane, ShownAt
  <2>3. QED
    BY <1>5, <2>2
<1>16. Proper(k)
  BY <1>1 DEF Sane, Ordered
<1>17. AccessOf(q) \in Accesses
  BY <1>1, <1>3, CallWithin
<1> HIDE DEF h, R, S, a, c, k
<1>18. \A t : t \in Answers(S) <=> t \in Answers(R) \/ t = q.transaction
  BY <1>1, <1>2 DEF Answers
<1>19. \A i \in DOMAIN c : i <= m <=> i <= n \/ i = j
  BY <1>4, <1>9, <1>12, <1>18
<1>20. j = n + 1 /\ m = n + 1 /\ n # Len(c)
  <2>1. ~(j <= n) /\ j <= m /\ j \in 1 .. Len(c)
    BY <1>4, <1>9, <1>13, <1>19
  <2>2. n + 1 \in 1 .. Len(c) /\ n + 1 <= m
    BY <1>9, <2>1
  <2>3. n + 1 = j
    BY <1>9, <1>19, <2>2
  <2>4. m \in 1 .. Len(c)
    BY <1>9, <2>1
  <2>5. m = j \/ m <= n
    BY <1>9, <1>19, <2>4
  <2> DEFINE e == Len(c)
  <2>6. n \in 0 .. e /\ m \in 0 .. e /\ e \in Nat /\ j \in 1 .. e
    BY <1>9, <2>1
  <2> HIDE DEF e
  <2>7. m = j
    BY <2>1, <2>5, <2>6
  <2>8. n # e
    BY <2>3, <2>6
  <2>9. QED
    BY <2>3, <2>7, <2>8 DEF e
<1>21. ASSUME NEW i \in 1 .. n
       PROVE  ValueOf(S, c[i].transaction) = ValueOf(R, c[i].transaction)
  <2>1. i \in DOMAIN c /\ i <= n
    BY <1>9
  <2>2. PICK b \in R : b.transaction = c[i].transaction
    BY <1>9, <2>1 DEF Answers
  <2>3. b \in S
    BY <1>1
  <2>4. QED
    BY <1>10, <1>11, <2>2, <2>3
<1>22. Advanced(R, S, c, n)
  BY <1>9, <1>20, <1>21, FirstServed
<1> DEFINE v == Values(R, c, n)
           w == Waits(c, n)
           x == Number(Result(bytes, q))
<1>23. /\ w # <<>> /\ Head(w) = AccessOf(q) /\ Awaited(h, p)' = Tail(w)
       /\ Obtained(h, p)' = k \o Append(v, x)
  <2>1. ValueOf(S, c[j].transaction) = x
    BY <1>1, <1>2, <1>4, <1>11
  <2>2. /\ w # <<>> /\ Head(w) = AccessOf(c[j]) /\ Waits(c, m) = Tail(w)
        /\ Values(S, c, m) = Append(v, ValueOf(S, c[j].transaction))
    BY <1>20, <1>22 DEF Advanced
  <2> HIDE DEF v, w, x
  <2>3. QED
    BY <1>4, <1>15, <2>1, <2>2
<1>24. Proper(v)
  <2>1. Parted(R, c, Len(c), n, w, v)
    BY <1>9, PartsFacts
  <2> HIDE DEF v, w
  <2>2. QED
    BY <2>1 DEF Parted
<1> HIDE DEF v, x
<1>25. Obtained(h, p)' = Append(k \o v, x)
  BY <1>16, <1>23, <1>24, JoinAppend
<1>26. /\ Awaited(h, p) # <<>> /\ Head(Awaited(h, p)) = AccessOf(q)
       /\ Awaited(h, p)' = Tail(Awaited(h, p))
       /\ Obtained(h, p)' = Append(Obtained(h, p), Number(Result(bytes, q)))
  BY <1>14, <1>23, <1>25 DEF v, x
<1>27. Memory!Perform(h, p)
  BY <1>1, <1>6, <1>17, <1>26, PerformStep
<1>28. QED
  BY <1>1, <1>27

-------------------------------------------------------------------------------
\* Every step of the system is one of the memory, or changes nothing there.
LEMMA StepRefines ==
  ASSUME IInv, RInv, WithinMemory, WithinMemory', [Next]_vars
  PROVE  [Memory!Next]_(Memory!vars)
<1>1. IInv'
  BY StepKeeps
<1>2. Sane
  BY Sanity
<1>3. Sane'
  BY <1>1, Sanity, PTL
<1>4. Step
  BY Steps
<1>5. CASE Quiet
  BY <1>2, <1>3, <1>5, QuietRefines
<1>6. ASSUME NEW q, Serves(q) PROVE Memory!Next
  <2>1. PICK h \in Hart, p \in Path : Memory!Perform(h, p)
    BY <1>2, <1>3, <1>6, ServesRefines
  <2>2. QED
    BY <2>1 DEF Memory!Next
<1>7. ASSUME NEW h \in Hart, Pops(h) PROVE Memory!Next
  BY <1>2, <1>3, <1>7, PopsRefines DEF Memory!Next, Path
<1>8. ASSUME NEW h \in Hart, Sends(h) PROVE UNCHANGED Memory!vars
  BY <1>2, <1>3, <1>8, SendsRefines
<1>9. ASSUME NEW h \in Hart, NEW p \in Path, Begins(h, p) PROVE Memory!Next
  <2>1. Memory!Call(h, p)
    BY <1>2, <1>3, <1>9, BeginsRefines
  <2>2. QED
    BY <2>1 DEF Memory!Next
<1>10. ASSUME NEW h \in Hart, NEW p \in Path, NEW r, Takes(h, p, r)
       PROVE  UNCHANGED Memory!vars \/ Memory!Next
  <2>1. UNCHANGED Memory!vars \/ Memory!Collect(h, p)
    BY <1>2, <1>3, <1>10, TakesRefines DEF RInv
  <2>2. QED
    BY <2>1 DEF Memory!Next
<1>11. QED
  BY <1>4, <1>5, <1>6, <1>7, <1>8, <1>9, <1>10 DEF Step

\* At the start nothing is called, under way or kept.
LEMMA StartsVacant ==
  ASSUME Init, NEW h \in Hart
  PROVE  /\ \A p \in Path : Calls(h)[p] = <<>> /\ Kept(h)[p] = <<>>
         /\ UnderWay(h) = {}
<1>1. IInv
  BY Established
<1>2. State(h) # "MemoryWait"
  <2>1. PICK entry \in Entries :
          core = [g \in Hart |->
            [pc |-> entry[g], state |-> "FetchDecode", left |-> 0, issueLeft |-> 0, parts |-> <<>>,
             id |-> 0, next |-> 1 % IdSpace, reg |-> 0, exit |-> 0]]
    BY DEF Init, CoreInit
  <2>2. QED
    BY <2>1 DEF State
<1>3. adapter[h].requests = <<>> /\ adapter[h].results = <<>>
  BY DEF Init, AdapterInit
<1>4. Proper(<<>>) /\ DOMAIN <<>> = {}
  BY ProperEmpty
<1>5. Calls(h)["core"] = <<>>
  BY <1>1, <1>2, CallFacts
<1>6. Calls(h)["window"] = <<>>
  <2> DEFINE c == Calls(h)["window"]
  <2>1. Proper(c) /\ DOMAIN c = DOMAIN adapter[h].requests
    BY <1>1, CallFacts
  <2> HIDE DEF c
  <2>2. c = <<>>
    BY <1>3, <1>4, <2>1, ProperEmpty
  <2>3. QED
    BY <2>2 DEF c
<1>7. Kept(h)["core"] = <<>> /\ Kept(h)["window"] = <<>>
  <2> DEFINE k == Kept(h)["window"]
  <2>1. Kept(h)["core"] = <<>> /\ k = Column(adapter[h].results, "data")
    BY Viewed DEF Views
  <2>2. Proper(k) /\ DOMAIN k = {}
    BY <1>3, <1>4, <2>1, ColumnFacts
  <2> HIDE DEF k
  <2>3. k = <<>>
    BY <2>2, ProperEmpty
  <2>4. QED
    BY <2>1, <2>3 DEF k
<1>8. UnderWay(h) = {}
  <2>1. IdsUnderWay[h] = SentIds(adapter[h])
    BY <1>1, <1>2 DEF IInv, Matched
  <2>2. SentIds(adapter[h]) = {}
    BY <1>3, <1>4 DEF SentIds
  <2>3. {r.transaction : r \in UnderWay(h)} = {}
    BY <1>1, <2>1, <2>2, UnderWayIds
  <2>4. QED
    BY <2>3
<1>9. QED
  BY <1>5, <1>6, <1>7, <1>8 DEF Path

\* The first state is the memory's, and nothing is under way that could be untrue.
LEMMA Starts == Init => RInv /\ Memory!Init
<1> SUFFICES ASSUME Init PROVE RInv /\ Memory!Init
  OBVIOUS
<1>1. \A h \in Hart : UnderWay(h) = {} /\ \A p \in Path : Calls(h)[p] = <<>> /\ Kept(h)[p] = <<>>
  BY StartsVacant
<1>2. RInv
  <2>1. "window" \in Path
    BY DEF Path
  <2>2. QED
    BY <1>1, <2>1 DEF RInv, Truthful, UnderWay
<1>3. bytes = [x \in Address |-> 0]
  BY DEF Init, MemoryInit
<1>4. \A h \in Hart, p \in Path : Awaited(h, p) = <<>> /\ Obtained(h, p) = <<>>
  <2>1. Vacant /\ Proper(<<>>)
    BY NothingCalled, ProperEmpty
  <2>2. QED
    BY <1>1, <2>1 DEF Vacant
<1>5. QED
  BY <1>2, <1>3, <1>4 DEF Memory!Init

-------------------------------------------------------------------------------
(***************************************************************************)
(* What a hart asks for itself is what the instructions of its image say.  *)
(***************************************************************************)
Resting(c) == c.state \notin {"MemoryIssue", "MemoryWait"}

\* A hart that issues or waits has the rest of the accesses of its instruction; the one
\* it waits for is not for the window.
Follows(c) ==
  \/ Resting(c)
  \/ /\ c.pc \in DOMAIN Image
     /\ Image[c.pc].kind \in {"Load", "Store", "VLoad", "VStore"}
     /\ Proper(c.parts) /\ c.parts # <<>>
     /\ Elements(c.parts) \subseteq Elements(Image[c.pc].parts)
     /\ c.state = "MemoryWait" => ~Overlaps(c.parts[1].address, c.parts[1].size)

CInv == \A h \in Hart : Follows(core[h])

\* A hart that has committed, stopped or faulted rests; one that has staged a request issues.
LEMMA RestFacts ==
  ASSUME NEW c, Fields(c)
  PROVE  /\ \A pc : Follows(Committed(c, pc))
         /\ Follows(CommittedNext(c))
         /\ \A code : Follows(Stopped(c, code)) /\ Follows(Stopped(CommittedNext(c), code))
         /\ Follows(Faulted(c))
         /\ \A parts, n : LET d == Staged(c, parts, n) IN
              d.state = "MemoryIssue" /\ d.parts = parts /\ d.pc = c.pc
<1>1. DOMAIN c = CoreFields
  BY DEF Fields
<1>2. \A pc : Follows(Committed(c, pc))
  BY <1>1 DEF Follows, Resting, Committed, CoreFields
<1>3. ASSUME NEW d, Fields(d) PROVE \A code : Follows(Stopped(d, code))
  BY <1>3 DEF Follows, Resting, Stopped, CoreFields, Fields
<1>4. Follows(Faulted(c))
  BY <1>1 DEF Follows, Resting, Faulted, CoreFields
<1>5. ASSUME NEW parts, NEW n
      PROVE  LET d == Staged(c, parts, n) IN
             d.state = "MemoryIssue" /\ d.parts = parts /\ d.pc = c.pc
  BY <1>1 DEF Staged, CoreFields
<1>6. Follows(CommittedNext(c))
  BY <1>2 DEF CommittedNext
<1>7. Fields(CommittedNext(c))
  BY NewFields DEF Running
<1>8. \A code : Follows(Stopped(CommittedNext(c), code))
  BY <1>3, <1>7
<1>9. QED
  BY <1>2, <1>3, <1>4, <1>5, <1>6, <1>8

\* The turn of a hart: it stages the accesses of its instruction, and drops the first
\* when it has been answered.
LEMMA CoreFollows ==
  ASSUME IInv, NEW h \in Hart, CoreTick(h), Follows(core[h])
  PROVE  core' = core \/ \E c : core' = [core EXCEPT ![h] = c] /\ Follows(c)
<1> DEFINE b == core[h]
           i == Pending(h)
<1>1. Fields(b) /\ DOMAIN core = Hart
  BY DEF IInv
<1>2. DOMAIN b = CoreFields
  BY <1>1 DEF Fields
<1>3. CASE Fetch(h)
  <2> DEFINE k == i.latency
             d == [b EXCEPT !.state = "ExecuteWait", !.left = k]
             c == IF b.pc \in DOMAIN Image THEN d ELSE Faulted(b)
  <2>1. core' = [core EXCEPT ![h] = c]
    BY <1>3 DEF Fetch, Only, Becomes
  <2>2. Follows(Faulted(b))
    BY <1>1, RestFacts
  <2>3. Follows(d)
    <3> HIDE DEF k, b
    <3>1. QED
      BY <1>2 DEF Follows, Resting, CoreFields
  <2> HIDE DEF d
  <2>4. Follows(c)
    BY <2>2, <2>3
  <2>5. QED
    BY <2>1, <2>4
<1>4. CASE Hold(h) \/ IssueBlocked(h) \/ Wait(h) \/ Rest(h)
  BY <1>4 DEF Hold, IssueBlocked, Wait, Rest
<1>5. CASE Execute(h)
  <2> DEFINE c == [b EXCEPT !.left = @ - 1]
  <2>1. core' = [core EXCEPT ![h] = c] /\ b.state = "ExecuteWait"
    BY <1>5 DEF Execute, Only, Becomes, State
  <2>2. Follows(c)
    BY <1>2, <2>1 DEF Follows, Resting, CoreFields
  <2>3. QED
    BY <2>1, <2>2
<1>6. CASE ExecutePlain(h)
  <2> DEFINE c == IF i.kind = "Branch" /\ b.reg \in i.taken
                    THEN Committed(b, b.pc + i.offset) ELSE CommittedNext(b)
  <2>1. core' = [core EXCEPT ![h] = c]
    BY <1>6 DEF ExecutePlain, Only, Becomes
  <2>2. Follows(c)
    BY <1>1, RestFacts
  <2>3. QED
    BY <2>1, <2>2
<1>7. CASE ExecuteStop(h)
  <2> DEFINE c == IF i.kind = "Stop" THEN Stopped(b, i.code) ELSE Faulted(b)
  <2>1. core' = [core EXCEPT ![h] = c]
    BY <1>7 DEF ExecuteStop, Only, Becomes
  <2>2. Follows(c)
    BY <1>1, RestFacts
  <2>3. QED
    BY <2>1, <2>2
<1>8. CASE ExecuteMemory(h)
  <2> DEFINE ps == i.parts
             c == CASE i.kind \in {"Load", "Store"} -> Staged(b, ps, b.issueLeft)
                    [] ps = <<>> -> CommittedNext(b)
                    [] OTHER -> Staged(b, ps, VectorIssue - 1)
  <2>1. /\ core' = [core EXCEPT ![h] = c] /\ b.state = "ExecuteWait"
        /\ i.kind \in {"Load", "Store", "VLoad", "VStore"}
    BY <1>8 DEF ExecuteMemory, Only, Becomes, Ready, State
  <2>2. b.pc \in DOMAIN Image /\ i = Image[b.pc]
    BY <1>1, <2>1 DEF Fields, Pending
  <2>3. ps \in Seq(Access) /\ (i.kind \in {"Load", "Store"} => Len(ps) = 1)
    BY <2>1, <2>2, ImageAssumption
  <2>4. Proper(ps) /\ (i.kind \in {"Load", "Store"} => ps # <<>>)
    <3>1. Proper(ps)
      BY <2>3, ProperSeq
    <3> HIDE DEF ps
    <3>2. Len(ps) = 1 => ps # <<>>
      BY <3>1, ProperFacts
    <3>3. QED
      BY <2>3, <3>1, <3>2
  <2>5. ASSUME NEW n, ps # <<>> PROVE Follows(Staged(b, ps, n))
    <3> DEFINE d == Staged(b, ps, n)
    <3>1. d.state = "MemoryIssue" /\ d.parts = ps /\ d.pc = b.pc
      BY <1>1, RestFacts
    <3> HIDE DEF d
    <3>2. Follows(d)
      BY <2>1, <2>2, <2>4, <2>5, <3>1 DEF Follows
    <3>3. QED
      BY <3>2 DEF d
  <2>6. Follows(CommittedNext(b))
    BY <1>1, RestFacts
  <2>7. Follows(c)
    <3> HIDE DEF ps, b, i
    <3>1. CASE i.kind \in {"Load", "Store"}
      BY <2>4, <2>5, <3>1
    <3>2. CASE i.kind \notin {"Load", "Store"} /\ ps = <<>>
      BY <2>6, <3>2
    <3>3. CASE i.kind \notin {"Load", "Store"} /\ ps # <<>>
      BY <2>5, <3>3
    <3>4. QED
      BY <3>1, <3>2, <3>3
  <2>8. QED
    BY <2>1, <2>7
<1>9. CASE ExecuteCsr(h)
  <2> DEFINE old == CsrRead(h, i.register)
             d == [b EXCEPT !.reg = old]
             illegal == /\ i.mode = "Swap" \/ i.source # 0
                        /\ i.register \in {ReadData, ResultId}
             c == IF illegal THEN Faulted(d) ELSE CommittedNext(d)
  <2>1. core' = [core EXCEPT ![h] = c]
    BY <1>9 DEF ExecuteCsr, Becomes
  <2>2. Fields(d)
    <3> HIDE DEF old, b
    <3>1. QED
      BY <1>1, NewFields
  <2> HIDE DEF d
  <2>3. Follows(Faulted(d)) /\ Follows(CommittedNext(d))
    BY <2>2, RestFacts
  <2> HIDE DEF illegal
  <2>4. Follows(c)
    BY <2>3
  <2>5. QED
    BY <2>1, <2>4
<1>10. CASE IssueDelay(h)
  <2> DEFINE c == [b EXCEPT !.issueLeft = @ - 1]
  <2>1. core' = [core EXCEPT ![h] = c] /\ b.state = "MemoryIssue"
    BY <1>10 DEF IssueDelay, Only, Becomes, State
  <2>2. c.state = b.state /\ c.parts = b.parts /\ c.pc = b.pc
    BY <1>2 DEF CoreFields
  <2> HIDE DEF c
  <2>3. Follows(c)
    BY <2>1, <2>2 DEF Follows, Resting
  <2>4. QED
    BY <2>1, <2>3
<1>11. CASE IssueLocal(h)
  <2> DEFINE reg == Register(Part(h).address, Part(h).size)
             legal == ~Vector(h) /\ reg \in (IF IsWrite(h) THEN Writable ELSE Readable)
             v == ReadRegister(adapter[h], reg)
             d == [b EXCEPT !.reg = v]
             c == IF ~legal THEN Faulted(b) ELSE IF IsWrite(h) THEN CommittedNext(b) ELSE CommittedNext(d)
  <2>1. core' = [core EXCEPT ![h] = c]
    BY <1>11 DEF IssueLocal, Becomes
  <2>2. Fields(d)
    <3> HIDE DEF v, b
    <3>1. QED
      BY <1>1, NewFields
  <2> HIDE DEF d, legal
  <2>3. Follows(Faulted(b)) /\ Follows(CommittedNext(b)) /\ Follows(CommittedNext(d))
    BY <1>1, <2>2, RestFacts
  <2>4. Follows(c)
    BY <2>3
  <2>5. QED
    BY <2>1, <2>4
<1>12. CASE IssueSend(h)
  <2> DEFINE c == [b EXCEPT !.state = "MemoryWait"]
  <2>1. /\ core' = [core EXCEPT ![h] = c] /\ b.state = "MemoryIssue"
        /\ ~Overlaps(b.parts[1].address, b.parts[1].size)
    BY <1>12 DEF IssueSend, Becomes, Issuing, InWindow, Part, State
  <2>2. c.state = "MemoryWait" /\ c.parts = b.parts /\ c.pc = b.pc
    BY <1>2 DEF CoreFields
  <2> HIDE DEF c
  <2>3. Follows(c)
    BY <2>1, <2>2 DEF Follows, Resting
  <2>4. QED
    BY <2>1, <2>3
<1>13. CASE Receive(h)
  <2> DEFINE r == Received(h, Response)
             c == IF Misfit(h, r) THEN Faulted(b) ELSE Answered(h, r)
             ps == b.parts
             x == Number(r.data)
             d == [b EXCEPT !.reg = x]
             y == ExitCode(Number(Part(h).data))
             t == Tail(ps)
             e == Staged(b, t, VectorIssue - 1)
  <2>1. core' = [core EXCEPT ![h] = c] /\ b.state = "MemoryWait"
    BY <1>13 DEF Receive, Becomes, State
  <2>2. Fields(d)
    <3> HIDE DEF x, b
    <3>1. QED
      BY <1>1, NewFields
  <2>3. \/ c = Faulted(b) \/ (c = e /\ Len(ps) > 1)
        \/ c = Stopped(CommittedNext(b), y) \/ c = CommittedNext(d) \/ c = CommittedNext(b)
    BY DEF Answered
  <2> HIDE DEF c, d, y
  <2>4. /\ Follows(Faulted(b)) /\ Follows(CommittedNext(b)) /\ Follows(CommittedNext(d))
        /\ Follows(Stopped(CommittedNext(b), y))
    BY <1>1, <2>2, RestFacts
  <2>5. ASSUME Len(ps) > 1 PROVE Follows(e)
    <3>1. /\ b.pc \in DOMAIN Image /\ Image[b.pc].kind \in {"Load", "Store", "VLoad", "VStore"}
          /\ Proper(ps) /\ ps # <<>> /\ Elements(ps) \subseteq Elements(Image[b.pc].parts)
      BY <2>1 DEF Follows, Resting
    <3> HIDE DEF ps
    <3>2. Proper(t) /\ Len(t) = Len(ps) - 1 /\ Len(ps) \in Nat
      BY <3>1, TailFacts, ProperFacts
    <3>3. Elements(t) \subseteq Elements(ps)
      BY <3>1, ElementFacts
    <3> HIDE DEF t
    <3>4. Len(t) # 0
      <4> DEFINE m == Len(ps)
                 n == Len(t)
      <4>1. m > 1 /\ m \in Nat /\ n = m - 1
        BY <2>5, <3>2
      <4> HIDE DEF m, n
      <4>2. n # 0
        BY <4>1
      <4>3. QED
        BY <4>2 DEF n
    <3>5. t # <<>>
      BY <3>2, <3>4, ProperFacts
    <3>6. e.state = "MemoryIssue" /\ e.parts = t /\ e.pc = b.pc
      BY <1>1, RestFacts
    <3> HIDE DEF e
    <3>7. QED
      BY <3>1, <3>2, <3>3, <3>5, <3>6 DEF Follows
  <2> HIDE DEF e, t
  <2>6. Follows(c)
    BY <2>3, <2>4, <2>5
  <2>7. QED
    BY <2>1, <2>6
<1>14. QED
  BY <1>3, <1>4, <1>5, <1>6, <1>7, <1>8, <1>9, <1>10, <1>11, <1>12, <1>13 DEF CoreTick

\* Every step of the system keeps the harts to their instructions.
LEMMA StepFollows ==
  ASSUME IInv, CInv, [Next]_vars
  PROVE  CInv'
<1> SUFFICES ASSUME NEW g \in Hart PROVE Follows(core'[g])
  BY DEF CInv
<1>1. Follows(core[g])
  BY DEF CInv
<1>2. CASE core' = core
  BY <1>1, <1>2
<1>3. CASE MemoryTurn \/ BusTurn \/ RunEnded \/ UNCHANGED vars
  BY <1>2, <1>3 DEF MemoryTurn, BusTurn, RunEnded, vars
<1>4. ASSUME NEW h \in Hart, WindowTurn(h) PROVE Follows(core'[g])
  <2>1. PICK sent \in BOOLEAN :
          /\ AdapterTick(h, sent)
          /\ core' = IF AdapterThrows(h, sent) THEN [core EXCEPT ![h] = Faulted(@)] ELSE core
    BY <1>4 DEF WindowTurn
  <2>2. UNCHANGED memoryVars
    BY <1>4 DEF WindowTurn
  <2>3. core' = core
    BY <2>1, <2>2, WindowKeeps
  <2>4. QED
    BY <1>2, <2>3
<1>5. ASSUME NEW h \in Hart, CoreTurn(h) PROVE Follows(core'[g])
  <2>1. CoreTick(h) /\ Follows(core[h]) /\ DOMAIN core = Hart
    BY <1>5 DEF CoreTurn, CInv, IInv
  <2>2. ASSUME NEW c, core' = [core EXCEPT ![h] = c], Follows(c) PROVE Follows(core'[g])
    BY <1>1, <2>1, <2>2
  <2>3. QED
    BY <1>2, <2>1, <2>2, CoreFollows
<1>6. QED
  BY <1>3, <1>4, <1>5 DEF Next

\* So the harts keep to them in every state.
LEMMA HartsFollow == Spec => []CInv
<1>1. Init => CInv
  <2> SUFFICES ASSUME Init, NEW h \in Hart PROVE Resting(core[h])
    BY DEF CInv, Follows
  <2>1. PICK entry \in Entries :
          core = [g \in Hart |->
            [pc |-> entry[g], state |-> "FetchDecode", left |-> 0, issueLeft |-> 0, parts |-> <<>>,
             id |-> 0, next |-> 1 % IdSpace, reg |-> 0, exit |-> 0]]
    BY DEF Init, CoreInit
  <2>2. QED
    BY <2>1 DEF Resting
<1>2. IInv /\ CInv /\ [Next]_vars => CInv'
  BY StepFollows
<1>3. QED
  BY <1>1, <1>2, Invariant, PTL DEF Spec

\* Instructions and commands within the memory make calls within the memory.
LEMMA CallsWithin == IInv /\ CInv /\ ProgramsWithin => WithinMemory
<1> SUFFICES ASSUME IInv, CInv, ProgramsWithin, NEW h \in Hart, NEW p \in Path,
                    NEW k \in DOMAIN Calls(h)[p]
             PROVE  AccessOf(Calls(h)[p][k]) \in Accesses
  BY DEF WithinMemory
<1>1. CASE p = "window"
  <2>1. /\ DOMAIN Calls(h)[p] = DOMAIN Commands(h)
        /\ Calls(h)[p][k] = Commands(h)[k].request
    BY <1>1, CallFacts DEF Commands
  <2>2. QED
    BY <2>1 DEF ProgramsWithin, CommandsWithin
<1>2. CASE p = "core"
  <2> DEFINE b == RequestOf(h)
             i == Pending(h)
             a == Part(h)
             op == IF i.kind \in {"Store", "VStore"} THEN "Write" ELSE "Read"
  <2>1. State(h) = "MemoryWait" /\ Calls(h)[p][k] = b
    <3>1. Calls(h)["core"] = IF State(h) = "MemoryWait" THEN <<b>> ELSE <<>>
      BY CallFacts
    <3> HIDE DEF b
    <3>2. DOMAIN <<b>> = {1} /\ DOMAIN <<>> = {} /\ <<b>>[1] = b
      BY ProperOne, ProperEmpty
    <3>3. QED
      BY <1>2, <3>1, <3>2
  <2>2. AccessOf(b) = [op |-> op, address |-> a.address, size |-> a.size, data |-> a.data]
    BY DEF AccessOf, RequestOf, IsWrite
  <2>3. /\ core[h].pc \in DOMAIN Image /\ i.kind \in {"Load", "Store", "VLoad", "VStore"}
        /\ Proper(core[h].parts) /\ core[h].parts # <<>>
        /\ Elements(core[h].parts) \subseteq Elements(i.parts)
        /\ ~Overlaps(a.address, a.size)
    BY <2>1 DEF CInv, Follows, Resting, State, Pending, Part
  <2>4. a \in Elements(core[h].parts)
    BY <2>3, ProperFacts DEF Elements, Part
  <2>5. PICK n \in DOMAIN i.parts : a = i.parts[n]
    BY <2>3, <2>4 DEF Elements
  <2>6. \A m \in DOMAIN i.parts :
          LET x == i.parts[m] IN
          \/ Overlaps(x.address, x.size)
          \/ [op |-> op, address |-> x.address, size |-> x.size, data |-> x.data] \in Accesses
    BY <2>3 DEF ProgramsWithin, InstructionsWithin, Pending
  <2> HIDE DEF b, i, a, op
  <2>7. [op |-> op, address |-> a.address, size |-> a.size, data |-> a.data] \in Accesses
    BY <2>3, <2>5, <2>6
  <2>8. QED
    BY <2>1, <2>2, <2>7
<1>3. QED
  BY <1>1, <1>2 DEF Path

-------------------------------------------------------------------------------
(***************************************************************************)
(* The harts of the system have a memory that keeps their order: whatever  *)
(* their number, their programs, the depth of their windows and the size   *)
(* of the id space, each access takes effect as a whole, in the order of   *)
(* the calls of its hart, and each path of a hart gets back, in the same   *)
(* order, what its accesses returned.  The hypothesis is that programs     *)
(* keep to the memory: what an access outside does is not a memory's.      *)
(***************************************************************************)
THEOREM MemoryOrdered == Spec /\ []ProgramsWithin => MemorySpec
<1>1. Init => RInv /\ Memory!Init
  BY Starts
<1>2. IInv /\ RInv /\ WithinMemory /\ [Next]_vars => RInv'
  BY StepTruth
<1>3. IInv /\ RInv /\ WithinMemory /\ WithinMemory' /\ [Next]_vars => [Memory!Next]_(Memory!vars)
  BY StepRefines
<1>4. QED
  BY <1>1, <1>2, <1>3, Invariant, HartsFollow, CallsWithin, PTL DEF Spec, MemorySpec, Memory!Spec

-------------------------------------------------------------------------------
(***************************************************************************)
(* The value of a number's bytes and of a set of bits is natural.          *)
(***************************************************************************)
\* Little-endian bytes are a natural number.
LEMMA NumberType ==
  ASSUME NEW d \in Seq(Byte)
  PROVE  Number(d) \in Nat
<1>1. Radix \in Nat /\ d \in Seq(Nat) /\ 1 \in 1 .. Len(d) + 1
  <2>1. Radix \in Nat /\ Byte \subseteq Nat
    BY AdapterAssumption
  <2>2. d \in Seq(Nat)
    BY <2>1, SeqMonotonic
  <2>3. Len(d) \in Nat
    BY <2>2
  <2>4. 1 \in 1 .. Len(d) + 1
    BY <2>3
  <2>5. QED
    BY <2>1, <2>2, <2>4
<1>2. PICK v \in [1 .. Len(d) + 1 -> Nat] :
        FoldRight(LAMBDA byte, high : byte + Radix * high, d, 0) = v[1]
  BY <1>1, LittleEndian
<1>3. Number(d) = v[1]
  BY <1>2, Zenon DEF Number
<1>4. v[1] \in Nat
  BY <1>1, <1>2
<1>5. QED
  BY <1>3, <1>4

\* The powers that stand for the bits of a register.
LEMMA Powers == \A b \in 0 .. RegisterBits - 1 : 2 ^ b \in Nat
<1> SUFFICES ASSUME NEW b \in 0 .. RegisterBits - 1 PROVE 2 ^ b \in Nat
  OBVIOUS
<1>1. 2 ^ 0 = 1 /\ 2 ^ 1 = 2 /\ 2 ^ 2 = 4 /\ 2 ^ 3 = 8
  OBVIOUS
<1>2. 2 ^ 4 = 16 /\ 2 ^ 5 = 32 /\ 2 ^ 6 = 64 /\ 2 ^ 7 = 128
  OBVIOUS
<1>3. b = 0 \/ b = 1 \/ b = 2 \/ b = 3 \/ b = 4 \/ b = 5 \/ b = 6 \/ b = 7
  BY DEF RegisterBits
<1>4. CASE b = 0
  BY <1>1, <1>4
<1>5. CASE b = 1
  BY <1>1, <1>5
<1>6. CASE b = 2
  BY <1>1, <1>6
<1>7. CASE b = 3
  BY <1>1, <1>7
<1>8. CASE b = 4
  BY <1>2, <1>8
<1>9. CASE b = 5
  BY <1>2, <1>9
<1>10. CASE b = 6
  BY <1>2, <1>10
<1>11. CASE b = 7
  BY <1>2, <1>11
<1>12. QED
  BY <1>3, <1>4, <1>5, <1>6, <1>7, <1>8, <1>9, <1>10, <1>11

\* A set of bits is a natural number.
LEMMA BitsType ==
  ASSUME NEW S \in SUBSET (0 .. RegisterBits - 1)
  PROVE  OfBits(S) \in Nat
<1> DEFINE Member(s) == CHOOSE x \in s : TRUE
           pick == [s \in SUBSET S |-> Member(s)]
           step == [x \in S |-> [v \in Nat |-> v + 2 ^ x]]
           Unfolded(g) == [s \in SUBSET S |-> IF s = {} THEN 0 ELSE g[s \ {Member(s)}] + 2 ^ Member(s)]
<1>1. OfBits(S) = (CHOOSE g : g = Unfolded(g))[S]
  BY DEF OfBits, FoldSet, MapThenFoldSet
<1>2. IsFiniteSet(S)
  <2>1. IsFiniteSet(0 .. RegisterBits - 1)
    <3>1. RegisterBits - 1 \in Int
      BY DEF RegisterBits
    <3>2. QED
      BY <3>1, FS_Interval
  <2>2. QED
    BY <2>1, FS_Subset
<1>3. ASSUME NEW x \in S, NEW v \in Nat PROVE v + 2 ^ x \in Nat /\ step[x][v] = v + 2 ^ x
  <2>1. 2 ^ x \in Nat
    BY Powers
  <2>2. v + 2 ^ x \in Nat
    BY <2>1
  <2>3. QED
    BY <2>2
<1>4. \A x \in S, v \in Nat : step[x][v] \in Nat
  <2> HIDE DEF step
  <2>1. QED
    BY <1>3
<1>5. \A s \in SUBSET S : s # {} => pick[s] \in s /\ pick[s] = Member(s) /\ pick[s] \in S
  OBVIOUS
<1>6. PICK g \in [SUBSET S -> Nat] : Folds(g, S, pick, step, 0)
  <2> HIDE DEF pick, step
  <2>1. QED
    BY <1>2, <1>4, <1>5, FoldExists
<1> HIDE DEF pick, step
<1>7. g = Unfolded(g)
  <2>1. ASSUME NEW s \in SUBSET S
        PROVE  g[s] = IF s = {} THEN 0 ELSE g[s \ {Member(s)}] + 2 ^ Member(s)
    <3> DEFINE x == Member(s)
               v == g[s \ {x}]
    <3>1. g[s] = IF s = {} THEN 0 ELSE step[pick[s]][g[s \ {pick[s]}]]
      BY <1>6 DEF Folds
    <3>2. ASSUME s # {} PROVE pick[s] = x /\ x \in S /\ v \in Nat
      BY <1>5, <1>6, <3>2
    <3> HIDE DEF x, v
    <3>3. ASSUME s # {} PROVE step[x][v] = v + 2 ^ x
      BY <1>3, <3>2, <3>3
    <3>4. QED
      BY <3>1, <3>2, <3>3 DEF x, v
  <2> HIDE DEF Member
  <2>2. QED
    BY <1>6, <2>1
<1> DEFINE f == CHOOSE e : e = Unfolded(e)
<1>8. f = Unfolded(f)
  <2> HIDE DEF Unfolded
  <2>1. QED
    BY <1>7
<1> HIDE DEF f
<1>9. f[{}] = 0 /\ \A s \in SUBSET S : s # {} => f[s] = f[s \ {Member(s)}] + 2 ^ Member(s)
  <2> HIDE DEF Member
  <2>1. ASSUME NEW s \in SUBSET S
        PROVE  f[s] = IF s = {} THEN 0 ELSE f[s \ {Member(s)}] + 2 ^ Member(s)
    BY <1>8
  <2>2. QED
    BY <2>1
<1>10. ASSUME NEW s \in SUBSET S, s # {} PROVE \E x \in s : f[s \ {x}] \in Nat => f[s] \in Nat
  <2> DEFINE x == Member(s)
             v == f[s \ {x}]
  <2>1. x \in s /\ x \in S /\ f[s] = v + 2 ^ x
    BY <1>5, <1>9, <1>10
  <2> HIDE DEF v, x
  <2>2. v \in Nat => v + 2 ^ x \in Nat
    BY <1>3, <2>1
  <2>3. QED
    BY <2>1, <2>2 DEF v
<1>11. f[S] \in Nat
  <2> HIDE DEF Unfolded, Member
  <2>1. f[{}] \in Nat
    BY <1>9
  <2>2. QED
    BY <1>2, <1>10, <2>1, FoldStays
<1>12. QED
  BY <1>1, <1>11 DEF f

\* What a CSR instruction writes.
LEMMA CsrValueType ==
  ASSUME NEW i, i.mode \in {"Swap", "Set", "Clear"}, i.source \in Nat, NEW old
  PROVE  CsrValue(i, old) \in Nat
<1>1. \A v : BitsOf(v) \in SUBSET (0 .. RegisterBits - 1)
  BY DEF BitsOf
<1>2. OfBits(BitsOf(old) \cup BitsOf(i.source)) \in Nat
  BY <1>1, BitsType
<1>3. OfBits(BitsOf(old) \ BitsOf(i.source)) \in Nat
  BY <1>1, BitsType
<1>4. QED
  BY <1>2, <1>3 DEF CsrValue

-------------------------------------------------------------------------------
(***************************************************************************)
(* The types of what is under way.                                         *)
(***************************************************************************)
\* A sequence over a set is one over every larger set.
LEMMA SeqWider ==
  ASSUME NEW S, NEW T, S \subseteq T, NEW s \in Seq(S)
  PROVE  s \in Seq(T)
BY SeqMonotonic

\* A request has the fields of one, an id within the id space and stays in the memory.
Record(q) ==
  q = [op |-> q.op, hart |-> q.hart, transaction |-> q.transaction,
       address |-> q.address, size |-> q.size, data |-> q.data]
Good(q) ==
  Record(q) /\ q.hart \in Hart /\ q.transaction \in 0 .. IdSpace - 1 /\ AccessOf(q) \in Accesses

\* An access within the memory reads and writes bytes.
LEMMA AccessInside ==
  ASSUME NEW q, AccessOf(q) \in Accesses
  PROVE  /\ q.op \in {"Read", "Write"} /\ q.address \in Address /\ q.address \in Nat
         /\ q.size \in 1 .. Cardinality(Address) /\ q.size \in Nat
         /\ q.address .. q.address + q.size - 1 \subseteq Address
         /\ \A n \in 0 .. q.size : \A d \in [1 .. n -> Byte] : d \in Data
         /\ q.data \in [1 .. (IF q.op = "Write" THEN q.size ELSE 0) -> Byte]
<1> DEFINE a == AccessOf(q)
<1>1. a.op = q.op /\ a.address = q.address /\ a.size = q.size /\ a.data = q.data
  BY DEF AccessOf
<1>2. a.address .. a.address + a.size - 1 \subseteq Address
  BY DEF Accesses
<1>3. q.op \in {"Read", "Write"} /\ q.address \in Address /\ q.size \in {1, 2, 4, 8}
  BY AccessFacts
<1>4. \/ a \in [op : {"Read"}, address : Address, size : AccessSize, data : {<<>>}]
      \/ \E n \in AccessSize :
           a \in [op : {"Write"}, address : Address, size : {n}, data : [1 .. n -> Byte]]
  BY DEF Accesses
<1> HIDE DEF a
<1>5. q.data \in [1 .. (IF q.op = "Write" THEN q.size ELSE 0) -> Byte]
  <2>1. CASE a \in [op : {"Read"}, address : Address, size : AccessSize, data : {<<>>}]
    <3>1. q.op = "Read" /\ q.data = <<>>
      BY <1>1, <2>1
    <3>2. <<>> \in [1 .. 0 -> Byte]
      OBVIOUS
    <3>3. QED
      BY <3>1, <3>2
  <2>2. ASSUME NEW n \in AccessSize,
               a \in [op : {"Write"}, address : Address, size : {n}, data : [1 .. n -> Byte]]
        PROVE  q.data \in [1 .. (IF q.op = "Write" THEN q.size ELSE 0) -> Byte]
    <3>1. q.op = "Write" /\ q.size = n /\ q.data \in [1 .. n -> Byte]
      BY <1>1, <2>2
    <3>2. QED
      BY <3>1
  <2>3. QED
    BY <1>4, <2>1, <2>2
<1>6. IsFiniteSet(Address) /\ q.address \in Nat /\ q.size \in Nat /\ q.size >= 1
  <2>1. q.size \in Nat /\ q.size >= 1
    BY <1>3
  <2>2. IsFiniteSet(Address) /\ Address \subseteq Nat
    BY SystemAssumption
  <2>3. QED
    BY <1>3, <2>1, <2>2
<1>7. Cardinality(Address) \in Nat
  BY <1>6, FS_CardinalityType
<1>8. q.size <= Cardinality(Address)
  <2> DEFINE lo == q.address
             hi == lo + q.size - 1
  <2>1. lo \in Int /\ hi \in Int /\ ~(lo > hi) /\ hi - lo + 1 = q.size
    BY <1>6
  <2> HIDE DEF lo, hi
  <2>2. Cardinality(lo .. hi) = q.size
    BY <2>1, FS_Interval
  <2>3. lo .. hi \subseteq Address
    BY <1>1, <1>2 DEF lo, hi
  <2>4. Cardinality(lo .. hi) <= Cardinality(Address)
    BY <1>6, <2>3, FS_Subset
  <2>5. QED
    BY <2>2, <2>4
<1>9. \A n \in 0 .. q.size : \A d \in [1 .. n -> Byte] : d \in Data
  <2> SUFFICES ASSUME NEW n \in 0 .. q.size, NEW d \in [1 .. n -> Byte] PROVE d \in Data
    OBVIOUS
  <2>1. n \in 0 .. Cardinality(Address)
    BY <1>6, <1>7, <1>8
  <2>2. QED
    BY <2>1 DEF Data
<1>10. QED
  BY <1>1, <1>2, <1>3, <1>5, <1>6, <1>7, <1>8, <1>9

\* Data is bytes.
LEMMA DataBytes ==
  ASSUME NEW d \in Data
  PROVE  d \in Seq(Byte) /\ \A i \in DOMAIN d : d[i] \in Byte
<1>1. PICK n \in 0 .. Cardinality(Address) : d \in [1 .. n -> Byte]
  BY DEF Data
<1>2. n \in Nat
  BY SystemAssumption, FS_CardinalityType
<1>3. QED
  BY <1>1, <1>2, SeqDef

\* A good request is one of the bus's and gets a response that is one, too.
LEMMA GoodFacts ==
  ASSUME NEW q, Good(q)
  PROVE  /\ q \in MemoryRequest
         /\ bytes \in [Address -> Byte] => /\ ResponseTo(q) \in MemoryResponse
                                           /\ Effect(bytes, q) \in [Address -> Byte]
<1>1. /\ Record(q) /\ q.hart \in Hart /\ q.transaction \in 0 .. IdSpace - 1
      /\ AccessOf(q) \in Accesses
  BY DEF Good
<1>2. /\ q.op \in {"Read", "Write"} /\ q.address \in Address /\ q.address \in Nat
      /\ q.size \in 1 .. Cardinality(Address) /\ q.size \in Nat
      /\ q.address .. q.address + q.size - 1 \subseteq Address
      /\ \A n \in 0 .. q.size : \A d \in [1 .. n -> Byte] : d \in Data
      /\ q.data \in [1 .. (IF q.op = "Write" THEN q.size ELSE 0) -> Byte]
  BY <1>1, AccessInside
<1>3. q.data \in Data
  <2> DEFINE n == IF q.op = "Write" THEN q.size ELSE 0
  <2>1. n \in 0 .. q.size
    BY <1>2
  <2>2. q.data \in [1 .. n -> Byte]
    BY <1>2
  <2> HIDE DEF n
  <2>3. QED
    BY <1>2, <2>1, <2>2
<1>4. q \in MemoryRequest
  BY <1>1, <1>2, <1>3 DEF Record, MemoryRequest
<1>5. ASSUME bytes \in [Address -> Byte] PROVE ResponseTo(q) \in MemoryResponse
  <2>1. \A i \in 1 .. q.size : bytes[q.address + i - 1] \in Byte
    <3>1. ASSUME NEW i \in 1 .. q.size PROVE q.address + i - 1 \in q.address .. q.address + q.size - 1
      BY <1>2
    <3>2. QED
      BY <1>2, <1>5, <3>1
  <2>2. Read(bytes, q.address, q.size) \in [1 .. q.size -> Byte]
    BY <2>1 DEF Read
  <2>3. Read(bytes, q.address, q.size) \in Data
    BY <1>2, <2>2
  <2>4. <<>> \in Data
    <3>1. <<>> \in [1 .. 0 -> Byte]
      OBVIOUS
    <3>2. 0 \in 0 .. q.size
      BY <1>2
    <3>3. QED
      BY <1>2, <3>1, <3>2
  <2>5. Result(bytes, q) \in Data
    BY <2>3, <2>4 DEF Result
  <2>6. QED
    BY <1>1, <2>5 DEF ResponseTo, MemoryResponse
<1>6. ASSUME bytes \in [Address -> Byte] PROVE Effect(bytes, q) \in [Address -> Byte]
  <2>1. \A i \in DOMAIN q.data : q.data[i] \in Byte
    BY <1>3, DataBytes
  <2>2. Write(bytes, q.address, q.data) \in [Address -> Byte]
    BY <1>6, <2>1 DEF Write
  <2>3. QED
    BY <1>6, <2>2 DEF Effect
<1>7. QED
  BY <1>4, <1>5, <1>6

\* The messages of a channel: requests within the memory, and responses.
Sealed(c) ==
  {m \in Bus!Letter : m.channel = c /\ IF c = Request THEN Good(m.body) ELSE m.body \in MemoryResponse}

BusTyped(T, I, n) ==
  /\ T \in SUBSET UNION {Sealed(c) : c \in Channel}
  /\ I = [p \in Port |-> [c \in Channel |-> I[p][c]]]
  /\ \A p \in Port, c \in Channel : I[p][c] \in Seq(Sealed(c))
  /\ n \in Nat

\* So the bus is in one of its states.
LEMMA BusTypes == BusTyped(transit, inbox, accepted) => Bus!TypeOK
<1> SUFFICES ASSUME BusTyped(transit, inbox, accepted) PROVE Bus!TypeOK
  OBVIOUS
<1>1. \A c : Sealed(c) \subseteq Bus!Letter
  BY DEF Sealed
<1>2. transit \in SUBSET Bus!Letter
  BY <1>1 DEF BusTyped
<1>3. \A p \in Port, c \in Channel : inbox[p][c] \in Seq(Bus!Letter)
  BY <1>1, SeqWider DEF BusTyped
<1>4. inbox \in [Port -> [Channel -> Seq(Bus!Letter)]]
  <2> DEFINE I == inbox
  <2>1. I = [p \in Port |-> [c \in Channel |-> I[p][c]]]
    BY DEF BusTyped
  <2> HIDE DEF I
  <2>2. I \in [Port -> [Channel -> Seq(Bus!Letter)]]
    BY <1>3, <2>1 DEF I
  <2>3. QED
    BY <2>2 DEF I
<1>5. QED
  BY <1>2, <1>4 DEF BusTyped, Bus!TypeOK

\* One more message under way.
LEMMA SendTypes ==
  ASSUME NEW T, NEW I, NEW n, BusTyped(T, I, n), NEW m, NEW c \in Channel,
         NEW p \in Port, NEW d \in Port, NEW b,
         m = [id |-> n + 1, src |-> p, dst |-> d, channel |-> c, body |-> b],
         IF c = Request THEN Good(b) ELSE b \in MemoryResponse
  PROVE  BusTyped(T \cup {m}, I, n + 1)
<1>1. b \in MemoryRequest \cup MemoryResponse
  BY GoodFacts
<1>2. n \in Nat /\ n + 1 \in Nat
  BY DEF BusTyped
<1>3. m \in Bus!Letter
  BY <1>1, <1>2 DEF Bus!Letter
<1>4. m \in Sealed(c)
  BY <1>3 DEF Sealed
<1>5. QED
  BY <1>2, <1>4 DEF BusTyped

\* The first message of an inbox is taken.
LEMMA RecvTypes ==
  ASSUME NEW T, NEW I, NEW n, BusTyped(T, I, n), NEW p \in Port, NEW c \in Channel, I[p][c] # <<>>
  PROVE  /\ BusTyped(T, [I EXCEPT ![p][c] = Tail(@)], n)
         /\ Head(I[p][c]) \in Sealed(c)
<1> DEFINE J == [I EXCEPT ![p][c] = Tail(@)]
<1>1. /\ I = [q \in Port |-> [d \in Channel |-> I[q][d]]]
      /\ \A q \in Port, d \in Channel : I[q][d] \in Seq(Sealed(d))
  BY DEF BusTyped
<1>2. Head(I[p][c]) \in Sealed(c) /\ Tail(I[p][c]) \in Seq(Sealed(c))
  <2> DEFINE s == I[p][c]
  <2>1. s \in Seq(Sealed(c)) /\ s # <<>>
    BY <1>1
  <2> HIDE DEF s
  <2>2. Head(s) \in Sealed(c) /\ Tail(s) \in Seq(Sealed(c))
    BY <2>1
  <2>3. QED
    BY <2>2 DEF s
<1>3. /\ J = [q \in Port |-> [d \in Channel |-> J[q][d]]]
      /\ \A q \in Port, d \in Channel :
           J[q][d] = IF q = p /\ d = c THEN Tail(I[p][c]) ELSE I[q][d]
  BY <1>1
<1> HIDE DEF J
<1>4. \A q \in Port, d \in Channel : J[q][d] \in Seq(Sealed(d))
  BY <1>1, <1>2, <1>3
<1>5. BusTyped(T, J, n)
  BY <1>3, <1>4 DEF BusTyped
<1>6. QED
  BY <1>2, <1>5 DEF J

\* Messages arrive.
LEMMA ArriveTypes ==
  ASSUME BusTyped(transit, inbox, accepted), BusTick
  PROVE  BusTyped(transit', inbox', accepted')
<1>1. CASE UNCHANGED busVars
  BY <1>1 DEF busVars
<1>2. CASE Bus!Deliver
  <2>1. PICK S \in SUBSET transit : Bus!Arrive(S)
    BY <1>2 DEF Bus!Deliver
  <2> DEFINE J == inbox'
  <2>2. /\ transit' = transit \ S /\ accepted' = accepted
        /\ J = [d \in Port |-> [c \in Channel |-> Bus!Arrived(S, d, c)]]
    BY <2>1 DEF Bus!Arrive
  <2>3. ASSUME NEW d \in Port, NEW c \in Channel PROVE Bus!Arrived(S, d, c) \in Seq(Sealed(c))
    <3> DEFINE m == CHOOSE k \in S : k.dst = d /\ k.channel = c
               s == inbox[d][c]
    <3>1. s \in Seq(Sealed(c))
      BY DEF BusTyped
    <3>2. ASSUME \E k \in S : k.dst = d /\ k.channel = c PROVE m \in Sealed(c)
      <4>1. m \in S /\ m.channel = c
        BY <3>2
      <4> HIDE DEF m
      <4>2. PICK e \in Channel : m \in Sealed(e)
        BY <2>1, <4>1 DEF BusTyped
      <4>3. e = c
        BY <4>1, <4>2 DEF Sealed
      <4>4. QED
        BY <4>2, <4>3
    <3> HIDE DEF m, s
    <3>3. ASSUME m \in Sealed(c) PROVE Append(s, m) \in Seq(Sealed(c))
      BY <3>1, <3>3
    <3>4. Bus!Arrived(S, d, c) = IF \E k \in S : k.dst = d /\ k.channel = c THEN Append(s, m) ELSE s
      BY DEF Bus!Arrived, m, s
    <3>5. QED
      BY <3>1, <3>2, <3>3, <3>4
  <2>4. /\ J = [d \in Port |-> [c \in Channel |-> J[d][c]]]
        /\ \A d \in Port, c \in Channel : J[d][c] = Bus!Arrived(S, d, c)
    BY <2>2
  <2> HIDE DEF J
  <2>5. \A d \in Port, c \in Channel : J[d][c] \in Seq(Sealed(c))
    BY <2>3, <2>4
  <2>6. transit' \in SUBSET UNION {Sealed(c) : c \in Channel} /\ accepted' \in Nat
    BY <2>2 DEF BusTyped
  <2>7. BusTyped(transit', J, accepted')
    BY <2>4, <2>5, <2>6 DEF BusTyped
  <2>8. QED
    BY <2>7 DEF J
<1>3. QED
  BY <1>1, <1>2 DEF BusTick

-------------------------------------------------------------------------------
(***************************************************************************)
(* The types of the controller.                                            *)
(***************************************************************************)
Goods == {q \in MemoryRequest : Good(q)}
InService == [request : Goods, left : 1 .. ServiceLatency]

MemoryTyped ==
  /\ queue \in Seq(Goods) /\ Len(queue) <= QueueCapacity
  /\ active \in Seq(InService) /\ response \in Seq(MemoryResponse)
  /\ active = <<>> \/ response = <<>>
  /\ bytes \in [Address -> Byte]

\* So is the controller.
LEMMA MemoryTypes == MemoryTyped /\ UnderService(active, response) => MemoryTypeOK
<1> SUFFICES ASSUME MemoryTyped, UnderService(active, response) PROVE MemoryTypeOK
  OBVIOUS
<1>1. /\ queue \in Seq(Goods) /\ Len(queue) <= QueueCapacity
      /\ active \in Seq(InService) /\ response \in Seq(MemoryResponse)
      /\ active = <<>> \/ response = <<>>
      /\ bytes \in [Address -> Byte]
  BY DEF MemoryTyped
<1>2. queue \in Seq(MemoryRequest)
  <2>1. Goods \subseteq MemoryRequest
    BY DEF Goods
  <2>2. QED
    BY <1>1, <2>1, SeqWider
<1>3. active \in Seq([request : MemoryRequest, left : 1 .. ServiceLatency])
  <2>1. InService \subseteq [request : MemoryRequest, left : 1 .. ServiceLatency]
    BY DEF InService, Goods
  <2>2. QED
    BY <1>1, <2>1, SeqWider
<1>4. Len(active) + Len(response) <= 1
  <2>1. \A x : Len(<<x>>) = 1
    OBVIOUS
  <2>2. Len(<<>>) = 0
    OBVIOUS
  <2>3. active = <<>> \/ active = <<active[1]>>
    BY DEF UnderService, Slot
  <2>4. response = <<>> \/ response = <<response[1]>>
    BY DEF UnderService, Slot
  <2>5. Len(active) \in {0, 1} /\ Len(response) \in {0, 1}
    BY <2>1, <2>2, <2>3, <2>4
  <2>6. Len(active) = 0 \/ Len(response) = 0
    BY <1>1, <2>2
  <2>7. QED
    BY <2>5, <2>6
<1>5. QED
  BY <1>1, <1>2, <1>3, <1>4 DEF MemoryTypeOK

\* A letter for the controller, or for a hart.
LEMMA SealedBodies ==
  /\ \A m \in Sealed(Request) : m.body \in Goods
  /\ \A m \in Sealed(Response) : m.body \in MemoryResponse
<1>1. ASSUME NEW m \in Sealed(Request) PROVE m.body \in Goods
  <2>1. Good(m.body)
    BY DEF Sealed
  <2>2. QED
    BY <2>1, GoodFacts DEF Goods
<1>2. ASSUME NEW m \in Sealed(Response) PROVE m.body \in MemoryResponse
  BY DEF Sealed, Request, Response
<1>3. QED
  BY <1>1, <1>2

\* The places of the system.
LEMMA Places ==
  /\ MemoryPort \in Port /\ \A h \in Hart : h \in Port
  /\ Request \in Channel /\ Response \in Channel /\ Request # Response
BY DEF Port, Channel, Request, Response

\* A cycle of the controller keeps its types and those of the bus.
LEMMA ControllerTypes ==
  ASSUME UnderService(active, response), MemoryTyped, BusTyped(transit, inbox, accepted), MemoryTick
  PROVE  MemoryTyped' /\ BusTyped(transit', inbox', accepted')
<1>1. PICK sent \in BOOLEAN : (sent => response # <<>>) /\ Serve(sent) /\ Exchange(sent)
  BY DEF MemoryTick
<1>2. /\ queue \in Seq(Goods) /\ Len(queue) <= QueueCapacity
      /\ active \in Seq(InService) /\ response \in Seq(MemoryResponse)
      /\ active = <<>> \/ response = <<>>
      /\ bytes \in [Address -> Byte]
  BY DEF MemoryTyped
<1>3. BusTyped(transit', inbox, accepted')
  <2>1. CASE ~sent
    BY <1>1, <2>1 DEF Exchange
  <2>2. CASE sent
    <3> DEFINE r == response[1]
               m == [id |-> accepted + 1, src |-> MemoryPort, dst |-> r.hart,
                     channel |-> Response, body |-> r]
    <3>1. r \in MemoryResponse
      <4>1. response # <<>>
        BY <1>1, <2>2
      <4>2. QED
        BY <1>2, <4>1
    <3>2. transit' = transit \cup {m} /\ accepted' = accepted + 1
      BY <1>1, <2>2 DEF Exchange
    <3> HIDE DEF r
    <3>3. r.hart \in Port
      BY <3>1, Places DEF MemoryResponse
    <3>4. BusTyped(transit \cup {m}, inbox, accepted + 1)
      BY <3>1, <3>3, Places, SendTypes
    <3>5. QED
      BY <3>2, <3>4
  <2>3. QED
    BY <2>1, <2>2
<1>4. BusTyped(transit', inbox', accepted') /\ Taken \in Seq(Goods) /\ Len(Taken) <= QueueCapacity
  <2>1. CASE ~MayTake
    BY <1>1, <1>2, <1>3, <2>1 DEF Exchange, Taken
  <2>2. CASE MayTake
    <3> DEFINE q == Received(MemoryPort, Request)
    <3>1. inbox[MemoryPort][Request] # <<>> /\ Len(queue) < QueueCapacity
      BY <2>2 DEF MayTake, CanRecv
    <3>2. /\ inbox' = [inbox EXCEPT ![MemoryPort][Request] = Tail(@)] /\ Taken = Append(queue, q)
      BY <1>1, <2>2 DEF Exchange, Taken
    <3>3. /\ BusTyped(transit', [inbox EXCEPT ![MemoryPort][Request] = Tail(@)], accepted')
          /\ Head(inbox[MemoryPort][Request]) \in Sealed(Request)
      BY <1>3, <3>1, Places, RecvTypes
    <3>4. q \in Goods
      BY <3>3, SealedBodies DEF Received
    <3> HIDE DEF q
    <3>5. Append(queue, q) \in Seq(Goods) /\ Len(Append(queue, q)) = Len(queue) + 1 /\ Len(queue) \in Nat
      BY <1>2, <3>4
    <3>6. Len(queue) + 1 <= QueueCapacity
      <4>1. QueueCapacity \in Nat
        BY MemoryAssumption
      <4>2. QED
        BY <3>1, <3>5, <4>1
    <3>7. QED
      BY <3>2, <3>3, <3>5, <3>6
  <2>3. QED
    BY <2>1, <2>2
<1> DEFINE unsent == Unsent(sent)
           advancing == active # <<>> /\ unsent = <<>>
           done == advancing /\ active[1].left = 1
           starting == unsent = <<>> /\ ~done /\ active = <<>> /\ Taken # <<>>
<1>5. /\ response' = IF done THEN <<ResponseTo(active[1].request)>> ELSE unsent
      /\ bytes' = IF done THEN Effect(bytes, active[1].request) ELSE bytes
      /\ active' = CASE done -> <<>>
                     [] advancing /\ ~done -> <<[active[1] EXCEPT !.left = @ - 1]>>
                     [] starting -> <<[request |-> Head(Taken), left |-> ServiceLatency]>>
                     [] OTHER -> active
      /\ queue' = IF starting THEN Tail(Taken) ELSE Taken
  BY <1>1 DEF Serve
<1>6. unsent \in Seq(MemoryResponse) /\ (unsent = <<>> \/ unsent = response)
  BY <1>2 DEF Unsent
<1> HIDE DEF unsent
<1>7. CASE done
  <2> DEFINE q == active[1].request
             r == ResponseTo(q)
  <2>1. active # <<>> /\ Good(q)
    <3>1. active # <<>> /\ active[1] \in InService
      BY <1>2, <1>7
    <3>2. active[1].request \in Goods
      BY <3>1 DEF InService
    <3>3. QED
      BY <3>1, <3>2 DEF Goods
  <2>2. r \in MemoryResponse /\ Effect(bytes, q) \in [Address -> Byte]
    BY <1>2, <2>1, GoodFacts
  <2>3. response' = <<r>> /\ bytes' = Effect(bytes, q) /\ active' = <<>> /\ queue' = Taken
    BY <1>5, <1>7
  <2> HIDE DEF r, q
  <2>4. <<r>> \in Seq(MemoryResponse) /\ <<>> \in Seq(InService)
    BY <2>2
  <2>5. QED
    BY <1>4, <2>2, <2>3, <2>4 DEF MemoryTyped
<1>8. CASE ~done /\ advancing
  <2> DEFINE a == active[1]
             b == [a EXCEPT !.left = @ - 1]
  <2>1. active # <<>> /\ a \in InService /\ a.left # 1
    BY <1>2, <1>8
  <2>2. /\ response' = unsent /\ bytes' = bytes /\ active' = <<b>> /\ queue' = Taken
        /\ unsent = <<>>
    BY <1>5, <1>8
  <2>3. b \in InService
    <3> HIDE DEF a
    <3>1. a.left \in 1 .. ServiceLatency /\ a.left # 1
      BY <2>1 DEF InService
    <3>2. a.left - 1 \in 1 .. ServiceLatency
      BY <3>1, MemoryAssumption
    <3>3. QED
      BY <2>1, <3>2 DEF InService
  <2> HIDE DEF b
  <2>4. <<b>> \in Seq(InService)
    BY <2>3
  <2>5. QED
    BY <1>2, <1>4, <1>6, <2>2, <2>4 DEF MemoryTyped
<1>9. CASE ~done /\ ~advancing /\ starting
  <2> DEFINE b == [request |-> Head(Taken), left |-> ServiceLatency]
  <2>1. /\ response' = unsent /\ bytes' = bytes /\ active' = <<b>> /\ queue' = Tail(Taken)
        /\ unsent = <<>> /\ Taken # <<>>
    BY <1>5, <1>9
  <2>2. Head(Taken) \in Goods
    BY <1>4, <2>1
  <2>3. Tail(Taken) \in Seq(Goods) /\ Len(Tail(Taken)) = Len(Taken) - 1 /\ Len(Taken) \in Nat
    BY <1>4, <2>1
  <2>4. b \in InService
    BY <2>2, MemoryAssumption DEF InService
  <2> HIDE DEF b
  <2>5. <<b>> \in Seq(InService)
    BY <2>4
  <2>6. Len(Tail(Taken)) <= QueueCapacity
    BY <1>4, <2>3, MemoryAssumption
  <2>7. QED
    BY <1>2, <1>4, <1>6, <2>1, <2>3, <2>5, <2>6 DEF MemoryTyped
<1>10. CASE ~done /\ ~advancing /\ ~starting
  <2>1. response' = unsent /\ bytes' = bytes /\ active' = active /\ queue' = Taken
    BY <1>5, <1>10
  <2>2. QED
    BY <1>2, <1>4, <1>6, <2>1 DEF MemoryTyped
<1>11. MemoryTyped'
  <2> HIDE DEF done, advancing, starting
  <2>1. QED
    BY <1>7, <1>8, <1>9, <1>10
<1>12. QED
  BY <1>4, <1>11

-------------------------------------------------------------------------------
(***************************************************************************)
(* The types of the windows.                                               *)
(***************************************************************************)
Ranks(s) == \A i \in DOMAIN s : Record(s[i].request) /\ s[i].request.transaction \in 0 .. IdSpace - 1
Yields(s) == \A i \in DOMAIN s : s[i].id \in 0 .. IdSpace - 1 /\ s[i].data \in Nat

Registers(a) ==
  a.target \in Nat /\ a.wdata \in Nat /\ a.size \in Nat /\ a.rdata \in Nat

WindowTyped(a) ==
  /\ Registers(a) /\ a.flags \in SUBSET {"done", "error"}
  /\ Ranks(a.requests) /\ Yields(a.results)
  /\ a.next \in 0 .. Half - 1

\* The ids are two halves.
LEMMA Halves == Half \in Nat \ {0} /\ Half + Half = IdSpace /\ Half \in Int
<1>1. IdSpace \in Nat \ {0} /\ IdSpace % 2 = 0
  BY SystemAssumption, AdapterAssumption
<1>2. QED
  BY <1>1 DEF Half

\* One more at the end.
LEMMA MoreRanks ==
  ASSUME NEW s, Proper(s), Ranks(s), NEW x, Record(x.request), x.request.transaction \in 0 .. IdSpace - 1
  PROVE  Ranks(Append(s, x))
<1> DEFINE t == Append(s, x)
<1>1. /\ DOMAIN t = 1 .. Len(s) + 1 /\ t[Len(s) + 1] = x /\ Len(s) \in Nat
      /\ \A i \in DOMAIN s : t[i] = s[i]
      /\ DOMAIN s = 1 .. Len(s)
  BY AppendFacts, ProperFacts
<1> HIDE DEF t
<1>2. \A i \in DOMAIN t : i \in DOMAIN s \/ i = Len(s) + 1
  BY <1>1
<1>3. Ranks(t)
  BY <1>1, <1>2 DEF Ranks
<1>4. QED
  BY <1>3 DEF t

\* The same of the results.
LEMMA MoreYields ==
  ASSUME NEW s, Proper(s), Yields(s), NEW x, x.id \in 0 .. IdSpace - 1, x.data \in Nat
  PROVE  Yields(Append(s, x))
<1> DEFINE t == Append(s, x)
<1>1. /\ DOMAIN t = 1 .. Len(s) + 1 /\ t[Len(s) + 1] = x /\ Len(s) \in Nat
      /\ \A i \in DOMAIN s : t[i] = s[i]
      /\ DOMAIN s = 1 .. Len(s)
  BY AppendFacts, ProperFacts
<1> HIDE DEF t
<1>2. \A i \in DOMAIN t : i \in DOMAIN s \/ i = Len(s) + 1
  BY <1>1
<1>3. Yields(t)
  BY <1>1, <1>2 DEF Yields
<1>4. QED
  BY <1>3 DEF t

\* The first is gone.
LEMMA FewerRanks ==
  ASSUME NEW s, Proper(s), s # <<>>
  PROVE  (Ranks(s) => Ranks(Tail(s))) /\ (Yields(s) => Yields(Tail(s)))
<1> DEFINE t == Tail(s)
<1>1. \A i \in DOMAIN t : i + 1 \in DOMAIN s /\ t[i] = s[i + 1]
  BY TailFacts
<1> HIDE DEF t
<1>2. (Ranks(s) => Ranks(t)) /\ (Yields(s) => Yields(t))
  BY <1>1 DEF Ranks, Yields
<1>3. QED
  BY <1>2 DEF t

\* A rejected access.
LEMMA RejectedTypes ==
  ASSUME NEW a, NEW h, Window(a, h), WindowTyped(a)
  PROVE  WindowTyped(Rejected(a))
<1> DEFINE b == Rejected(a)
<1>1. /\ b.target = a.target /\ b.wdata = a.wdata /\ b.size = a.size /\ b.rdata = a.rdata
      /\ b.requests = a.requests /\ b.results = a.results /\ b.next = a.next
      /\ b.flags = a.flags \cup {"error"}
  BY DEF Rejected, Window, AdapterFields
<1> HIDE DEF b
<1>2. WindowTyped(b)
  BY <1>1 DEF WindowTyped, Registers
<1>3. QED
  BY <1>2 DEF b

\* A pop.
LEMMA PoppedTypes ==
  ASSUME NEW a, NEW h, NEW v, Window(a, h), WindowTyped(a)
  PROVE  WindowTyped(Popped(a, v))
<1>1. CASE v # 1 \/ a.results = <<>>
  BY <1>1, RejectedTypes DEF Popped
<1>2. CASE ~(v # 1 \/ a.results = <<>>)
  <2> DEFINE b == Popped(a, v)
  <2>1. /\ b.target = a.target /\ b.wdata = a.wdata /\ b.size = a.size /\ b.rdata = a.rdata
        /\ b.requests = a.requests /\ b.results = Tail(a.results) /\ b.next = a.next
        /\ b.flags \subseteq a.flags
    BY <1>2 DEF Popped, Window, AdapterFields
  <2> HIDE DEF b
  <2>2. Yields(Tail(a.results))
    BY <1>2, FewerRanks DEF Window, WindowTyped
  <2>3. WindowTyped(b)
    BY <2>1, <2>2 DEF WindowTyped, Registers
  <2>4. QED
    BY <2>3 DEF b
<1>3. QED
  BY <1>1, <1>2

\* A command takes the next id, while there is one in the upper half.
LEMMA CommandedTypes ==
  ASSUME NEW a, NEW h, NEW v, Window(a, h), WindowTyped(a)
  PROVE  WindowTyped(Commanded(a, h, v))
<1> DEFINE cleared == [a EXCEPT !.flags = IF Depth = 1 THEN {} ELSE @, !.rdata = 0]
<1>1. /\ cleared.target = a.target /\ cleared.wdata = a.wdata /\ cleared.size = a.size
      /\ cleared.rdata = 0 /\ cleared.requests = a.requests /\ cleared.results = a.results
      /\ cleared.next = a.next /\ cleared.flags \subseteq a.flags /\ DOMAIN cleared = AdapterFields
  BY DEF Window, AdapterFields
<1>2. WindowTyped(cleared) /\ Window(cleared, h)
  <2> HIDE DEF cleared
  <2>1. WindowTyped(cleared)
    BY <1>1 DEF WindowTyped, Registers
  <2>2. QED
    BY <1>1, <2>1, OtherRegisters
<1>3. CASE Full(a)
  BY <1>3, RejectedTypes DEF Commanded
<1>4. CASE ~Full(a) /\ (~ValidCommand(a, v) \/ Exhausted(a))
  <2>1. Commanded(a, h, v) = Rejected(cleared)
    BY <1>4 DEF Commanded
  <2> HIDE DEF cleared
  <2>2. QED
    BY <1>2, <2>1, RejectedTypes
<1>5. CASE ~Full(a) /\ ~(~ValidCommand(a, v) \/ Exhausted(a))
  <2> DEFINE b == Commanded(a, h, v)
             x == [request |-> CommandRequest(a, h, v), sent |-> FALSE]
             c == [cleared EXCEPT !.next = IF Depth = 1 THEN @ ELSE @ + 1,
                                  !.requests = Append(@, x)]
  <2>1. b = c
    BY <1>5 DEF Commanded
  <2>2. /\ x.request.transaction = IF Depth = 1 THEN 0 ELSE Half + a.next
        /\ Record(x.request)
    BY DEF CommandRequest, Record, Half
  <2> HIDE DEF x, cleared, b
  <2>3. /\ b.target = a.target /\ b.wdata = a.wdata /\ b.size = a.size /\ b.rdata = 0
        /\ b.requests = Append(a.requests, x) /\ b.results = a.results
        /\ b.next = (IF Depth = 1 THEN a.next ELSE a.next + 1) /\ b.flags \subseteq a.flags
    BY <1>1, <2>1 DEF AdapterFields
  <2>4. a.next \in 0 .. Half - 1 /\ Half \in Nat \ {0} /\ Half + Half = IdSpace /\ Depth \in Nat \ {0}
    BY Halves, HalfType DEF WindowTyped
  <2>5. x.request.transaction \in 0 .. IdSpace - 1
    <3>1. 0 \in 0 .. IdSpace - 1 /\ Half + a.next \in 0 .. IdSpace - 1
      BY <2>4
    <3>2. QED
      BY <2>2, <3>1
  <2>6. b.next \in 0 .. Half - 1
    <3>1. Depth > 1 => a.next # Half - 1
      BY <1>5 DEF Exhausted, Half
    <3>2. Depth # 1 => a.next + 1 \in 0 .. Half - 1
      BY <2>4, <3>1
    <3>3. QED
      BY <2>3, <2>4, <3>2
  <2>7. Ranks(Append(a.requests, x))
    BY <2>2, <2>5, MoreRanks DEF Window, WindowTyped
  <2>8. WindowTyped(b)
    BY <2>3, <2>6, <2>7 DEF WindowTyped, Registers
  <2>9. QED
    BY <2>8 DEF b
<1>6. QED
  BY <1>3, <1>4, <1>5

\* Any write to a register.
LEMMA WriteTypes ==
  ASSUME NEW a, NEW h, NEW reg \in Writable, NEW v \in Nat, Window(a, h), WindowTyped(a)
  PROVE  WindowTyped(WriteRegister(a, h, reg, v))
<1> DEFINE b == WriteRegister(a, h, reg, v)
<1>1. CASE reg = Pop
  BY <1>1, PoppedTypes DEF WriteRegister
<1>2. CASE reg # Pop /\ Busy(a) /\ Depth = 1
  BY <1>2, RejectedTypes DEF WriteRegister
<1>3. CASE reg # Pop /\ ~(Busy(a) /\ Depth = 1)
  <2>1. CASE reg = Command
    <3>1. b = Commanded(a, h, v)
      BY <1>3, <2>1 DEF WriteRegister, Command, Target, WriteData, Size, Status, ReadData, Pop
    <3>2. QED
      BY <3>1, CommandedTypes
  <2>2. CASE reg = ReadData
    <3>1. b = Rejected(a)
      BY <1>3, <2>2 DEF WriteRegister, Command, Target, WriteData, Size, Status, ReadData, Pop
    <3>2. QED
      BY <3>1, RejectedTypes
  <2>3. CASE reg \in {Target, WriteData, Size, Status}
    <3>1. \/ b = [a EXCEPT !.target = v] \/ b = [a EXCEPT !.wdata = v] \/ b = [a EXCEPT !.size = v]
          \/ b = [a EXCEPT !.flags = Cleared(@, v)]
      BY <1>3, <2>3 DEF WriteRegister, Command, Target, WriteData, Size, Status, ReadData, Pop
    <3>2. \A f : Cleared(f, v) \subseteq f
      BY DEF Cleared
    <3>3. /\ b.target \in {a.target, v} /\ b.wdata \in {a.wdata, v} /\ b.size \in {a.size, v}
          /\ b.rdata = a.rdata /\ b.requests = a.requests /\ b.results = a.results
          /\ b.next = a.next /\ b.flags \subseteq a.flags
      <4> HIDE DEF b
      <4>1. QED
        BY <3>1, <3>2 DEF Window, AdapterFields
    <3> HIDE DEF b
    <3>4. WindowTyped(b)
      BY <3>3 DEF WindowTyped, Registers
    <3>5. QED
      BY <3>4 DEF b
  <2>4. QED
    BY <1>3, <2>1, <2>2, <2>3 DEF Writable
<1>4. QED
  BY <1>1, <1>2, <1>3

\* Any read of one.
LEMMA ReadTypes ==
  ASSUME NEW a, NEW h, NEW reg \in Readable, Window(a, h), WindowTyped(a)
  PROVE  ReadRegister(a, reg) \in Nat
<1>1. /\ a.target \in Nat /\ a.wdata \in Nat /\ a.size \in Nat /\ a.rdata \in Nat
  BY DEF WindowTyped, Registers
<1>2. Len(a.requests) \in Nat /\ Depth \in Nat
  BY ProperFacts, HalfType DEF Window
<1>3. a.results # <<>> => a.results[1].id \in Nat /\ a.results[1].data \in Nat
  <2> SUFFICES ASSUME a.results # <<>> PROVE a.results[1].id \in Nat /\ a.results[1].data \in Nat
    OBVIOUS
  <2>1. 1 \in DOMAIN a.results
    BY ProperFacts DEF Window
  <2>2. QED
    BY <2>1, SystemAssumption DEF WindowTyped, Yields
<1>4. \A f : Bit(f, 1) \in Nat /\ Bit(f, 2) \in Nat /\ Bit(f, 4) \in Nat
  BY DEF Bit
<1> DEFINE status == Bit(Busy(a), 1) + Bit("done" \in a.flags, 2) + Bit("error" \in a.flags, 4)
           data == IF a.results = <<>> THEN a.rdata ELSE a.results[1].data
           id == FirstResult(a, a.results[1].id)
           code == FirstResult(a, IF a.results[1].failed THEN 4 ELSE 2)
           read == ReadRegister(a, reg)
<1>5. status \in Nat
  <2> DEFINE x == Bit(Busy(a), 1)
             y == Bit("done" \in a.flags, 2)
             z == Bit("error" \in a.flags, 4)
  <2>1. x \in Nat /\ y \in Nat /\ z \in Nat
    BY <1>4
  <2> HIDE DEF x, y, z
  <2>2. x + y + z \in Nat
    BY <2>1
  <2>3. QED
    BY <2>2 DEF x, y, z
<1>6. data \in Nat /\ id \in Nat /\ code \in Nat
  <2>1. data \in Nat
    BY <1>1, <1>3
  <2>2. id \in Nat
    BY <1>3 DEF FirstResult
  <2>3. code \in {0, 2, 4}
    BY DEF FirstResult
  <2>4. QED
    BY <2>1, <2>2, <2>3
<1>7. read = CASE reg = 0 -> a.target [] reg = 8 -> a.wdata [] reg = 16 -> a.size [] reg = 24 -> 0
               [] reg = 32 -> status [] reg = 40 -> data [] reg = 48 -> Depth
               [] reg = 56 -> Len(a.requests) [] reg = 64 -> id [] reg = 80 -> code
  BY DEF ReadRegister, Target, WriteData, Size, Command, Status, ReadData, QueueDepth, Outstanding,
         ResultId, ResultStatus
<1>8. reg \in {0, 8, 16, 24, 32, 40, 48, 56, 64, 80}
  BY DEF Readable, Target, WriteData, Size, Command, Status, ReadData, QueueDepth, Outstanding,
         ResultId, ResultStatus
<1> HIDE DEF status, data, id, code, read
<1>9. read \in Nat
  <2>1. /\ reg = 0 => read = a.target
        /\ reg = 8 => read = a.wdata
        /\ reg = 16 => read = a.size
        /\ reg = 24 => read = 0
        /\ reg = 32 => read = status
        /\ reg = 40 => read = data
        /\ reg = 48 => read = Depth
        /\ reg = 56 => read = Len(a.requests)
        /\ reg = 64 => read = id
        /\ reg = 80 => read = code
    BY <1>7
  <2>2. QED
    BY <1>1, <1>2, <1>5, <1>6, <1>8, <2>1
<1>10. QED
  BY <1>9 DEF read

\* A command is sent.
LEMMA SendingTypes ==
  ASSUME NEW a, NEW h, Window(a, h), WindowTyped(a), Unsents(a) # {}
  PROVE  WindowTyped(Sending(a))
<1> DEFINE b == Sending(a)
<1>1. /\ b.target = a.target /\ b.wdata = a.wdata /\ b.size = a.size /\ b.rdata = a.rdata
      /\ b.results = a.results /\ b.next = a.next /\ b.flags = a.flags
  BY DEF Sending, Window, AdapterFields
<1>2. /\ DOMAIN b.requests = DOMAIN a.requests
      /\ \A i \in DOMAIN a.requests : b.requests[i].request = a.requests[i].request
  BY SendKeeps
<1> HIDE DEF b
<1>3. Ranks(b.requests)
  BY <1>2 DEF WindowTyped, Ranks
<1>4. WindowTyped(b)
  BY <1>1, <1>3 DEF WindowTyped, Registers
<1>5. QED
  BY <1>4 DEF b

\* A response completes the oldest command.
LEMMA CompletedTypes ==
  ASSUME NEW a, NEW h, NEW r \in MemoryResponse, Window(a, h), WindowTyped(a), a.requests # <<>>,
         Completed(a, r).requests = Tail(a.requests)
  PROVE  WindowTyped(Completed(a, r))
<1> DEFINE i == CHOOSE k \in Awaiting(a, r) : \A j \in Awaiting(a, r) : k <= j
           q == a.requests[i].request
           failed == Len(r.data) # (IF q.op = "Read" THEN q.size ELSE 0)
           data == IF failed THEN 0 ELSE Number(r.data)
           y == [id |-> r.transaction, data |-> data, failed |-> failed]
           flags == {"done"} \cup (a.flags \cap {"error"}) \cup (IF failed THEN {"error"} ELSE {})
           b == Completed(a, r)
           c == [a EXCEPT !.rdata = data, !.results = IF Depth > 1 THEN Append(@, y) ELSE @,
                          !.requests = RemoveAt(@, i), !.flags = flags]
<1>1. b = c
  BY DEF Completed
<1>2. r.transaction \in 0 .. IdSpace - 1 /\ r.data \in Data
  BY DEF MemoryResponse
<1>3. Number(r.data) \in Nat
  BY <1>2, DataBytes, NumberType
<1>4. data \in Nat
  BY <1>3
<1>5. y.id = r.transaction /\ y.data = data
  OBVIOUS
<1>6. flags \in SUBSET {"done", "error"}
  OBVIOUS
<1> HIDE DEF failed, data, y, flags, b, i
<1>7. /\ b.target = a.target /\ b.wdata = a.wdata /\ b.size = a.size /\ b.rdata = data
      /\ b.results = (IF Depth > 1 THEN Append(a.results, y) ELSE a.results)
      /\ b.next = a.next /\ b.flags = flags
  BY <1>1 DEF Window, AdapterFields
<1>8. Yields(Append(a.results, y))
  BY <1>2, <1>4, <1>5, MoreYields DEF Window, WindowTyped
<1>9. Ranks(b.requests)
  <2>1. Ranks(Tail(a.requests))
    BY FewerRanks DEF Window, WindowTyped
  <2>2. QED
    BY <2>1 DEF b
<1>10. WindowTyped(b)
  BY <1>4, <1>6, <1>7, <1>8, <1>9 DEF WindowTyped, Registers
<1>11. QED
  BY <1>10 DEF b

-------------------------------------------------------------------------------
(***************************************************************************)
(* The types of the harts.                                                 *)
(***************************************************************************)
CoreTyped(c) ==
  /\ c.state \in {"FetchDecode", "ExecuteWait", "MemoryIssue", "MemoryWait", "Halted", "Faulted"}
  /\ c.pc \in Nat /\ c.left \in Nat /\ c.issueLeft \in 0 .. VectorIssue - 1
  /\ c.parts \in Seq(Access)
  /\ c.id \in 0 .. IdSpace - 1 /\ c.next \in 0 .. IdSpace - 1
  /\ c.reg \in Nat /\ c.exit \in Nat

\* What commit, stop, fault and the staging of a request make of a hart's fields.
LEMMA NewTypes ==
  ASSUME NEW c, Fields(c), CoreTyped(c)
  PROVE  /\ \A pc \in Nat : CoreTyped(Committed(c, pc))
         /\ CoreTyped(CommittedNext(c))
         /\ \A code \in Nat : CoreTyped(Stopped(c, code)) /\ CoreTyped(Stopped(CommittedNext(c), code))
         /\ CoreTyped(Faulted(c))
         /\ \A parts \in Seq(Access), n \in 0 .. VectorIssue - 1 : CoreTyped(Staged(c, parts, n))
         /\ \A v \in Nat : CoreTyped([c EXCEPT !.reg = v])
<1>1. DOMAIN c = CoreFields
  BY DEF Fields
<1>2. /\ c.pc \in Nat /\ c.left \in Nat /\ c.issueLeft \in 0 .. VectorIssue - 1
      /\ c.parts \in Seq(Access)
      /\ c.id \in 0 .. IdSpace - 1 /\ c.next \in 0 .. IdSpace - 1
      /\ c.reg \in Nat /\ c.exit \in Nat
      /\ c.state \in {"FetchDecode", "ExecuteWait", "MemoryIssue", "MemoryWait", "Halted", "Faulted"}
  BY DEF CoreTyped
<1>3. <<>> \in Seq(Access)
  OBVIOUS
<1>4. ASSUME NEW pc \in Nat PROVE CoreTyped(Committed(c, pc))
  <2> DEFINE d == Committed(c, pc)
  <2>1. /\ d.pc = pc /\ d.state = "FetchDecode" /\ d.parts = <<>> /\ d.left = c.left
        /\ d.issueLeft = c.issueLeft /\ d.id = c.id /\ d.next = c.next /\ d.reg = c.reg
        /\ d.exit = c.exit
    BY <1>1 DEF Committed, CoreFields
  <2> HIDE DEF d
  <2>2. CoreTyped(d)
    BY <1>2, <1>3, <2>1 DEF CoreTyped
  <2>3. QED
    BY <2>2 DEF d
<1>5. CoreTyped(CommittedNext(c)) /\ Fields(CommittedNext(c))
  <2>1. c.pc + 1 \in Nat
    BY <1>2
  <2>2. Fields(CommittedNext(c))
    BY NewFields DEF Running
  <2>3. QED
    BY <1>4, <2>1, <2>2 DEF CommittedNext
<1>6. ASSUME NEW b, Fields(b), CoreTyped(b), NEW code \in Nat PROVE CoreTyped(Stopped(b, code))
  <2> DEFINE d == Stopped(b, code)
  <2>1. /\ d.pc = b.pc /\ d.state = "Halted" /\ d.parts = b.parts /\ d.left = b.left
        /\ d.issueLeft = b.issueLeft /\ d.id = b.id /\ d.next = b.next /\ d.reg = b.reg
        /\ d.exit = code
    BY <1>6 DEF Stopped, CoreFields, Fields
  <2> HIDE DEF d
  <2>2. CoreTyped(d)
    BY <1>6, <2>1 DEF CoreTyped
  <2>3. QED
    BY <2>2 DEF d
<1>7. CoreTyped(Faulted(c))
  <2> DEFINE d == Faulted(c)
  <2>1. /\ d.pc = c.pc /\ d.state = "Faulted" /\ d.parts = <<>> /\ d.left = c.left
        /\ d.issueLeft = c.issueLeft /\ d.id = c.id /\ d.next = c.next /\ d.reg = c.reg
        /\ d.exit = 125
    BY <1>1 DEF Faulted, CoreFields
  <2> HIDE DEF d
  <2>2. CoreTyped(d)
    BY <1>2, <1>3, <2>1 DEF CoreTyped
  <2>3. QED
    BY <2>2 DEF d
<1>8. ASSUME NEW parts \in Seq(Access), NEW n \in 0 .. VectorIssue - 1
      PROVE  CoreTyped(Staged(c, parts, n))
  <2> DEFINE d == Staged(c, parts, n)
  <2>1. /\ d.pc = c.pc /\ d.state = "MemoryIssue" /\ d.parts = parts /\ d.left = c.left
        /\ d.issueLeft = n /\ d.id = c.next /\ d.next = (c.next + 1) % IdSpace /\ d.reg = c.reg
        /\ d.exit = c.exit
    BY <1>1 DEF Staged, CoreFields
  <2>2. (c.next + 1) % IdSpace \in 0 .. IdSpace - 1
    <3>1. c.next + 1 \in Int /\ IdSpace \in Nat \ {0}
      BY <1>2, SystemAssumption
    <3>2. QED
      BY <3>1
  <2> HIDE DEF d
  <2>3. CoreTyped(d)
    BY <1>2, <2>1, <2>2 DEF CoreTyped
  <2>4. QED
    BY <2>3 DEF d
<1>9. ASSUME NEW v \in Nat PROVE CoreTyped([c EXCEPT !.reg = v])
  <2> DEFINE d == [c EXCEPT !.reg = v]
  <2>1. /\ d.pc = c.pc /\ d.state = c.state /\ d.parts = c.parts /\ d.left = c.left
        /\ d.issueLeft = c.issueLeft /\ d.id = c.id /\ d.next = c.next /\ d.reg = v
        /\ d.exit = c.exit
    BY <1>1 DEF CoreFields
  <2> HIDE DEF d
  <2>2. CoreTyped(d)
    BY <1>2, <2>1 DEF CoreTyped
  <2>3. QED
    BY <2>2 DEF d
<1>10. QED
  BY <1>4, <1>5, <1>6, <1>7, <1>8, <1>9

\* The data of the access a hart issues is a number.
LEMMA PartTypes ==
  ASSUME NEW h \in Hart, CoreTyped(core[h]), core[h].parts # <<>>
  PROVE  Number(Part(h).data) \in Nat /\ Part(h) \in Access
<1> DEFINE s == core[h].parts
<1>1. s \in Seq(Access) /\ s # <<>>
  BY DEF CoreTyped
<1> HIDE DEF s
<1>2. s[1] \in Access
  BY <1>1
<1>3. Part(h) \in Access
  BY <1>2 DEF s, Part
<1>4. Part(h).data \in Seq(Byte)
  BY <1>3 DEF Access
<1>5. QED
  BY <1>3, <1>4, NumberType

\* So is what a CSR instruction reads of the window, and what it writes.
LEMMA CsrTypes ==
  ASSUME IInv, NEW h \in Hart, WindowTyped(adapter[h]), Ready(h, {"Csr"})
  PROVE  LET i == Pending(h)
             old == CsrRead(h, i.register)
         IN old \in Nat /\ CsrValue(i, old) \in Nat
            /\ (i.register \notin {ReadData, ResultId} => i.register \in Writable)
<1> DEFINE i == Pending(h)
           r == i.register
           old == CsrRead(h, r)
<1>1. Window(adapter[h], h) /\ core[h].pc \in DOMAIN Image /\ i.kind = "Csr"
  BY DEF IInv, Fields, Ready, State
<1>2. /\ r \in {Target, Command, WriteData, ReadData, Status, Size, ResultId, Pop}
      /\ i.mode \in {"Swap", "Set", "Clear"} /\ i.source \in Nat
  BY <1>1, ImageAssumption DEF Pending
<1>3. r \in Readable \/ r = Pop
  BY <1>2 DEF Readable
<1>4. r \notin {ReadData, ResultId} => r \in Writable
  BY <1>2 DEF Writable
<1> HIDE DEF i, r
<1>5. old \in Nat
  <2>1. CASE r = Pop
    BY <2>1 DEF CsrRead
  <2>2. CASE r # Pop
    <3>1. r \in Readable
      BY <1>3, <2>2
    <3>2. ReadRegister(adapter[h], r) \in Nat
      BY <1>1, <3>1, ReadTypes
    <3>3. QED
      BY <2>2, <3>2 DEF CsrRead
  <2>3. QED
    BY <2>1, <2>2
<1> HIDE DEF old
<1>6. CsrValue(i, old) \in Nat
  BY <1>2, CsrValueType
<1>7. QED
  BY <1>4, <1>5, <1>6 DEF i, r, old

\* The turn of a hart keeps the types of its fields.
LEMMA HartTypes ==
  ASSUME IInv, NEW h \in Hart, CoreTick(h), Follows(core[h]), CoreTyped(core[h]),
         WindowTyped(adapter[h]), BusTyped(transit, inbox, accepted)
  PROVE  core' = core \/ \E c : core' = [core EXCEPT ![h] = c] /\ CoreTyped(c)
<1> DEFINE b == core[h]
           i == Pending(h)
<1>1. Fields(b) /\ DOMAIN core = Hart
  BY DEF IInv
<1>2. DOMAIN b = CoreFields
  BY <1>1 DEF Fields
<1>3. /\ b.pc \in Nat /\ b.left \in Nat /\ b.issueLeft \in 0 .. VectorIssue - 1
      /\ b.parts \in Seq(Access)
  BY DEF CoreTyped
<1>4. b.state = "ExecuteWait" => b.pc \in DOMAIN Image /\ i = Image[b.pc]
  BY <1>1 DEF Fields, Pending
<1>5. VectorIssue - 1 \in 0 .. VectorIssue - 1
  BY CoreAssumption
<1>6. CASE Fetch(h)
  <2> DEFINE k == i.latency
             d == [b EXCEPT !.state = "ExecuteWait", !.left = k]
             c == IF b.pc \in DOMAIN Image THEN d ELSE Faulted(b)
  <2>1. core' = [core EXCEPT ![h] = c]
    BY <1>6 DEF Fetch, Only, Becomes
  <2>2. CoreTyped(Faulted(b))
    BY <1>1, NewTypes
  <2>3. ASSUME b.pc \in DOMAIN Image PROVE CoreTyped(d)
    <3>1. k \in Nat
      BY <2>3, ImageAssumption DEF Pending
    <3> HIDE DEF k
    <3>2. /\ d.pc = b.pc /\ d.state = "ExecuteWait" /\ d.parts = b.parts /\ d.left = k
          /\ d.issueLeft = b.issueLeft /\ d.id = b.id /\ d.next = b.next /\ d.reg = b.reg
          /\ d.exit = b.exit
      BY <1>2 DEF CoreFields
    <3> HIDE DEF d
    <3>3. QED
      BY <3>1, <3>2 DEF CoreTyped
  <2> HIDE DEF d
  <2>4. CoreTyped(c)
    BY <2>2, <2>3
  <2>5. QED
    BY <2>1, <2>4
<1>7. CASE Hold(h) \/ IssueBlocked(h) \/ Wait(h) \/ Rest(h)
  BY <1>7 DEF Hold, IssueBlocked, Wait, Rest
<1>8. CASE Execute(h)
  <2> DEFINE c == [b EXCEPT !.left = @ - 1]
  <2>1. core' = [core EXCEPT ![h] = c] /\ b.left > 1
    BY <1>8 DEF Execute, Only, Becomes
  <2>2. /\ c.pc = b.pc /\ c.state = b.state /\ c.parts = b.parts /\ c.left = b.left - 1
        /\ c.issueLeft = b.issueLeft /\ c.id = b.id /\ c.next = b.next /\ c.reg = b.reg
        /\ c.exit = b.exit
    BY <1>2 DEF CoreFields
  <2>3. b.left - 1 \in Nat
    BY <1>3, <2>1
  <2> HIDE DEF c
  <2>4. CoreTyped(c)
    BY <2>2, <2>3 DEF CoreTyped
  <2>5. QED
    BY <2>1, <2>4
<1>9. CASE ExecutePlain(h)
  <2> DEFINE target == b.pc + i.offset
             branches == i.kind = "Branch" /\ b.reg \in i.taken
             c == IF branches THEN Committed(b, target) ELSE CommittedNext(b)
  <2>1. core' = [core EXCEPT ![h] = c] /\ b.state = "ExecuteWait"
    BY <1>9 DEF ExecutePlain, Only, Becomes, Ready, State
  <2>2. branches => target \in Nat
    BY <1>4, <2>1, ImageAssumption
  <2> HIDE DEF target, branches
  <2>3. CoreTyped(c)
    <3>1. CASE branches
      BY <1>1, <2>2, <3>1, NewTypes
    <3>2. CASE ~branches
      BY <1>1, <3>2, NewTypes
    <3>3. QED
      BY <3>1, <3>2
  <2> HIDE DEF c
  <2>4. QED
    BY <2>1, <2>3
<1>10. CASE ExecuteStop(h)
  <2> DEFINE code == i.code
             c == IF i.kind = "Stop" THEN Stopped(b, code) ELSE Faulted(b)
  <2>1. core' = [core EXCEPT ![h] = c] /\ b.state = "ExecuteWait"
    BY <1>10 DEF ExecuteStop, Only, Becomes, Ready, State
  <2>2. i.kind = "Stop" => code \in Nat
    BY <1>4, <2>1, ImageAssumption
  <2> HIDE DEF code
  <2>3. CoreTyped(c)
    <3>1. CASE i.kind = "Stop"
      BY <1>1, <2>2, <3>1, NewTypes
    <3>2. CASE i.kind # "Stop"
      BY <1>1, <3>2, NewTypes
    <3>3. QED
      BY <3>1, <3>2
  <2> HIDE DEF c
  <2>4. QED
    BY <2>1, <2>3
<1>11. CASE ExecuteMemory(h)
  <2> DEFINE ps == i.parts
             c == CASE i.kind \in {"Load", "Store"} -> Staged(b, ps, b.issueLeft)
                    [] ps = <<>> -> CommittedNext(b)
                    [] OTHER -> Staged(b, ps, VectorIssue - 1)
  <2>1. /\ core' = [core EXCEPT ![h] = c] /\ b.state = "ExecuteWait"
        /\ i.kind \in {"Load", "Store", "VLoad", "VStore"}
    BY <1>11 DEF ExecuteMemory, Only, Becomes, Ready, State
  <2>2. ps \in Seq(Access)
    BY <1>4, <2>1, ImageAssumption
  <2>3. /\ CoreTyped(Staged(b, ps, b.issueLeft)) /\ CoreTyped(Staged(b, ps, VectorIssue - 1))
        /\ CoreTyped(CommittedNext(b))
    <3>1. CoreTyped(b)
      OBVIOUS
    <3> HIDE DEF ps, b
    <3>2. QED
      BY <1>1, <1>3, <1>5, <2>2, <3>1, NewTypes
  <2>4. \/ c = Staged(b, ps, b.issueLeft) \/ c = CommittedNext(b) \/ c = Staged(b, ps, VectorIssue - 1)
    OBVIOUS
  <2> HIDE DEF c, ps
  <2>5. CoreTyped(c)
    BY <2>3, <2>4
  <2>6. QED
    BY <2>1, <2>5
<1>12. CASE ExecuteCsr(h)
  <2> DEFINE old == CsrRead(h, i.register)
             d == [b EXCEPT !.reg = old]
             illegal == /\ i.mode = "Swap" \/ i.source # 0
                        /\ i.register \in {ReadData, ResultId}
             c == IF illegal THEN Faulted(d) ELSE CommittedNext(d)
  <2>1. core' = [core EXCEPT ![h] = c] /\ Ready(h, {"Csr"})
    BY <1>12 DEF ExecuteCsr, Becomes
  <2>2. old \in Nat
    BY <2>1, CsrTypes
  <2>3. Fields(d) /\ CoreTyped(d)
    <3> HIDE DEF old, b
    <3>1. QED
      BY <1>1, <2>2, NewFields, NewTypes DEF b
  <2> HIDE DEF d, illegal
  <2>4. CoreTyped(Faulted(d)) /\ CoreTyped(CommittedNext(d))
    BY <2>3, NewTypes
  <2>5. CoreTyped(c)
    BY <2>4
  <2>6. QED
    BY <2>1, <2>5
<1>13. CASE IssueDelay(h)
  <2> DEFINE c == [b EXCEPT !.issueLeft = @ - 1]
  <2>1. core' = [core EXCEPT ![h] = c] /\ b.issueLeft > 0
    BY <1>13 DEF IssueDelay, Only, Becomes
  <2>2. /\ c.pc = b.pc /\ c.state = b.state /\ c.parts = b.parts /\ c.left = b.left
        /\ c.issueLeft = b.issueLeft - 1 /\ c.id = b.id /\ c.next = b.next /\ c.reg = b.reg
        /\ c.exit = b.exit
    BY <1>2 DEF CoreFields
  <2>3. b.issueLeft - 1 \in 0 .. VectorIssue - 1
    BY <1>3, <2>1, CoreAssumption
  <2> HIDE DEF c
  <2>4. CoreTyped(c)
    BY <2>2, <2>3 DEF CoreTyped
  <2>5. QED
    BY <2>1, <2>4
<1>14. CASE IssueLocal(h)
  <2> DEFINE reg == Register(Part(h).address, Part(h).size)
             legal == ~Vector(h) /\ reg \in (IF IsWrite(h) THEN Writable ELSE Readable)
             v == ReadRegister(adapter[h], reg)
             d == [b EXCEPT !.reg = v]
             c == IF ~legal THEN Faulted(b) ELSE IF IsWrite(h) THEN CommittedNext(b) ELSE CommittedNext(d)
  <2>1. core' = [core EXCEPT ![h] = c]
    BY <1>14 DEF IssueLocal, Becomes
  <2>2. ASSUME legal, ~IsWrite(h) PROVE CoreTyped(CommittedNext(d))
    <3>1. Window(adapter[h], h) /\ reg \in Readable
      BY <2>2 DEF IInv
    <3> HIDE DEF reg
    <3>2. v \in Nat
      BY <3>1, ReadTypes
    <3> HIDE DEF v, b
    <3>3. Fields(d) /\ CoreTyped(d)
      BY <1>1, <3>2, NewFields, NewTypes DEF b
    <3> HIDE DEF d
    <3>4. QED
      BY <3>3, NewTypes
  <2>3. CoreTyped(Faulted(b)) /\ CoreTyped(CommittedNext(b))
    BY <1>1, NewTypes
  <2> HIDE DEF legal, d
  <2>4. CoreTyped(c)
    BY <2>2, <2>3
  <2>5. QED
    BY <2>1, <2>4
<1>15. CASE IssueSend(h)
  <2> DEFINE c == [b EXCEPT !.state = "MemoryWait"]
  <2>1. core' = [core EXCEPT ![h] = c]
    BY <1>15 DEF IssueSend, Becomes
  <2>2. /\ c.pc = b.pc /\ c.state = "MemoryWait" /\ c.parts = b.parts /\ c.left = b.left
        /\ c.issueLeft = b.issueLeft /\ c.id = b.id /\ c.next = b.next /\ c.reg = b.reg
        /\ c.exit = b.exit
    BY <1>2 DEF CoreFields
  <2> HIDE DEF c
  <2>3. CoreTyped(c)
    BY <2>2 DEF CoreTyped
  <2>4. QED
    BY <2>1, <2>3
<1>16. CASE Receive(h)
  <2> DEFINE r == Received(h, Response)
             c == IF Misfit(h, r) THEN Faulted(b) ELSE Answered(h, r)
             ps == b.parts
             x == Number(r.data)
             d == [b EXCEPT !.reg = x]
             n == Number(Part(h).data)
             y == ExitCode(n)
             t == Tail(ps)
             e == Staged(b, t, VectorIssue - 1)
  <2>1. /\ core' = [core EXCEPT ![h] = c] /\ b.state = "MemoryWait"
        /\ inbox[h][Response] # <<>>
    BY <1>16 DEF Receive, Becomes, State, CanRecv
  <2>2. ps # <<>>
    BY <2>1 DEF Follows, Resting
  <2>3. x \in Nat
    <3>1. Head(inbox[h][Response]) \in Sealed(Response)
      BY <2>1, Places, RecvTypes
    <3>2. r \in MemoryResponse
      BY <3>1, SealedBodies DEF Received
    <3>3. r.data \in Data
      BY <3>2 DEF MemoryResponse
    <3>4. QED
      BY <3>3, DataBytes, NumberType
  <2>4. y \in Nat
    <3>1. n \in Nat
      BY <2>2, PartTypes
    <3> HIDE DEF n
    <3>2. n \div 2 \in Nat
      BY <3>1
    <3>3. QED
      BY <3>2 DEF ExitCode
  <2>5. \/ c = Faulted(b) \/ c = e
        \/ c = Stopped(CommittedNext(b), y) \/ c = CommittedNext(d) \/ c = CommittedNext(b)
    BY DEF Answered
  <2>6. Fields(d) /\ CoreTyped(d)
    <3> HIDE DEF x, b
    <3>1. QED
      BY <1>1, <2>3, NewFields, NewTypes DEF b
  <2>7. CoreTyped(e)
    <3> HIDE DEF b
    <3>1. t \in Seq(Access)
      BY <1>3, <2>2
    <3> HIDE DEF t
    <3>2. QED
      BY <1>1, <1>5, <3>1, NewTypes DEF b
  <2> HIDE DEF c, d, y, e
  <2>8. /\ CoreTyped(Faulted(b)) /\ CoreTyped(CommittedNext(b)) /\ CoreTyped(CommittedNext(d))
        /\ CoreTyped(Stopped(CommittedNext(b), y))
    BY <1>1, <2>4, <2>6, NewTypes
  <2>9. CoreTyped(c)
    BY <2>5, <2>7, <2>8
  <2>10. QED
    BY <2>1, <2>9
<1>17. QED
  BY <1>6, <1>7, <1>8, <1>9, <1>10, <1>11, <1>12, <1>13, <1>14, <1>15, <1>16 DEF CoreTick

\* It keeps those of its window.
LEMMA HartWindows ==
  ASSUME IInv, NEW h \in Hart, CoreTick(h), Follows(core[h]), CoreTyped(core[h]),
         WindowTyped(adapter[h])
  PROVE  adapter' = adapter \/ \E a : adapter' = [adapter EXCEPT ![h] = a] /\ WindowTyped(a)
<1> DEFINE a == adapter[h]
           i == Pending(h)
<1>1. Window(a, h) /\ DOMAIN adapter = Hart
  BY DEF IInv
<1>2. CASE ExecuteCsr(h)
  <2> DEFINE r == i.register
             old == CsrRead(h, r)
             v == CsrValue(i, old)
             writes == i.mode = "Swap" \/ i.source # 0
             illegal == writes /\ r \in {ReadData, ResultId}
             b == WriteRegister(a, h, r, v)
  <2>1. /\ adapter' = IF writes /\ ~illegal THEN [adapter EXCEPT ![h] = b] ELSE adapter
        /\ Ready(h, {"Csr"})
    BY <1>1, <1>2 DEF ExecuteCsr
  <2>2. v \in Nat /\ (r \notin {ReadData, ResultId} => r \in Writable)
    BY <2>1, CsrTypes
  <2>3. ASSUME writes, ~illegal PROVE WindowTyped(b)
    <3>1. r \in Writable
      BY <2>2, <2>3
    <3> HIDE DEF v, r
    <3>2. QED
      BY <1>1, <2>2, <3>1, WriteTypes
  <2> HIDE DEF b, illegal, writes
  <2>4. QED
    BY <2>1, <2>3
<1>3. CASE IssueLocal(h)
  <2> DEFINE reg == Register(Part(h).address, Part(h).size)
             legal == ~Vector(h) /\ reg \in (IF IsWrite(h) THEN Writable ELSE Readable)
             v == Number(Part(h).data)
             b == WriteRegister(a, h, reg, v)
  <2>1. /\ adapter' = IF legal /\ IsWrite(h) THEN [adapter EXCEPT ![h] = b] ELSE adapter
        /\ State(h) = "MemoryIssue"
    BY <1>1, <1>3 DEF IssueLocal, Issuing
  <2>2. core[h].parts # <<>>
    BY <2>1 DEF Follows, Resting, State
  <2>3. ASSUME legal, IsWrite(h) PROVE WindowTyped(b)
    <3>1. reg \in Writable
      BY <2>3
    <3>2. v \in Nat
      BY <2>2, PartTypes
    <3> HIDE DEF v, reg
    <3>3. QED
      BY <1>1, <3>1, <3>2, WriteTypes
  <2> HIDE DEF b, legal
  <2>4. QED
    BY <2>1, <2>3
<1>4. CASE ~ExecuteCsr(h) /\ ~IssueLocal(h)
  BY <1>4 DEF CoreTick, Fetch, Hold, Execute, ExecutePlain, ExecuteStop, ExecuteMemory, IssueDelay,
              IssueBlocked, IssueSend, Wait, Receive, Rest, Only
<1>5. QED
  BY <1>2, <1>3, <1>4

\* The access that a hart issues to the bus is one of the memory's.
LEMMA IssuedWithin ==
  ASSUME NEW h \in Hart, ProgramsWithin, Follows(core[h]), CoreTyped(core[h]), Issuing(h), ~InWindow(h)
  PROVE  Good(RequestOf(h))
<1> DEFINE b == RequestOf(h)
           i == Pending(h)
           a == Part(h)
           op == IF i.kind \in {"Store", "VStore"} THEN "Write" ELSE "Read"
<1>1. AccessOf(b) = [op |-> op, address |-> a.address, size |-> a.size, data |-> a.data]
  BY DEF AccessOf, RequestOf, IsWrite
<1>2. /\ core[h].pc \in DOMAIN Image /\ i.kind \in {"Load", "Store", "VLoad", "VStore"}
      /\ Proper(core[h].parts) /\ core[h].parts # <<>>
      /\ Elements(core[h].parts) \subseteq Elements(i.parts)
  BY DEF Follows, Resting, Issuing, State, Pending
<1>3. ~Overlaps(a.address, a.size)
  BY DEF InWindow
<1>4. a \in Elements(core[h].parts)
  BY <1>2, ProperFacts DEF Elements, Part
<1>5. PICK n \in DOMAIN i.parts : a = i.parts[n]
  BY <1>2, <1>4 DEF Elements
<1>6. \A m \in DOMAIN i.parts :
        LET x == i.parts[m] IN
        \/ Overlaps(x.address, x.size)
        \/ [op |-> op, address |-> x.address, size |-> x.size, data |-> x.data] \in Accesses
  BY <1>2 DEF ProgramsWithin, InstructionsWithin, Pending
<1>7. Record(b) /\ b.hart = h /\ b.transaction = core[h].id
  BY DEF RequestOf, Record
<1>8. core[h].id \in 0 .. IdSpace - 1
  BY DEF CoreTyped
<1> HIDE DEF b, i, a, op
<1>9. [op |-> op, address |-> a.address, size |-> a.size, data |-> a.data] \in Accesses
  BY <1>3, <1>5, <1>6
<1>10. Good(b)
  BY <1>1, <1>7, <1>8, <1>9 DEF Good
<1>11. QED
  BY <1>10 DEF b

\* And those of the bus.
LEMMA HartSends ==
  ASSUME NEW h \in Hart, CoreTick(h), ProgramsWithin, Follows(core[h]), CoreTyped(core[h]),
         BusTyped(transit, inbox, accepted)
  PROVE  BusTyped(transit', inbox', accepted')
<1>1. CASE IssueSend(h)
  <2> DEFINE b == RequestOf(h)
             m == [id |-> accepted + 1, src |-> h, dst |-> MemoryPort, channel |-> Request, body |-> b]
  <2>1. Bus!Send(h, MemoryPort, Request, b) /\ Good(b)
    BY <1>1, IssuedWithin DEF IssueSend
  <2> HIDE DEF b
  <2>2. transit' = transit \cup {m} /\ inbox' = inbox /\ accepted' = accepted + 1
    BY <2>1 DEF Bus!Send
  <2>3. BusTyped(transit \cup {m}, inbox, accepted + 1)
    BY <2>1, Places, SendTypes
  <2> HIDE DEF m
  <2>4. QED
    BY <2>2, <2>3
<1>2. CASE Receive(h)
  <2>1. inbox[h][Response] # <<>> /\ Bus!Recv(h, Response)
    BY <1>2 DEF Receive, CanRecv
  <2>2. /\ inbox' = [inbox EXCEPT ![h][Response] = Tail(@)]
        /\ transit' = transit /\ accepted' = accepted
    BY <2>1 DEF Bus!Recv
  <2>3. QED
    BY <2>1, <2>2, Places, RecvTypes
<1>3. CASE ~IssueSend(h) /\ ~Receive(h)
  <2>1. UNCHANGED busVars
    BY <1>3 DEF CoreTick, Fetch, Hold, Execute, ExecutePlain, ExecuteStop, ExecuteMemory, ExecuteCsr,
                IssueDelay, IssueLocal, IssueBlocked, Wait, Rest, Only
  <2>2. QED
    BY <2>1 DEF busVars
<1>4. QED
  BY <1>1, <1>2, <1>3

\* The turn of a window: what it sends is one of its commands, what it takes a response.
LEMMA WindowTypes ==
  ASSUME IInv, NEW h \in Hart, NEW sent \in BOOLEAN, AdapterTick(h, sent), UNCHANGED memoryVars,
         ProgramsWithin, WindowTyped(adapter[h]), BusTyped(transit, inbox, accepted)
  PROVE  /\ BusTyped(transit', inbox', accepted')
         /\ \E a : adapter' = [adapter EXCEPT ![h] = a] /\ WindowTyped(a)
<1> DEFINE a == AdapterAfter(h, sent)
           r == Received(h, Response)
           ids == Ids(transit', inbox, queue, active, response)
<1>1. Window(adapter[h], h) /\ Matched(h)
  BY DEF IInv
<1>2. /\ Settled(transit', accepted', inbox, queue, active, response)
      /\ Window(a, h)
      /\ IF State(h) = "MemoryWait" THEN a = adapter[h] /\ ids[h] = IdsUnderWay[h]
                                    ELSE ids[h] = SentIds(a)
  BY WindowSends
<1>3. ~AdapterThrows(h, sent)
  BY WindowKeeps
<1>4. WindowTyped(a) /\ BusTyped(transit', inbox, accepted')
  <2>1. CASE ~sent
    BY <2>1 DEF AdapterTick, AdapterAfter
  <2>2. CASE sent
    <3> DEFINE b == adapter[h]
               k == NextUnsent(b)
               q == b.requests[k].request
               m == [id |-> accepted + 1, src |-> h, dst |-> MemoryPort, channel |-> Request, body |-> q]
    <3>1. /\ Unsents(b) # {} /\ a = Sending(b)
          /\ accepted' = accepted + 1 /\ transit' = transit \cup {m}
      BY <2>2 DEF AdapterTick, AdapterAfter
    <3>2. WindowTyped(Sending(b))
      <4> HIDE DEF b
      <4>1. QED
        BY <1>1, <3>1, SendingTypes DEF b
    <3>3. k \in DOMAIN b.requests
      <4>1. Window(b, h) /\ Unsents(b) # {}
        BY <1>1, <3>1
      <4> HIDE DEF b
      <4>2. QED
        BY <4>1, SendKeeps
    <3>4. Good(q)
      <4>1. Record(q) /\ q.transaction \in 0 .. IdSpace - 1
        BY <3>3 DEF WindowTyped, Ranks
      <4>2. q.hart = h
        BY <1>1, <3>3 DEF Window
      <4>3. AccessOf(q) \in Accesses
        BY <3>3 DEF ProgramsWithin, CommandsWithin, Commands
      <4> HIDE DEF q
      <4>4. QED
        BY <4>1, <4>2, <4>3 DEF Good
    <3> HIDE DEF q
    <3>5. BusTyped(transit \cup {m}, inbox, accepted + 1)
      BY <3>4, Places, SendTypes
    <3> HIDE DEF m, b
    <3>6. QED
      BY <3>1, <3>2, <3>5
  <2>3. QED
    BY <2>1, <2>2
<1>5. CASE ~AdapterTakes(h)
  <2>1. adapter' = [adapter EXCEPT ![h] = a] /\ inbox' = inbox
    BY <1>5 DEF AdapterTick
  <2> HIDE DEF a
  <2>2. QED
    BY <1>4, <2>1
<1>6. CASE AdapterTakes(h)
  <2>1. Busy(adapter[h]) /\ inbox[h][Response] # <<>>
    BY <1>6 DEF AdapterTakes, CanRecv
  <2>2. State(h) # "MemoryWait"
    BY <1>1, <2>1 DEF Matched
  <2>3. ids[h] = SentIds(a)
    BY <1>2, <2>2
  <2>4. r.hart = h /\ r.transaction \in ids[h] /\ \A i \in ids[h] : i \in Int /\ r.transaction <= i
    BY <1>2, <2>1, TakeResponse DEF Received
  <2>5. /\ adapter' = [adapter EXCEPT ![h] = Completed(a, r)]
        /\ inbox' = [inbox EXCEPT ![h][Response] = Tail(@)]
    BY <1>3, <1>6 DEF AdapterTick
  <2>6. /\ BusTyped(transit', [inbox EXCEPT ![h][Response] = Tail(@)], accepted')
        /\ Head(inbox[h][Response]) \in Sealed(Response)
    BY <1>4, <2>1, Places, RecvTypes
  <2>7. r \in MemoryResponse
    BY <2>6, SealedBodies DEF Received
  <2> HIDE DEF a, ids, r
  <2>8. /\ Completed(a, r).requests = Tail(a.requests) /\ 1 \in DOMAIN a.requests
    BY <1>2, <2>3, <2>4, CompleteKeeps
  <2>9. a.requests # <<>>
    BY <2>8, ProperEmpty
  <2>10. WindowTyped(Completed(a, r))
    BY <1>2, <1>4, <2>7, <2>8, <2>9, CompletedTypes
  <2>11. QED
    BY <2>5, <2>6, <2>10
<1>7. QED
  BY <1>5, <1>6

-------------------------------------------------------------------------------
(***************************************************************************)
(* All the types together.                                                 *)
(***************************************************************************)
TInv ==
  /\ turn \in 0 .. 2 * Cores + 1
  /\ \A h \in Hart : CoreTyped(core[h]) /\ WindowTyped(adapter[h])
  /\ MemoryTyped
  /\ BusTyped(transit, inbox, accepted)

\* They hold at the start.
LEMMA StartsTyped == Init => TInv
<1> SUFFICES ASSUME Init PROVE TInv
  OBVIOUS
<1>1. turn \in 0 .. 2 * Cores + 1
  BY SystemAssumption DEF Init
<1>2. ASSUME NEW h \in Hart PROVE CoreTyped(core[h])
  <2>1. PICK entry \in Entries :
          core = [g \in Hart |->
            [pc |-> entry[g], state |-> "FetchDecode", left |-> 0, issueLeft |-> 0, parts |-> <<>>,
             id |-> 0, next |-> 1 % IdSpace, reg |-> 0, exit |-> 0]]
    BY DEF Init, CoreInit
  <2>2. entry[h] \in Nat
    BY CoreAssumption
  <2>3. 1 % IdSpace \in 0 .. IdSpace - 1 /\ 0 \in 0 .. IdSpace - 1 /\ 0 \in 0 .. VectorIssue - 1
    BY SystemAssumption, CoreAssumption
  <2>4. <<>> \in Seq(Access)
    OBVIOUS
  <2>5. QED
    BY <2>1, <2>2, <2>3, <2>4 DEF CoreTyped
<1>3. ASSUME NEW h \in Hart PROVE WindowTyped(adapter[h])
  <2> DEFINE a == adapter[h]
  <2>1. /\ a.target = 0 /\ a.wdata = 0 /\ a.size = 8 /\ a.rdata = 0 /\ a.flags = {}
        /\ a.requests = <<>> /\ a.results = <<>> /\ a.next = 0
    BY DEF Init, AdapterInit
  <2> HIDE DEF a
  <2>2. 0 \in 0 .. Half - 1
    BY Halves
  <2>3. Ranks(a.requests) /\ Yields(a.results)
    BY <2>1, ProperEmpty DEF Ranks, Yields
  <2>4. WindowTyped(a)
    BY <2>1, <2>2, <2>3 DEF WindowTyped, Registers
  <2>5. QED
    BY <2>4 DEF a
<1>4. MemoryTyped
  <2>1. <<>> \in Seq(Goods) /\ <<>> \in Seq(InService) /\ <<>> \in Seq(MemoryResponse)
    OBVIOUS
  <2>2. Len(<<>>) <= QueueCapacity
    BY MemoryAssumption
  <2>3. bytes \in [Address -> Byte]
    BY SystemAssumption DEF Init, MemoryInit
  <2>4. QED
    BY <2>1, <2>2, <2>3 DEF Init, MemoryInit, MemoryTyped
<1>5. BusTyped(transit, inbox, accepted)
  <2>1. transit = {} /\ inbox = [p \in Port |-> [c \in Channel |-> <<>>]] /\ accepted = 0
    BY DEF Init, Bus!Init
  <2>2. \A c : <<>> \in Seq(Sealed(c))
    OBVIOUS
  <2>3. inbox = [p \in Port |-> [c \in Channel |-> inbox[p][c]]]
    BY <2>1
  <2>4. \A p \in Port, c \in Channel : inbox[p][c] = <<>>
    BY <2>1
  <2>5. QED
    BY <2>1, <2>2, <2>3, <2>4 DEF BusTyped
<1>6. QED
  BY <1>1, <1>2, <1>3, <1>4, <1>5 DEF TInv

\* Every step keeps them.
LEMMA StepTypes ==
  ASSUME IInv, CInv, TInv, ProgramsWithin, [Next]_vars
  PROVE  TInv'
<1>1. /\ turn \in 0 .. 2 * Cores + 1
      /\ \A h \in Hart : CoreTyped(core[h]) /\ WindowTyped(adapter[h])
      /\ MemoryTyped /\ BusTyped(transit, inbox, accepted)
      /\ DOMAIN core = Hart /\ DOMAIN adapter = Hart
  BY DEF TInv, IInv
<1>2. Cores \in Nat \ {0}
  BY SystemAssumption
<1>3. UNCHANGED memoryVars => MemoryTyped'
  BY <1>1 DEF memoryVars, MemoryTyped
<1>4. CASE RunEnded \/ UNCHANGED vars
  <2>1. /\ turn' = turn /\ core' = core /\ adapter' = adapter /\ UNCHANGED memoryVars
        /\ transit' = transit /\ inbox' = inbox /\ accepted' = accepted
    BY <1>4 DEF RunEnded, vars, busVars
  <2>2. QED
    BY <1>1, <1>3, <2>1 DEF TInv
<1>5. CASE MemoryTurn
  <2>1. turn' = 1 /\ core' = core /\ adapter' = adapter /\ MemoryTick
    BY <1>5 DEF MemoryTurn
  <2>2. MemoryTyped' /\ BusTyped(transit', inbox', accepted')
    BY <1>1, <2>1, ControllerTypes DEF IInv
  <2>3. 1 \in 0 .. 2 * Cores + 1
    BY <1>2
  <2>4. QED
    BY <1>1, <2>1, <2>2, <2>3 DEF TInv
<1>6. CASE BusTurn
  <2>1. turn' = 0 /\ core' = core /\ adapter' = adapter /\ UNCHANGED memoryVars /\ BusTick
    BY <1>6 DEF BusTurn
  <2>2. BusTyped(transit', inbox', accepted')
    BY <1>1, <2>1, ArriveTypes
  <2>3. 0 \in 0 .. 2 * Cores + 1
    BY <1>2
  <2>4. QED
    BY <1>1, <1>3, <2>1, <2>2, <2>3 DEF TInv
<1>7. ASSUME NEW h \in Hart, WindowTurn(h) PROVE TInv'
  <2>1. PICK sent \in BOOLEAN :
          /\ AdapterTick(h, sent)
          /\ core' = IF AdapterThrows(h, sent) THEN [core EXCEPT ![h] = Faulted(@)] ELSE core
    BY <1>7 DEF WindowTurn
  <2>2. turn' = 2 * h + 2 /\ UNCHANGED memoryVars
    BY <1>7 DEF WindowTurn, Hart
  <2>3. core' = core
    BY <2>1, <2>2, WindowKeeps
  <2>4. /\ BusTyped(transit', inbox', accepted')
        /\ \E a : adapter' = [adapter EXCEPT ![h] = a] /\ WindowTyped(a)
    BY <1>1, <2>1, <2>2, WindowTypes
  <2>5. \A g \in Hart : WindowTyped(adapter'[g])
    BY <1>1, <2>4
  <2>6. turn' \in 0 .. 2 * Cores + 1
    BY <1>2, <2>2 DEF Hart
  <2>7. QED
    BY <1>1, <1>3, <2>2, <2>3, <2>4, <2>5, <2>6 DEF TInv
<1>8. ASSUME NEW h \in Hart, CoreTurn(h) PROVE TInv'
  <2>1. turn' = 2 * h + 3 /\ UNCHANGED memoryVars /\ CoreTick(h) /\ Follows(core[h])
    BY <1>8 DEF CoreTurn, CInv, Hart
  <2>2. core' = core \/ \E c : core' = [core EXCEPT ![h] = c] /\ CoreTyped(c)
    BY <1>1, <2>1, HartTypes
  <2>3. adapter' = adapter \/ \E a : adapter' = [adapter EXCEPT ![h] = a] /\ WindowTyped(a)
    BY <1>1, <2>1, HartWindows
  <2>4. BusTyped(transit', inbox', accepted')
    BY <1>1, <2>1, HartSends
  <2>5. \A g \in Hart : CoreTyped(core'[g])
    BY <1>1, <2>2
  <2>6. \A g \in Hart : WindowTyped(adapter'[g])
    BY <1>1, <2>3
  <2>7. turn' \in 0 .. 2 * Cores + 1
    BY <1>2, <2>1 DEF Hart
  <2>8. QED
    BY <1>3, <2>1, <2>4, <2>5, <2>6, <2>7 DEF TInv
<1>9. QED
  BY <1>4, <1>5, <1>6, <1>7, <1>8 DEF Next

\* What they and the other invariants say of the fields of the system.
LEMMA TypesMean == IInv /\ CInv /\ TInv /\ ProgramsWithin => TypeOK
<1> SUFFICES ASSUME IInv, CInv, TInv, ProgramsWithin PROVE TypeOK
  OBVIOUS
<1>1. CoreTypeOK
  <2> SUFFICES ASSUME NEW h \in Hart
               PROVE  LET c == core[h] IN
                      /\ c.state \in {"FetchDecode", "ExecuteWait", "MemoryIssue", "MemoryWait",
                                      "Halted", "Faulted"}
                      /\ c.pc \in Nat /\ c.left \in Nat /\ c.issueLeft \in 0 .. VectorIssue - 1
                      /\ c.parts \in Seq(Access)
                      /\ {c.id, c.next} \subseteq 0 .. IdSpace - 1
                      /\ c.reg \in Nat /\ c.exit \in Nat
                      /\ c.state \in {"MemoryIssue", "MemoryWait"} => c.parts # <<>>
    BY DEF CoreTypeOK
  <2>1. CoreTyped(core[h]) /\ Follows(core[h])
    BY DEF TInv, CInv
  <2>2. QED
    BY <2>1 DEF CoreTyped, Follows, Resting
<1>2. AdapterTypeOK
  <2> SUFFICES ASSUME NEW h \in Hart
               PROVE  LET a == adapter[h] IN
                      /\ {a.target, a.wdata, a.size, a.rdata} \subseteq Nat
                      /\ a.flags \subseteq {"done", "error"}
                      /\ \A i \in DOMAIN a.requests :
                           a.requests[i].request \in MemoryRequest /\ a.requests[i].sent \in BOOLEAN
                      /\ \A i \in DOMAIN a.results : a.results[i].id \in 0 .. IdSpace - 1
                      /\ a.next \in 0 .. IdSpace \div 2 - 1
    BY DEF AdapterTypeOK
  <2> DEFINE a == adapter[h]
  <2>1. WindowTyped(a) /\ Window(a, h)
    BY DEF TInv, IInv
  <2>2. ASSUME NEW i \in DOMAIN a.requests PROVE a.requests[i].request \in MemoryRequest
    <3> DEFINE q == a.requests[i].request
    <3>1. Record(q) /\ q.transaction \in 0 .. IdSpace - 1 /\ q.hart = h
      BY <2>1 DEF WindowTyped, Ranks, Window
    <3>2. AccessOf(q) \in Accesses
      BY DEF ProgramsWithin, CommandsWithin, Commands
    <3> HIDE DEF q
    <3>3. q \in MemoryRequest
      BY <3>1, <3>2, GoodFacts DEF Good
    <3>4. QED
      BY <3>3 DEF q
  <2>3. \A i \in DOMAIN a.requests : a.requests[i].sent \in BOOLEAN
    BY <2>1 DEF Window
  <2> HIDE DEF a
  <2>4. QED
    BY <2>1, <2>2, <2>3 DEF WindowTyped, Registers, Yields, Half, a
<1>3. MemoryTypeOK /\ Bus!TypeOK
  BY MemoryTypes, BusTypes DEF TInv, IInv
<1>4. QED
  BY <1>1, <1>2, <1>3 DEF TypeOK, TInv

(***************************************************************************)
(* The fields of the system keep their types, whatever the number of the   *)
(* harts, their programs, the depth of the windows and the size of the id  *)
(* space.  In particular the ids of a deep window's commands stay in the   *)
(* upper half of the id space however many are given, what is read of the  *)
(* window and of the memory is a number, every letter on the bus is a      *)
(* request within the memory or a response, and the controller serves one  *)
(* request at a time and never queues more than its capacity.              *)
(***************************************************************************)
THEOREM TypeCorrect == Spec /\ []ProgramsWithin => []TypeOK
<1>1. Init => TInv
  BY StartsTyped
<1>2. IInv /\ CInv /\ TInv /\ ProgramsWithin /\ [Next]_vars => TInv'
  BY StepTypes
<1>3. IInv /\ CInv /\ TInv /\ ProgramsWithin => TypeOK
  BY TypesMean
<1>4. QED
  BY <1>1, <1>2, <1>3, Invariant, HartsFollow, PTL DEF Spec
===============================================================================
