---------------------------- MODULE ClientProofs ----------------------------
(* The whole client, for any accounts, texts and budgets: the cropper does  *)
(* what it does by itself, the pages fit the connection, and the chats of   *)
(* a user agree with each other and with the frame that shows them.         *)
EXTENDS Client, CropperProofs, FiniteSetTheorems, SequenceTheorems, WellFoundedInduction

\* Whatever else the client does meanwhile (logins, messages of the server,
\* alerts, a connection that is lost), what it does to the cropper is what the
\* cropper does by itself: its dialog has no parent and shares no state.
THEOREM CropperRefined == Spec => CropSpec
<1>1. Init => CropInit
  BY DEF Init
<1>2. ASSUME [Next]_vars PROVE [CropNext]_cropVars
  <2>1. CASE UNCHANGED vars
    BY <2>1 DEF vars
  <2>2. CASE UsePage \/ Timers \/ Gateway \/ Connection
    BY <2>2 DEF UsePage, Timers, Gateway, Connection
  <2>3. CASE Server \/ UseFrame \/ UseCard \/ UseDialog
    BY <2>3 DEF Server, UseFrame, UseCard, UseDialog
  <2>4. CASE UseCropper
    BY <2>4 DEF UseCropper
  <2> QED
    BY <1>2, <2>1, <2>2, <2>3, <2>4 DEF Next
<1> QED
  BY <1>1, <1>2, PTL DEF Spec, CropSpec

\* In the whole client, too, the selection is a square that does not leave the
\* picture but for less than a handle at the top (imagecropperqlabel.cpp).
THEOREM ClientSelection == Spec => []SelectionStays
  BY CropperRefined, SelectionCorrect, PTL

-----------------------------------------------------------------------------
(* Folds. FoldLeft is a recursion over sets of positions; what it starts    *)
(* in and no step leaves, it ends in.                                       *)

\* A set of natural numbers has a least element.
LEMMA Least ==
  ASSUME NEW T, T \subseteq Nat, T # {}
  PROVE  \E x \in T : \A y \in T : x <= y
<1> DEFINE R == {ss \in Nat \X Nat : ss[1] < ss[2]}
<1>1. IsWellFoundedOn(R, Nat)
  BY NatLessThanWellFounded DEF OpToRel
<1>2. PICK x \in T : \A y \in T : <<y, x>> \notin R
  <2> HIDE DEF R
  <2> QED
    BY <1>1, WFMin
<1>3. ASSUME NEW y \in T PROVE x <= y
  <2>1. <<y, x>> \in Nat \X Nat
    OBVIOUS
  <2>2. ~(<<y, x>>[1] < <<y, x>>[2])
    BY <1>2, <2>1
  <2> QED
    BY <2>2
<1> QED
  BY <1>3

\* What holds of 0, and of the next number whenever it holds of one, holds up
\* to a bound.
LEMMA UpTo ==
  ASSUME NEW N \in Nat, NEW T, 0 \in T,
         \A n \in 0 .. N - 1 : n \in T => n + 1 \in T
  PROVE  N \in T
<1> DEFINE Bad == {n \in 0 .. N : n \notin T}
<1>1. SUFFICES ASSUME Bad # {} PROVE FALSE
  OBVIOUS
<1>2. PICK x \in Bad : \A y \in Bad : x <= y
  <2>1. Bad \subseteq Nat
    OBVIOUS
  <2> HIDE DEF Bad
  <2> QED
    BY <1>1, <2>1, Least
<1>3. x \in 1 .. N /\ x - 1 \in 0 .. N - 1 /\ x - 1 \notin Bad
  BY <1>2
<1>4. (x - 1) + 1 = x /\ x - 1 \in T
  BY <1>3
<1> QED
  BY <1>2, <1>3, <1>4

\* A member of a set of numbers that no other exceeds is the greatest.
LEMMA MaxIs ==
  ASSUME NEW s, s \subseteq Int, NEW m \in s, \A i \in s : i <= m
  PROVE  Max(s) = m
<1> DEFINE P(x) == x \in s /\ \A y \in s : x >= y
<1>1. Max(s) = CHOOSE x : P(x)
  BY DEF Max
<1>2. P(m)
  OBVIOUS
<1>3. P(CHOOSE x : P(x))
  BY <1>2
<1>4. \A x : P(x) => x = m
  OBVIOUS
<1> HIDE DEF P
<1> QED
  BY <1>1, <1>3, <1>4

\* The greatest member of an initial segment, and the segment without it.
LEMMA MaxOfSegment ==
  ASSUME NEW n \in Nat
  PROVE  Max(1 .. n + 1) = n + 1 /\ (1 .. n + 1) \ {n + 1} = 1 .. n
<1>1. 1 .. n + 1 \subseteq Int /\ n + 1 \in 1 .. n + 1 /\ \A i \in 1 .. n + 1 : i <= n + 1
  OBVIOUS
<1>2. Max(1 .. n + 1) = n + 1
  BY <1>1, MaxIs
<1>3. (1 .. n + 1) \ {n + 1} = 1 .. n
  OBVIOUS
<1> QED
  BY <1>2, <1>3

\* The greatest member of a set of positions.
LEMMA MaxIsMember ==
  ASSUME NEW N \in Nat, NEW s \in SUBSET (1 .. N), s # {}
  PROVE  /\ Max(s) \in s
         /\ \A i \in s : i <= Max(s)
<1> DEFINE T == {k \in Nat : \E i \in s : k = N - i}
<1>1. T \subseteq Nat /\ T # {}
  <2>1. PICK i \in s : TRUE
    OBVIOUS
  <2>2. N - i \in T
    OBVIOUS
  <2> QED
    BY <2>2
<1>2. PICK x \in T : \A y \in T : x <= y
  <2> HIDE DEF T
  <2> QED
    BY <1>1, Least
<1>3. PICK m \in s : x = N - m
  BY <1>2
<1>4. \A i \in s : i <= m
  <2>1. ASSUME NEW i \in s PROVE i <= m
    <3>1. N - i \in T
      OBVIOUS
    <3> QED
      BY <1>2, <1>3, <3>1
  <2> QED
    BY <2>1
<1>5. Max(s) = m
  <2>1. s \subseteq Int
    OBVIOUS
  <2> QED
    BY <2>1, <1>4, MaxIs
<1> QED
  BY <1>3, <1>4, <1>5

\* g is the recursion that a fold over the positions up to N is made of: the
\* steps F from c on, with values in S.
Folds(g, N, S, c, F) ==
  /\ g \in [SUBSET (1 .. N) -> S]
  /\ \A s \in SUBSET (1 .. N) :
       g[s] = IF s = {} THEN c ELSE F[<<g[s \ {Max(s)}], Max(s)>>]

\* Such a recursion has a solution.
LEMMA FoldExists ==
  ASSUME NEW N \in Nat, NEW S, NEW c \in S, NEW F \in [S \X (1 .. N) -> S]
  PROVE  \E g : Folds(g, N, S, c, F)
<1> DEFINE Good(n, g) ==
      \A s \in SUBSET (1 .. n) :
        g[s] = IF s = {} THEN c ELSE F[<<g[s \ {Max(s)}], Max(s)>>]
    T == {n \in 0 .. N : \E g \in [SUBSET (1 .. n) -> S] : Good(n, g)}
<1>1. 0 \in T
  <2>1. 1 .. 0 = {}
    OBVIOUS
  <2>2. [s \in SUBSET (1 .. 0) |-> c] \in [SUBSET (1 .. 0) -> S] /\ Good(0, [s \in SUBSET (1 .. 0) |-> c])
    BY <2>1
  <2>3. \E g \in [SUBSET (1 .. 0) -> S] : Good(0, g)
    <3> HIDE DEF Good
    <3> QED
      BY <2>2
  <2>4. 0 \in 0 .. N
    OBVIOUS
  <2> HIDE DEF Good
  <2> QED
    BY <2>3, <2>4
<1>2. ASSUME NEW n \in 0 .. N - 1, n \in T PROVE n + 1 \in T
  <2>1. PICK g \in [SUBSET (1 .. n) -> S] : Good(n, g)
    BY <1>2
  <2> DEFINE h == [s \in SUBSET (1 .. n + 1) |->
                     IF n + 1 \in s THEN F[<<g[s \ {n + 1}], n + 1>>] ELSE g[s]]
  <2>2. ASSUME NEW s \in SUBSET (1 .. n + 1), n + 1 \in s
        PROVE  Max(s) = n + 1 /\ s \ {n + 1} \in SUBSET (1 .. n)
    <3>1. s \subseteq Int /\ \A i \in s : i <= n + 1
      OBVIOUS
    <3>2. s \ {n + 1} \in SUBSET (1 .. n)
      OBVIOUS
    <3> QED
      BY <2>2, <3>1, <3>2, MaxIs
  <2>3. ASSUME NEW s \in SUBSET (1 .. n + 1), n + 1 \notin s
        PROVE  s \in SUBSET (1 .. n)
    BY <2>3, SMT
  <2>4. h \in [SUBSET (1 .. n + 1) -> S]
    <3>1. ASSUME NEW s \in SUBSET (1 .. n + 1) PROVE h[s] \in S
      <4>1. CASE n + 1 \in s
        <5>1. g[s \ {n + 1}] \in S
          BY <4>1, <2>2
        <5> QED
          BY <5>1, <4>1
      <4>2. CASE n + 1 \notin s
        BY <4>2, <2>3
      <4> QED
        BY <4>1, <4>2
    <3> QED
      BY <3>1
  <2>5. ASSUME NEW s \in SUBSET (1 .. n + 1)
        PROVE  h[s] = IF s = {} THEN c ELSE F[<<h[s \ {Max(s)}], Max(s)>>]
    <3>1. CASE n + 1 \in s
      <4>1. Max(s) = n + 1 /\ s \ {n + 1} \in SUBSET (1 .. n + 1) /\ n + 1 \notin s \ {n + 1}
        BY <3>1, <2>2
      <4>2. h[s \ {n + 1}] = g[s \ {n + 1}]
        BY <4>1
      <4> QED
        BY <3>1, <4>1, <4>2
    <3>2. CASE n + 1 \notin s /\ s # {}
      <4>1. s \in SUBSET (1 .. n) /\ s \ {Max(s)} \in SUBSET (1 .. n)
        BY <3>2, <2>3
      <4>2. g[s] = F[<<g[s \ {Max(s)}], Max(s)>>]
        BY <4>1, <3>2, <2>1
      <4>3. h[s \ {Max(s)}] = g[s \ {Max(s)}] /\ h[s] = g[s]
        BY <4>1, <3>2
      <4> QED
        BY <3>2, <4>2, <4>3
    <3>3. CASE s = {}
      <4>1. h[s] = g[s] /\ g[s] = c
        BY <3>3, <2>1
      <4> QED
        BY <3>3, <4>1
    <3> QED
      BY <3>1, <3>2, <3>3
  <2>6. Good(n + 1, h)
    BY <2>5
  <2> HIDE DEF h, Good
  <2> QED
    BY <2>4, <2>6
<1>3. N \in T
  <2> HIDE DEF T
  <2> QED
    BY <1>1, <1>2, UpTo
<1>4. PICK g \in [SUBSET (1 .. N) -> S] : Good(N, g)
  BY <1>3
<1> QED
  BY <1>4 DEF Folds

\* The positions up to one and up to the next.
LEMMA Segments ==
  ASSUME NEW N \in Nat, NEW n \in 0 .. N - 1
  PROVE  /\ 1 .. n + 1 \in SUBSET (1 .. N) /\ 1 .. n + 1 # {}
         /\ n + 1 \in 1 .. N /\ 1 .. n \in SUBSET (1 .. N)
OBVIOUS

\* What the recursion starts in and does not leave, it ends in.
LEMMA FoldStays ==
  ASSUME NEW N \in Nat, NEW S, NEW g, g[{}] \in S,
         \A n \in 0 .. N - 1 :
           /\ g[1 .. n] \in S
           /\ Max(1 .. n + 1) = n + 1 /\ (1 .. n + 1) \ {n + 1} = 1 .. n
           => g[1 .. n + 1] \in S
  PROVE  g[1 .. N] \in S
<1> DEFINE U == {n \in 0 .. N : g[1 .. n] \in S}
<1>1. 0 \in U
  <2>1. 1 .. 0 = {}
    OBVIOUS
  <2> QED
    BY <2>1
<1>2. ASSUME NEW n \in 0 .. N - 1, n \in U PROVE n + 1 \in U
  <2>1. Max(1 .. n + 1) = n + 1 /\ (1 .. n + 1) \ {n + 1} = 1 .. n
    BY MaxOfSegment
  <2> QED
    BY <1>2, <2>1
<1>3. N \in U
  <2> HIDE DEF U
  <2> QED
    BY <1>1, <1>2, UpTo
<1> QED
  BY <1>3

\* A solution of the recursion goes through the sequence from its first
\* position to its last.
LEMMA FoldThrough ==
  ASSUME NEW N \in Nat, NEW T, NEW g,
         <<0, g[{}]>> \in T,
         \A n \in 0 .. N - 1 :
           <<n, g[1 .. n]>> \in T =>
             (Max(1 .. n + 1) = n + 1 /\ (1 .. n + 1) \ {n + 1} = 1 .. n
                => <<n + 1, g[1 .. n + 1]>> \in T)
  PROVE  <<N, g[1 .. N]>> \in T
<1> DEFINE U == {n \in 0 .. N : <<n, g[1 .. n]>> \in T}
<1>1. 0 \in U
  <2>1. 1 .. 0 = {}
    OBVIOUS
  <2> QED
    BY <2>1
<1>2. ASSUME NEW n \in 0 .. N - 1, n \in U PROVE n + 1 \in U
  <2>1. Max(1 .. n + 1) = n + 1 /\ (1 .. n + 1) \ {n + 1} = 1 .. n
    BY MaxOfSegment
  <2> QED
    BY <1>2, <2>1
<1>3. N \in U
  <2> HIDE DEF U
  <2> QED
    BY <1>1, <1>2, UpTo
<1> QED
  BY <1>3

-----------------------------------------------------------------------------
(* Records and threads.                                                     *)

Maps(D, R) == UNION {[d -> R] : d \in SUBSET D}
Parties == Users \cup {Nobody}

\* Records whose two users are a set of W.
Records(W) ==
  {x \in [uid : Uids, id : Ids \cup {NoId}, from : Parties, to : Parties] :
     {x.from, x.to} \in W}

\* Threads with the peer p and such records, whose indexes fit.
Histories(p, W) ==
  {t \in [peer : {p}, items : Seq(Records(W)), local : Maps(Uids, Nat),
          verified : Maps(Ids, Nat), last : BOOLEAN, lastId : Ids \cup {NoId}] :
     Indexed(t) /\ Range(t.local) \cap Range(t.verified) = {}}

\* A map, by its domain and its values.
LEMMA MapIs ==
  ASSUME NEW D, NEW R, NEW f
  PROVE  /\ f \in Maps(D, R) =>
              DOMAIN f \subseteq D /\ f \in [DOMAIN f -> R] /\ \A k \in DOMAIN f : f[k] \in R
         /\ \A d \in SUBSET D : f \in [d -> R] => f \in Maps(D, R)
BY DEF Maps

\* What Put does to a map.
LEMMA PutIs ==
  ASSUME NEW f, NEW k, NEW v
  PROVE  /\ DOMAIN Put(f, k, v) = DOMAIN f \cup {k}
         /\ Put(f, k, v)[k] = v
         /\ \A x \in DOMAIN f : x # k => Put(f, k, v)[x] = f[x]
BY DEF Put

\* A map stays a map of its kind.
LEMMA PutMap ==
  ASSUME NEW D, NEW R, NEW f \in Maps(D, R), NEW k \in D, NEW v \in R
  PROVE  /\ Put(f, k, v) \in Maps(D, R)
         /\ k \notin DOMAIN f => Range(Put(f, k, v)) = Range(f) \cup {v}
<1> DEFINE d == DOMAIN f \cup {k}
<1>1. DOMAIN f \subseteq D /\ \A x \in DOMAIN f : f[x] \in R
  BY MapIs
<1>2. Put(f, k, v) = [x \in d |-> IF x = k THEN v ELSE f[x]]
  BY DEF Put
<1>3. Put(f, k, v) \in [d -> R] /\ d \in SUBSET D
  BY <1>1, <1>2
<1>4. Put(f, k, v) \in Maps(D, R)
  BY <1>3, MapIs
<1>5. ASSUME k \notin DOMAIN f PROVE Range(Put(f, k, v)) = Range(f) \cup {v}
  <2> DEFINE g == Put(f, k, v)
  <2>1. DOMAIN g = DOMAIN f \cup {k} /\ g[k] = v /\ \A x \in DOMAIN f : g[x] = f[x]
    BY <1>5 DEF Put
  <2> HIDE DEF g
  <2>2. Range(g) = Range(f) \cup {v}
    BY <2>1 DEF Range
  <2> QED
    BY <2>2 DEF g
<1> QED
  BY <1>4, <1>5

\* A record that is inserted keeps the indexes of a thread fit.
LEMMA InsertKeeps ==
  ASSUME NEW p \in Users, NEW W, NEW t \in Histories(p, W), NEW x \in Records(W)
  PROVE  InsertMessage(t, x) \in Histories(p, W)
<1> DEFINE at == Len(t.items) + 1
<1>1. /\ t.items \in Seq(Records(W)) /\ t.local \in Maps(Uids, Nat) /\ t.verified \in Maps(Ids, Nat)
      /\ x.uid \in Uids /\ x.id \in Ids \cup {NoId}
      /\ Indexed(t) /\ Range(t.local) \cap Range(t.verified) = {}
  BY DEF Histories, Records
<1>2. PICK items \in Seq(Records(W)) : items = Append(t.items, x)
  BY <1>1, AppendProperties
<1>3. /\ Len(t.items) \in Nat /\ DOMAIN t.items = 1 .. Len(t.items)
      /\ DOMAIN items = DOMAIN t.items \cup {at}
      /\ items[at] = x /\ \A i \in DOMAIN t.items : items[i] = t.items[i]
      /\ at \in Nat /\ at \notin DOMAIN t.items
  BY <1>1, <1>2
<1>4. PICK lastId \in Ids \cup {NoId} : lastId = IF x.id = NoId THEN t.lastId ELSE x.id
  BY <1>1 DEF Histories
<1>5. /\ \A uid \in DOMAIN t.local : t.local[uid] \in DOMAIN t.items /\ t.items[t.local[uid]].uid = uid
      /\ \A id \in DOMAIN t.verified :
           t.verified[id] \in DOMAIN t.items /\ t.items[t.verified[id]].id = id
  BY <1>1 DEF Indexed, Range
<1>6. CASE x.id = NoId /\ x.uid \notin DOMAIN t.local
  <2>1. PICK local \in Maps(Uids, Nat) : local = Put(t.local, x.uid, at)
    BY <1>1, <1>3, PutMap
  <2>2. /\ DOMAIN local = DOMAIN t.local \cup {x.uid} /\ local[x.uid] = at
        /\ \A uid \in DOMAIN t.local : local[uid] = t.local[uid]
        /\ Range(local) = Range(t.local) \cup {at}
    <3>1. Range(local) = Range(t.local) \cup {at}
      BY <1>1, <1>3, <1>6, <2>1, PutMap
    <3> QED
      BY <3>1, <1>6, <2>1 DEF Put
  <2>3. PICK u : u = [t EXCEPT !.last = TRUE, !.lastId = lastId, !.items = items, !.local = local]
    OBVIOUS
  <2>4. InsertMessage(t, x) = u
    BY <1>2, <1>4, <1>6, <2>1, <2>3 DEF InsertMessage, Histories
  <2>5. /\ u \in [peer : {p}, items : Seq(Records(W)), local : Maps(Uids, Nat),
                  verified : Maps(Ids, Nat), last : BOOLEAN, lastId : Ids \cup {NoId}]
        /\ u.items = items /\ u.local = local /\ u.verified = t.verified
    BY <2>3 DEF Histories
  <2>6. Indexed(u)
    <3>1. \A uid \in DOMAIN u.local : u.items[u.local[uid]].uid = uid
      BY <2>5, <2>2, <1>3, <1>5
    <3>2. \A id \in DOMAIN u.verified : u.items[u.verified[id]].id = id
      BY <2>5, <1>3, <1>5
    <3>3. DOMAIN u.items = Range(u.local) \cup Range(u.verified)
      BY <2>5, <2>2, <1>1, <1>3 DEF Indexed
    <3> QED
      BY <3>1, <3>2, <3>3 DEF Indexed
  <2>7. Range(u.local) \cap Range(u.verified) = {}
    BY <2>5, <2>2, <1>1, <1>3 DEF Indexed
  <2> QED
    BY <2>4, <2>5, <2>6, <2>7 DEF Histories
<1>7. CASE x.id # NoId /\ x.id \notin DOMAIN t.verified
  <2>1. PICK verified \in Maps(Ids, Nat) : verified = Put(t.verified, x.id, at)
    BY <1>1, <1>3, <1>7, PutMap
  <2>2. /\ DOMAIN verified = DOMAIN t.verified \cup {x.id} /\ verified[x.id] = at
        /\ \A id \in DOMAIN t.verified : verified[id] = t.verified[id]
        /\ Range(verified) = Range(t.verified) \cup {at}
    <3>1. Range(verified) = Range(t.verified) \cup {at}
      BY <1>1, <1>3, <1>7, <2>1, PutMap
    <3> QED
      BY <3>1, <1>7, <2>1 DEF Put
  <2>3. PICK u : u = [t EXCEPT !.last = TRUE, !.lastId = lastId, !.items = items,
                               !.verified = verified]
    OBVIOUS
  <2>4. InsertMessage(t, x) = u
    BY <1>2, <1>4, <1>7, <2>1, <2>3 DEF InsertMessage, Histories
  <2>5. /\ u \in [peer : {p}, items : Seq(Records(W)), local : Maps(Uids, Nat),
                  verified : Maps(Ids, Nat), last : BOOLEAN, lastId : Ids \cup {NoId}]
        /\ u.items = items /\ u.local = t.local /\ u.verified = verified
    BY <2>3 DEF Histories
  <2>6. Indexed(u)
    <3>1. \A uid \in DOMAIN u.local : u.items[u.local[uid]].uid = uid
      BY <2>5, <1>3, <1>5
    <3>2. \A id \in DOMAIN u.verified : u.items[u.verified[id]].id = id
      BY <2>5, <2>2, <1>3, <1>5
    <3>3. DOMAIN u.items = Range(u.local) \cup Range(u.verified)
      BY <2>5, <2>2, <1>1, <1>3 DEF Indexed
    <3> QED
      BY <3>1, <3>2, <3>3 DEF Indexed
  <2>7. Range(u.local) \cap Range(u.verified) = {}
    BY <2>5, <2>2, <1>1, <1>3 DEF Indexed
  <2> QED
    BY <2>4, <2>5, <2>6, <2>7 DEF Histories
<1>8. CASE /\ ~(x.id = NoId /\ x.uid \notin DOMAIN t.local)
           /\ ~(x.id # NoId /\ x.id \notin DOMAIN t.verified)
  <2>1. PICK u : u = [t EXCEPT !.last = TRUE, !.lastId = lastId]
    OBVIOUS
  <2>2. InsertMessage(t, x) = u
    BY <1>4, <1>8, <2>1 DEF InsertMessage
  <2>3. /\ u \in [peer : {p}, items : Seq(Records(W)), local : Maps(Uids, Nat),
                  verified : Maps(Ids, Nat), last : BOOLEAN, lastId : Ids \cup {NoId}]
        /\ u.items = t.items /\ u.local = t.local /\ u.verified = t.verified
    BY <2>1 DEF Histories
  <2>4. Indexed(u) /\ Range(u.local) \cap Range(u.verified) = {}
    BY <2>3, <1>1 DEF Indexed
  <2> QED
    BY <2>2, <2>3, <2>4 DEF Histories
<1> QED
  BY <1>6, <1>7, <1>8

\* The map and the list without members.
LEMMA EmptyIs ==
  ASSUME NEW D, NEW R
  PROVE  /\ DOMAIN << >> = {} /\ Range(<< >>) = {} /\ IsInjective(<< >>)
         /\ << >> \in Maps(D, R) /\ << >> \in Seq(R)
<1>1. DOMAIN << >> = {}
  OBVIOUS
<1>2. << >> \in [{} -> R]
  OBVIOUS
<1>3. << >> \in Maps(D, R)
  BY <1>2 DEF Maps
<1> QED
  BY <1>1, <1>3 DEF Range, IsInjective

\* Every thread begins with indexes that fit.
LEMMA NewThreadFits ==
  ASSUME NEW p \in Users, NEW W
  PROVE  NewThread(p) \in Histories(p, W)
<1>1. /\ DOMAIN << >> = {} /\ Range(<< >>) = {} /\ << >> \in Maps(Uids, Nat)
      /\ << >> \in Maps(Ids, Nat) /\ << >> \in Seq(Records(W))
  BY EmptyIs
<1>2. Indexed(NewThread(p))
  BY <1>1 DEF Indexed, NewThread
<1> QED
  BY <1>1, <1>2 DEF Histories, NewThread

\* So do records inserted one after the other.
LEMMA InsertAllKeeps ==
  ASSUME NEW p \in Users, NEW W, NEW t \in Histories(p, W), NEW seq \in Seq(Records(W))
  PROVE  FoldLeft(InsertMessage, t, seq) \in Histories(p, W)
<1> DEFINE N == Len(seq)
           S == Histories(p, W)
           X == Records(W)
           P(h) == h = [s \in SUBSET (1 .. N) |->
                          IF s = {} THEN t ELSE InsertMessage(h[s \ {Max(s)}], seq[Max(s)])]
           h0 == CHOOSE h : P(h)
<1>1. N \in Nat /\ DOMAIN seq = 1 .. N /\ \A i \in 1 .. N : seq[i] \in X
  BY LenProperties
<1>2. FoldLeft(InsertMessage, t, seq) = h0[1 .. N]
  BY <1>1 DEF FoldLeft, MapThenFoldSet
<1>3. \A u \in S, x \in X : InsertMessage(u, x) \in S
  BY InsertKeeps
<1> HIDE DEF S, X
<1>4. P(h0)
  <2> DEFINE F == [ui \in S \X (1 .. N) |-> InsertMessage(ui[1], seq[ui[2]])]
  <2>1. F \in [S \X (1 .. N) -> S]
    BY <1>1, <1>3
  <2>2. PICK g : Folds(g, N, S, t, F)
    <3> HIDE DEF F, N, P, h0
    <3>1. N \in Nat /\ t \in S
      BY <1>1 DEF S
    <3> QED
      BY <3>1, <2>1, FoldExists
  <2>3. ASSUME NEW s \in SUBSET (1 .. N), s # {}
        PROVE  F[<<g[s \ {Max(s)}], Max(s)>>] = InsertMessage(g[s \ {Max(s)}], seq[Max(s)])
    <3>1. Max(s) \in 1 .. N
      BY <1>1, <2>3, MaxIsMember
    <3> QED
      BY <2>2, <3>1 DEF Folds
  <2>4. P(g)
    <3> HIDE DEF F
    <3> QED
      BY <2>2, <2>3 DEF Folds
  <2> HIDE DEF P
  <2> QED
    BY <2>4
<1>5. h0[{}] = t
  BY <1>4
<1>6. ASSUME NEW n \in 0 .. N - 1, h0[1 .. n] \in S,
             Max(1 .. n + 1) = n + 1, (1 .. n + 1) \ {n + 1} = 1 .. n
      PROVE  h0[1 .. n + 1] \in S
  <2>1. 1 .. n + 1 \in SUBSET (1 .. N) /\ 1 .. n + 1 # {} /\ n + 1 \in 1 .. N
    BY <1>1, Segments
  <2>2. h0[1 .. n + 1] = InsertMessage(h0[1 .. n], seq[n + 1])
    <3> HIDE DEF h0
    <3> QED
      BY <1>4, <1>6, <2>1
  <2> QED
    BY <2>1, <2>2, <1>6, <1>1, <1>3
<1>7. h0[1 .. N] \in S
  <2> HIDE DEF h0, N
  <2>1. h0[{}] \in S
    BY <1>5 DEF S
  <2> QED
    BY <1>1, <1>6, <2>1, FoldStays
<1> QED
  BY <1>2, <1>7 DEF S

\* An id of the server for a record keeps the indexes fit.
LEMMA PromoteKeeps ==
  ASSUME NEW p \in Users, NEW W, NEW t \in Histories(p, W), NEW uid, NEW id \in Ids
  PROVE  PromoteLocalToVerified(t, uid, id) \in Histories(p, W)
<1>1. CASE ~(uid \in DOMAIN t.local /\ id \in DOMAIN t.verified)
  BY <1>1 DEF PromoteLocalToVerified
<1>2. CASE uid \in DOMAIN t.local /\ id \in DOMAIN t.verified
  <2> DEFINE at == t.local[uid]
  <2>1. /\ t.items \in Seq(Records(W)) /\ t.local \in Maps(Uids, Nat) /\ t.verified \in Maps(Ids, Nat)
        /\ Indexed(t) /\ Range(t.local) \cap Range(t.verified) = {}
    BY DEF Histories
  <2>2. at \in Range(t.local) /\ at \in DOMAIN t.items /\ DOMAIN t.items = 1 .. Len(t.items)
    <3>1. at \in Range(t.local)
      BY <1>2 DEF Range
    <3>2. at \in DOMAIN t.items
      BY <3>1, <2>1 DEF Indexed
    <3>3. DOMAIN t.items = 1 .. Len(t.items)
      BY <2>1, LenProperties
    <3> QED
      BY <3>1, <3>2, <3>3
  <2>3. t.items[at] \in Records(W)
    BY <2>1, <2>2
  <2>4. PICK x \in Records(W) : x = [t.items[at] EXCEPT !.id = id]
    BY <2>3 DEF Records
  <2>5. PICK items \in Seq(Records(W)) : items = [t.items EXCEPT ![at] = x]
    BY <2>1, <2>2, ExceptSeq
  <2>6. /\ DOMAIN items = DOMAIN t.items /\ items[at] = x /\ x.uid = t.items[at].uid
        /\ \A i \in DOMAIN t.items : i # at => items[i] = t.items[i]
    BY <2>1, <2>2, <2>3, <2>4, <2>5 DEF Records
  <2>7. PICK u : u = [t EXCEPT !.items = items]
    OBVIOUS
  <2>8. PromoteLocalToVerified(t, uid, id) = u
    BY <1>2, <2>4, <2>5, <2>7 DEF PromoteLocalToVerified, Histories
  <2>9. /\ u \in [peer : {p}, items : Seq(Records(W)), local : Maps(Uids, Nat),
                  verified : Maps(Ids, Nat), last : BOOLEAN, lastId : Ids \cup {NoId}]
        /\ u.items = items /\ u.local = t.local /\ u.verified = t.verified
    BY <2>7 DEF Histories
  <2>10. Indexed(u)
    <3>1. ASSUME NEW y \in DOMAIN t.local PROVE items[t.local[y]].uid = y
      <4>1. t.local[y] \in DOMAIN t.items /\ t.items[t.local[y]].uid = y
        BY <2>1 DEF Indexed, Range
      <4> QED
        BY <4>1, <2>6
    <3>2. ASSUME NEW y \in DOMAIN t.verified PROVE items[t.verified[y]].id = y
      <4>1. /\ t.verified[y] \in DOMAIN t.items /\ t.items[t.verified[y]].id = y
            /\ t.verified[y] \in Range(t.verified)
        BY <2>1 DEF Indexed, Range
      <4>2. t.verified[y] # at
        BY <4>1, <2>1, <2>2
      <4> QED
        BY <4>1, <4>2, <2>6
    <3> QED
      BY <3>1, <3>2, <2>1, <2>6, <2>9 DEF Indexed
  <2> QED
    BY <2>1, <2>8, <2>9, <2>10 DEF Histories
<1> QED
  BY <1>1, <1>2

-----------------------------------------------------------------------------
(* The account manager and the frame.                                       *)

\* The chats of a user, with the records of whoever, and what the account
\* manager and the frame are made of.
Chats == UNION {Histories(p, SUBSET Parties) : p \in Users}

Books ==
  [requests : Seq(Users), friends : Seq(Users), data : Maps(Threads, Chats),
   threadOf : Maps(Users, Threads), sessions : Seq(Threads), seq : Nat \ {0}]

Cards == [from : Users, open : BOOLEAN]
Frames ==
  [mode : {"chats", "contacts", "searching", "settings"},
   stack : {"chatting", "newuser", "profile", "setting"},
   cur : Parties, profile : Parties, widgets : Maps(Threads, Users),
   contacts : Seq(Users), contactsFrom : Nat, requests : Seq(Cards), requestsFrom : Nat,
   loading : BOOLEAN, found : [shown : BOOLEAN, card : Parties], asked : SUBSET Threads]

\* The records between the user m and p, and those that have lost their users.
Between(m, p) == {{m, p}, {Nobody}}

\* The threads of the friends of m fit their sessions.
Linked(m, b) ==
  /\ \A p \in DOMAIN b.threadOf : Contains(b.friends, p) /\ b.threadOf[p] = PairId(m, p)
  /\ IsInjective(b.sessions)
  /\ Range(b.sessions) = Range(b.threadOf)

\* Two pairs with the same user differ in the other.
LEMMA PairsDiffer ==
  ASSUME NEW m, NEW p, NEW q, PairId(m, p) = PairId(m, q)
  PROVE  p = q
BY DEF PairId

\* A thread of two users is one of the threads.
LEMMA PairIsThread ==
  ASSUME NEW m \in Users, NEW p \in Users
  PROVE  PairId(m, p) \in Threads
BY DEF Threads

\* What addItem2List does to the threads of the friends.
LEMMA DescKeeps ==
  ASSUME NEW b \in Books, NEW p \in Users, NEW id \in Threads
  PROVE  LET c == AddThreadDesc(b, p, id) IN
         /\ c \in Books
         /\ c.requests = b.requests /\ c.friends = b.friends /\ c.data = b.data /\ c.seq = b.seq
         /\ DOMAIN b.threadOf \subseteq DOMAIN c.threadOf
         /\ \A q \in DOMAIN b.threadOf : c.threadOf[q] = b.threadOf[q]
         /\ \A m : Linked(m, b) /\ id = PairId(m, p) /\ Contains(b.friends, p) =>
              /\ Linked(m, c) /\ p \in DOMAIN c.threadOf
              /\ Range(c.sessions) = Range(b.sessions) \cup {id}
<1> DEFINE c == AddThreadDesc(b, p, id)
<1> SUFFICES
         /\ c \in Books
         /\ c.requests = b.requests /\ c.friends = b.friends /\ c.data = b.data /\ c.seq = b.seq
         /\ DOMAIN b.threadOf \subseteq DOMAIN c.threadOf
         /\ \A q \in DOMAIN b.threadOf : c.threadOf[q] = b.threadOf[q]
         /\ \A m : Linked(m, b) /\ id = PairId(m, p) /\ Contains(b.friends, p) =>
              /\ Linked(m, c) /\ p \in DOMAIN c.threadOf
              /\ Range(c.sessions) = Range(b.sessions) \cup {id}
  OBVIOUS
<1> HIDE DEF c
<1>1. /\ b.threadOf \in Maps(Users, Threads) /\ b.sessions \in Seq(Threads)
      /\ b \in [requests : Seq(Users), friends : Seq(Users), data : Maps(Threads, Chats),
                threadOf : Maps(Users, Threads), sessions : Seq(Threads), seq : Nat \ {0}]
  BY DEF Books
<1>2. CASE p \in DOMAIN b.threadOf \/ id \in Range(b.sessions)
  <2>1. c = b
    BY <1>2 DEF AddThreadDesc, c
  <2>2. ASSUME NEW m, Linked(m, b), id = PairId(m, p)
        PROVE  p \in DOMAIN b.threadOf /\ id \in Range(b.sessions)
    <3>1. CASE p \in DOMAIN b.threadOf
      BY <3>1, <2>2 DEF Linked, Range
    <3>2. CASE id \in Range(b.sessions)
      <4>1. PICK q \in DOMAIN b.threadOf : id = b.threadOf[q]
        BY <3>2, <2>2 DEF Linked, Range
      <4>2. q = p
        BY <4>1, <2>2, PairsDiffer DEF Linked
      <4> QED
        BY <3>2, <4>1, <4>2
    <3> QED
      BY <3>1, <3>2, <1>2
  <2>3. ASSUME NEW m, Linked(m, b), id = PairId(m, p)
        PROVE  Range(b.sessions) = Range(b.sessions) \cup {id}
    BY <2>2, <2>3
  <2> QED
    BY <2>1, <2>2, <2>3
<1>3. CASE p \notin DOMAIN b.threadOf /\ id \notin Range(b.sessions)
  <2>1. PICK threadOf \in Maps(Users, Threads) : threadOf = Put(b.threadOf, p, id)
    BY <1>1, PutMap
  <2>2. /\ DOMAIN threadOf = DOMAIN b.threadOf \cup {p} /\ threadOf[p] = id
        /\ \A q \in DOMAIN b.threadOf : threadOf[q] = b.threadOf[q]
    BY <1>3, <2>1 DEF Put
  <2>3. Range(threadOf) = Range(b.threadOf) \cup {id}
    BY <1>1, <1>3, <2>1, PutMap
  <2>4. PICK sessions \in Seq(Threads) : sessions = Append(b.sessions, id)
    BY <1>1, AppendProperties
  <2>5. /\ DOMAIN b.sessions = 1 .. Len(b.sessions) /\ Len(b.sessions) \in Nat
        /\ DOMAIN sessions = 1 .. Len(b.sessions) + 1
        /\ sessions[Len(b.sessions) + 1] = id
        /\ \A i \in 1 .. Len(b.sessions) : sessions[i] = b.sessions[i]
    BY <1>1, <2>4, AppendProperties, LenProperties
  <2>6. Range(sessions) = Range(b.sessions) \cup {id}
    BY <2>5 DEF Range
  <2>7. IsInjective(b.sessions) => IsInjective(sessions)
    <3>1. \A i \in DOMAIN b.sessions : b.sessions[i] # id
      BY <1>3 DEF Range
    <3> QED
      BY <3>1, <2>5 DEF IsInjective
  <2>8. c = [b EXCEPT !.threadOf = threadOf, !.sessions = sessions]
    BY <1>3, <2>1, <2>4 DEF AddThreadDesc, c
  <2>9. /\ c \in Books /\ c.threadOf = threadOf /\ c.sessions = sessions
        /\ c.requests = b.requests /\ c.friends = b.friends /\ c.data = b.data /\ c.seq = b.seq
    BY <1>1, <2>8 DEF Books
  <2>10. ASSUME NEW m, Linked(m, b), id = PairId(m, p), Contains(b.friends, p)
         PROVE  Linked(m, c)
    BY <2>10, <2>2, <2>3, <2>6, <2>7, <2>9 DEF Linked
  <2> QED
    BY <2>2, <2>6, <2>9, <2>10
<1> QED
  BY <1>2, <1>3

\* What a page of private chats makes of the book: a thread for each peer who
\* is a friend, and nothing else.
LEMMA PullBook ==
  ASSUME NEW peers \in Seq(Users), me \in Users, book \in Books
  PROVE  LET Add(b, p) == IF Contains(b.friends, p) THEN AddThreadDesc(b, p, PairId(me, p))
                                                    ELSE b
             c == FoldLeft(Add, book, peers) IN
         /\ c \in Books
         /\ c.friends = book.friends /\ c.data = book.data
         /\ \A q \in DOMAIN book.threadOf :
              q \in DOMAIN c.threadOf /\ c.threadOf[q] = book.threadOf[q]
         /\ Linked(me, book) =>
              /\ Linked(me, c)
              /\ \A id : id \in Range(c.sessions) <=>
                   \/ id \in Range(book.sessions)
                   \/ \E i \in 1 .. Len(peers) :
                        Contains(book.friends, peers[i]) /\ id = PairId(me, peers[i])
<1> DEFINE N == Len(peers)
           Step(b, p) == IF Contains(b.friends, p) THEN AddThreadDesc(b, p, PairId(me, p)) ELSE b
           P(h) == h = [s \in SUBSET (1 .. N) |->
                          IF s = {} THEN book ELSE Step(h[s \ {Max(s)}], peers[Max(s)])]
           h0 == CHOOSE h : P(h)
           c == FoldLeft(Step, book, peers)
<1>1. N \in Nat /\ DOMAIN peers = 1 .. N /\ \A i \in 1 .. N : peers[i] \in Users
  BY LenProperties
<1>2. c = h0[1 .. N]
  BY <1>1 DEF FoldLeft, MapThenFoldSet
<1>3. ASSUME NEW b \in Books, NEW p \in Users
      PROVE  /\ Step(b, p) \in Books
             /\ Step(b, p).friends = b.friends /\ Step(b, p).data = b.data
             /\ \A q \in DOMAIN b.threadOf :
                  q \in DOMAIN Step(b, p).threadOf /\ Step(b, p).threadOf[q] = b.threadOf[q]
             /\ Linked(me, b) =>
                  /\ Linked(me, Step(b, p))
                  /\ Range(Step(b, p).sessions) =
                       Range(b.sessions) \cup (IF Contains(b.friends, p) THEN {PairId(me, p)} ELSE {})
  <2>1. CASE ~Contains(b.friends, p)
    BY <2>1
  <2>2. CASE Contains(b.friends, p)
    <3>1. PICK d : d = AddThreadDesc(b, p, PairId(me, p))
      OBVIOUS
    <3>2. Step(b, p) = d
      BY <2>2, <3>1
    <3>3. PairId(me, p) \in Threads
      BY PairIsThread
    <3>4. /\ d \in Books /\ d.friends = b.friends /\ d.data = b.data
          /\ \A q \in DOMAIN b.threadOf : q \in DOMAIN d.threadOf /\ d.threadOf[q] = b.threadOf[q]
          /\ Linked(me, b) =>
               Linked(me, d) /\ Range(d.sessions) = Range(b.sessions) \cup {PairId(me, p)}
      <4> HIDE DEF Step, P, h0, c, N
      <4>1. PICK id \in Threads : id = PairId(me, p)
        BY <3>3
      <4>2. d = AddThreadDesc(b, p, id)
        BY <3>1, <4>1
      <4>3. /\ d \in Books /\ d.friends = b.friends /\ d.data = b.data
            /\ DOMAIN b.threadOf \subseteq DOMAIN d.threadOf
            /\ \A q \in DOMAIN b.threadOf : d.threadOf[q] = b.threadOf[q]
            /\ \A m : Linked(m, b) /\ id = PairId(m, p) /\ Contains(b.friends, p) =>
                 Linked(m, d) /\ Range(d.sessions) = Range(b.sessions) \cup {id}
        <5>1. /\ d \in Books
              /\ d.requests = b.requests /\ d.friends = b.friends /\ d.data = b.data /\ d.seq = b.seq
              /\ DOMAIN b.threadOf \subseteq DOMAIN d.threadOf
              /\ \A q \in DOMAIN b.threadOf : d.threadOf[q] = b.threadOf[q]
              /\ \A m : Linked(m, b) /\ id = PairId(m, p) /\ Contains(b.friends, p) =>
                   /\ Linked(m, d) /\ p \in DOMAIN d.threadOf
                   /\ Range(d.sessions) = Range(b.sessions) \cup {id}
          BY <4>2, DescKeeps
        <5> QED
          BY <5>1
      <4> QED
        BY <2>2, <4>1, <4>3
    <3> HIDE DEF Step
    <3> QED
      BY <2>2, <3>2, <3>4
  <2> QED
    BY <2>1, <2>2
<1> HIDE DEF Step, c
<1>4. P(h0)
  <2> DEFINE F == [ui \in Books \X (1 .. N) |-> Step(ui[1], peers[ui[2]])]
  <2>1. F \in [Books \X (1 .. N) -> Books]
    BY <1>1, <1>3
  <2>2. PICK g : Folds(g, N, Books, book, F)
    <3> HIDE DEF F, N, P, h0
    <3>1. N \in Nat
      BY <1>1
    <3> QED
      BY <3>1, <2>1, FoldExists
  <2>3. ASSUME NEW s \in SUBSET (1 .. N), s # {}
        PROVE  F[<<g[s \ {Max(s)}], Max(s)>>] = Step(g[s \ {Max(s)}], peers[Max(s)])
    <3>1. Max(s) \in 1 .. N
      BY <1>1, <2>3, MaxIsMember
    <3> QED
      BY <2>2, <3>1 DEF Folds
  <2>4. P(g)
    <3> HIDE DEF F
    <3> QED
      BY <2>2, <2>3 DEF Folds
  <2> HIDE DEF P
  <2> QED
    BY <2>4
<1>5. h0[{}] = book
  BY <1>4
<1> DEFINE
     Q(n, b) ==
       /\ b.friends = book.friends /\ b.data = book.data
       /\ \A q \in DOMAIN book.threadOf :
            q \in DOMAIN b.threadOf /\ b.threadOf[q] = book.threadOf[q]
       /\ Linked(me, book) =>
            /\ Linked(me, b)
            /\ \A id : id \in Range(b.sessions) <=>
                 \/ id \in Range(book.sessions)
                 \/ \E i \in 1 .. n :
                      Contains(book.friends, peers[i]) /\ id = PairId(me, peers[i])
     T == {nb \in (0 .. N) \X Books : Q(nb[1], nb[2])}
<1> HIDE DEF h0
<1>6. <<0, h0[{}]>> \in T
  <2>1. Q(0, book)
    <3>1. \A i : i \notin 1 .. 0
      OBVIOUS
    <3> QED
      BY <3>1
  <2>2. 0 \in 0 .. N
    BY <1>1
  <2> HIDE DEF Q, N
  <2> QED
    BY <2>1, <2>2, <1>5
<1>7. ASSUME NEW n \in 0 .. N - 1, <<n, h0[1 .. n]>> \in T,
             Max(1 .. n + 1) = n + 1 /\ (1 .. n + 1) \ {n + 1} = 1 .. n
      PROVE  <<n + 1, h0[1 .. n + 1]>> \in T
  <2>1. 1 .. n + 1 \in SUBSET (1 .. N) /\ 1 .. n + 1 # {} /\ n + 1 \in 1 .. N
    BY <1>1, Segments
  <2>2. PICK b : b = h0[1 .. n]
    OBVIOUS
  <2>3. b \in Books /\ Q(n, b)
    <3> HIDE DEF Q
    <3> QED
      BY <1>7, <2>2
  <2>4. PICK p \in Users : p = peers[n + 1]
    BY <1>1, <2>1
  <2>5. PICK d : d = Step(b, p)
    OBVIOUS
  <2>6. h0[1 .. n + 1] = d
    <3> HIDE DEF Q, T
    <3> QED
      BY <1>4, <1>7, <2>1, <2>2, <2>4, <2>5
  <2>7. d \in Books
    BY <1>3, <2>3, <2>5
  <2>8. Q(n + 1, d)
    <3>1. d.friends = b.friends /\ d.data = b.data
      BY <1>3, <2>3, <2>5
    <3>2. \A q \in DOMAIN b.threadOf : q \in DOMAIN d.threadOf /\ d.threadOf[q] = b.threadOf[q]
      BY <1>3, <2>3, <2>5
    <3>3. ASSUME Linked(me, book)
          PROVE  /\ Linked(me, d)
                 /\ Range(d.sessions) = Range(b.sessions)
                      \cup (IF Contains(book.friends, p) THEN {PairId(me, p)} ELSE {})
      BY <1>3, <2>3, <2>5, <3>3
    <3>4. ASSUME Linked(me, book), NEW id
          PROVE  id \in Range(d.sessions) <=>
                 \/ id \in Range(book.sessions)
                 \/ \E i \in 1 .. n + 1 :
                      Contains(book.friends, peers[i]) /\ id = PairId(me, peers[i])
      <4>1. \A i : i \in 1 .. n + 1 <=> i \in 1 .. n \/ i = n + 1
        <5>1. n \in Nat
          BY <1>1
        <5> QED
          BY <5>1
      <4>2. id \in Range(d.sessions) <=>
              id \in Range(b.sessions) \/ (Contains(book.friends, p) /\ id = PairId(me, p))
        BY <3>3, <3>4
      <4>3. id \in Range(b.sessions) <=>
              \/ id \in Range(book.sessions)
              \/ \E i \in 1 .. n : Contains(book.friends, peers[i]) /\ id = PairId(me, peers[i])
        BY <2>3, <3>4
      <4> HIDE DEF Q, T
      <4> QED
        BY <4>1, <4>2, <4>3, <2>4
    <3> QED
      BY <2>3, <3>1, <3>2, <3>3, <3>4
  <2>9. n + 1 \in 0 .. N
    BY <1>1
  <2> HIDE DEF Q, N
  <2> QED
    BY <2>6, <2>7, <2>8, <2>9
<1>8. <<N, h0[1 .. N]>> \in T
  <2> HIDE DEF T, N
  <2> QED
    BY <1>1, <1>6, <1>7, FoldThrough
<1>9. c \in Books /\ Q(N, c)
  <2> HIDE DEF Q, N
  <2> QED
    BY <1>2, <1>8
<1> USE DEF Step, c
<1> QED
  BY <1>9

\* A frame that is there has a mode.
LEMMA FrameIsThere ==
  ASSUME NEW f \in Frames
  PROVE  f # NoFrame
<1>1. f.mode # "none"
  BY DEF Frames
<1> QED
  BY <1>1 DEF NoFrame

\* What addListWidgetItemToList does to the list of the chats.
LEMMA ItemKeeps ==
  ASSUME NEW f \in Frames, NEW id \in Threads, NEW p \in Users
  PROVE  /\ AddListWidgetItem(f, id, p) \in Frames
         /\ AddListWidgetItem(f, id, p).cur = f.cur
         /\ DOMAIN AddListWidgetItem(f, id, p).widgets = DOMAIN f.widgets \cup {id}
<1>1. CASE id \in DOMAIN f.widgets
  BY <1>1 DEF AddListWidgetItem
<1>2. CASE id \notin DOMAIN f.widgets
  <2>1. f.widgets \in Maps(Threads, Users)
    BY DEF Frames
  <2>2. PICK widgets \in Maps(Threads, Users) : widgets = Put(f.widgets, id, p)
    BY <2>1, PutMap
  <2>3. DOMAIN widgets = DOMAIN f.widgets \cup {id}
    BY <2>2 DEF Put
  <2>4. AddListWidgetItem(f, id, p) = [f EXCEPT !.widgets = widgets]
    BY <1>2, <2>2 DEF AddListWidgetItem
  <2>5. PICK g : g = [f EXCEPT !.widgets = widgets]
    OBVIOUS
  <2>6. g \in Frames /\ g.cur = f.cur /\ g.widgets = widgets
    BY <2>2, <2>5 DEF Frames
  <2> QED
    BY <2>3, <2>4, <2>5, <2>6
<1> QED
  BY <1>1, <1>2

\* What switchChattingThread does: the friend on the page does not change.
LEMMA SwitchKeeps ==
  ASSUME NEW f \in Frames, NEW p \in Users
  PROVE  /\ SwitchChattingThread(f, p) \in Frames
         /\ SwitchChattingThread(f, p).widgets = f.widgets
         /\ SwitchChattingThread(f, p).cur = IF f.cur = Nobody THEN p ELSE f.cur
BY DEF SwitchChattingThread, Frames, Parties

\* A page of private chats gets an item for each peer who is a friend.
LEMMA PullFrame ==
  ASSUME NEW peers \in Seq(Users), me \in Users, frame \in Frames
  PROVE  LET Show(f, p) == IF Contains(book.friends, p)
                           THEN AddListWidgetItem(f, PairId(me, p), p) ELSE f
             c == FoldLeft(Show, frame, peers) IN
         /\ c \in Frames /\ c.cur = frame.cur
         /\ \A id : id \in DOMAIN c.widgets <=>
              \/ id \in DOMAIN frame.widgets
              \/ \E i \in 1 .. Len(peers) :
                   Contains(book.friends, peers[i]) /\ id = PairId(me, peers[i])
<1> DEFINE N == Len(peers)
           Step(f, p) == IF Contains(book.friends, p)
                         THEN AddListWidgetItem(f, PairId(me, p), p) ELSE f
           P(h) == h = [s \in SUBSET (1 .. N) |->
                          IF s = {} THEN frame ELSE Step(h[s \ {Max(s)}], peers[Max(s)])]
           h0 == CHOOSE h : P(h)
           c == FoldLeft(Step, frame, peers)
<1>1. N \in Nat /\ DOMAIN peers = 1 .. N /\ \A i \in 1 .. N : peers[i] \in Users
  BY LenProperties
<1>2. c = h0[1 .. N]
  BY <1>1 DEF FoldLeft, MapThenFoldSet
<1>3. ASSUME NEW f \in Frames, NEW p \in Users
      PROVE  /\ Step(f, p) \in Frames /\ Step(f, p).cur = f.cur
             /\ \A id : id \in DOMAIN Step(f, p).widgets <=>
                  id \in DOMAIN f.widgets \/ (Contains(book.friends, p) /\ id = PairId(me, p))
  <2>1. CASE ~Contains(book.friends, p)
    BY <2>1
  <2>2. CASE Contains(book.friends, p)
    <3>1. PairId(me, p) \in Threads
      BY PairIsThread
    <3> HIDE DEF P, h0, c, N
    <3> QED
      BY <2>2, <3>1, ItemKeeps
  <2> QED
    BY <2>1, <2>2
<1> HIDE DEF Step, c
<1>4. P(h0)
  <2> DEFINE F == [ui \in Frames \X (1 .. N) |-> Step(ui[1], peers[ui[2]])]
  <2>1. F \in [Frames \X (1 .. N) -> Frames]
    BY <1>1, <1>3
  <2>2. PICK g : Folds(g, N, Frames, frame, F)
    <3> HIDE DEF F, N, P, h0
    <3>1. N \in Nat
      BY <1>1
    <3> QED
      BY <3>1, <2>1, FoldExists
  <2>3. ASSUME NEW s \in SUBSET (1 .. N), s # {}
        PROVE  F[<<g[s \ {Max(s)}], Max(s)>>] = Step(g[s \ {Max(s)}], peers[Max(s)])
    <3>1. Max(s) \in 1 .. N
      BY <1>1, <2>3, MaxIsMember
    <3> QED
      BY <2>2, <3>1 DEF Folds
  <2>4. P(g)
    <3> HIDE DEF F
    <3> QED
      BY <2>2, <2>3 DEF Folds
  <2> HIDE DEF P
  <2> QED
    BY <2>4
<1>5. h0[{}] = frame
  BY <1>4
<1> DEFINE
     Q(n, f) ==
       /\ f.cur = frame.cur
       /\ \A id : id \in DOMAIN f.widgets <=>
            \/ id \in DOMAIN frame.widgets
            \/ \E i \in 1 .. n :
                 Contains(book.friends, peers[i]) /\ id = PairId(me, peers[i])
     T == {nf \in (0 .. N) \X Frames : Q(nf[1], nf[2])}
<1> HIDE DEF h0
<1>6. <<0, h0[{}]>> \in T
  <2>1. Q(0, frame)
    <3>1. \A i : i \notin 1 .. 0
      OBVIOUS
    <3> QED
      BY <3>1
  <2>2. 0 \in 0 .. N
    BY <1>1
  <2> HIDE DEF Q, N
  <2> QED
    BY <2>1, <2>2, <1>5
<1>7. ASSUME NEW n \in 0 .. N - 1, <<n, h0[1 .. n]>> \in T,
             Max(1 .. n + 1) = n + 1 /\ (1 .. n + 1) \ {n + 1} = 1 .. n
      PROVE  <<n + 1, h0[1 .. n + 1]>> \in T
  <2>1. 1 .. n + 1 \in SUBSET (1 .. N) /\ 1 .. n + 1 # {} /\ n + 1 \in 1 .. N
    BY <1>1, Segments
  <2>2. PICK f : f = h0[1 .. n]
    OBVIOUS
  <2>3. f \in Frames /\ Q(n, f)
    <3> HIDE DEF Q
    <3> QED
      BY <1>7, <2>2
  <2>4. PICK p \in Users : p = peers[n + 1]
    BY <1>1, <2>1
  <2>5. PICK d : d = Step(f, p)
    OBVIOUS
  <2>6. h0[1 .. n + 1] = d
    <3> HIDE DEF Q, T
    <3> QED
      BY <1>4, <1>7, <2>1, <2>2, <2>4, <2>5
  <2>7. d \in Frames
    BY <1>3, <2>3, <2>5
  <2>8. Q(n + 1, d)
    <3>1. d.cur = frame.cur
      BY <1>3, <2>3, <2>5
    <3>2. ASSUME NEW id
          PROVE  id \in DOMAIN d.widgets <=>
                 \/ id \in DOMAIN frame.widgets
                 \/ \E i \in 1 .. n + 1 :
                      Contains(book.friends, peers[i]) /\ id = PairId(me, peers[i])
      <4>1. \A i : i \in 1 .. n + 1 <=> i \in 1 .. n \/ i = n + 1
        <5>1. n \in Nat
          BY <1>1
        <5> QED
          BY <5>1
      <4>2. id \in DOMAIN d.widgets <=>
              id \in DOMAIN f.widgets \/ (Contains(book.friends, p) /\ id = PairId(me, p))
        BY <1>3, <2>3, <2>5
      <4>3. id \in DOMAIN f.widgets <=>
              \/ id \in DOMAIN frame.widgets
              \/ \E i \in 1 .. n : Contains(book.friends, peers[i]) /\ id = PairId(me, peers[i])
        BY <2>3
      <4> HIDE DEF Q, T
      <4> QED
        BY <4>1, <4>2, <4>3, <2>4
    <3> QED
      BY <3>1, <3>2
  <2>9. n + 1 \in 0 .. N
    BY <1>1
  <2> HIDE DEF Q, N
  <2> QED
    BY <2>6, <2>7, <2>8, <2>9
<1>8. <<N, h0[1 .. N]>> \in T
  <2> HIDE DEF T, N
  <2> QED
    BY <1>1, <1>6, <1>7, FoldThrough
<1>9. c \in Frames /\ Q(N, c)
  <2> HIDE DEF Q, N
  <2> QED
    BY <1>2, <1>8
<1> USE DEF Step, c
<1> QED
  BY <1>9

\* The texts that are sent become records between the user and the friend on
\* the page, or records without users.
LEMMA CollectIs ==
  ASSUME NEW batch \in Seq(Nat), me \in Users, frame.cur \in Users, fresh \in Nat
  PROVE  /\ Collect(batch).records \in Seq(Records(Between(me, frame.cur)))
         /\ Collect(batch).array \subseteq Uids
<1> DEFINE N == Len(batch)
           X == Records(Between(me, frame.cur))
           S == [counter : Nat, array : SUBSET Uids, records : Seq(X)]
           Step(s, length) ==
             IF length = 0 THEN s
             ELSE LET full == s.counter + length > TextBufferSize
                      uid == <<"own", fresh + Len(s.records) + 1>> IN
                  [counter |-> IF full THEN length ELSE s.counter + length,
                   array   |-> IF full THEN {uid} ELSE s.array \cup {uid},
                   records |-> Append(s.records,
                                 IF full THEN Record(uid, NoId, Nobody, Nobody)
                                         ELSE Record(uid, NoId, me, frame.cur))]
           s0 == [counter |-> 0, array |-> {}, records |-> <<>>]
           P(h) == h = [s \in SUBSET (1 .. N) |->
                          IF s = {} THEN s0 ELSE Step(h[s \ {Max(s)}], batch[Max(s)])]
           h0 == CHOOSE h : P(h)
           c == Collect(batch)
<1>1. N \in Nat /\ DOMAIN batch = 1 .. N /\ \A i \in 1 .. N : batch[i] \in Nat
  BY LenProperties
<1>2. c = h0[1 .. N]
  BY <1>1 DEF Collect, FoldLeft, MapThenFoldSet
<1> HIDE DEF c
<1>3. ASSUME NEW s \in S, NEW length \in Nat
      PROVE  Step(s, length) \in S
  <2>1. s.counter \in Nat /\ s.array \in SUBSET Uids /\ s.records \in Seq(X)
    BY DEF S
  <2>2. PICK uid \in Uids : uid = <<"own", fresh + Len(s.records) + 1>>
    <3>1. PICK n \in Nat : n = fresh + Len(s.records) + 1
      BY <2>1, LenProperties
    <3>2. <<"own", n>> \in Uids
      BY DEF Uids
    <3> QED
      BY <3>1, <3>2
  <2>3. Record(uid, NoId, Nobody, Nobody) \in X /\ Record(uid, NoId, me, frame.cur) \in X
    BY DEF Record, Records, Between, Parties
  <2>4. PICK full \in BOOLEAN : full <=> (s.counter + length > TextBufferSize)
    <3> DEFINE big == s.counter + length > TextBufferSize
    <3>1. \E full \in BOOLEAN : full <=> big
      <4> HIDE DEF big
      <4>1. CASE big
        BY <4>1
      <4>2. CASE ~big
        BY <4>2
      <4> QED
        BY <4>1, <4>2
    <3> QED
      BY <3>1
  <2>5. PICK x \in X : x = IF full THEN Record(uid, NoId, Nobody, Nobody)
                                   ELSE Record(uid, NoId, me, frame.cur)
    BY <2>3
  <2> HIDE DEF X, P, h0
  <2>6. PICK records \in Seq(X) : records = Append(s.records, x)
    BY <2>1, AppendProperties
  <2>7. Step(s, length) = IF length = 0 THEN s
          ELSE [counter |-> IF full THEN length ELSE s.counter + length,
                array   |-> IF full THEN {uid} ELSE s.array \cup {uid},
                records |-> records]
    BY <2>2, <2>4, <2>5, <2>6
  <2>8. (IF full THEN length ELSE s.counter + length) \in Nat
    BY <2>1
  <2>9. (IF full THEN {uid} ELSE s.array \cup {uid}) \in SUBSET Uids
    BY <2>1
  <2> HIDE DEF Step
  <2> QED
    BY <2>7, <2>8, <2>9
<1>4. s0 \in S
  <2>1. <<>> \in Seq(X)
    BY EmptyIs
  <2> QED
    BY <2>1
<1> HIDE DEF Step, S, s0
<1>5. P(h0)
  <2> DEFINE F == [ui \in S \X (1 .. N) |-> Step(ui[1], batch[ui[2]])]
  <2>1. F \in [S \X (1 .. N) -> S]
    BY <1>1, <1>3
  <2>2. PICK g : Folds(g, N, S, s0, F)
    <3> HIDE DEF F, N, P, h0
    <3>1. N \in Nat
      BY <1>1
    <3> QED
      BY <3>1, <1>4, <2>1, FoldExists
  <2>3. ASSUME NEW s \in SUBSET (1 .. N), s # {}
        PROVE  F[<<g[s \ {Max(s)}], Max(s)>>] = Step(g[s \ {Max(s)}], batch[Max(s)])
    <3>1. Max(s) \in 1 .. N
      BY <1>1, <2>3, MaxIsMember
    <3> QED
      BY <2>2, <3>1 DEF Folds
  <2>4. P(g)
    <3> HIDE DEF F
    <3> QED
      BY <2>2, <2>3 DEF Folds
  <2> HIDE DEF P
  <2> QED
    BY <2>4
<1>6. h0[{}] = s0
  BY <1>5
<1> HIDE DEF h0
<1>7. ASSUME NEW n \in 0 .. N - 1, h0[1 .. n] \in S,
             Max(1 .. n + 1) = n + 1, (1 .. n + 1) \ {n + 1} = 1 .. n
      PROVE  h0[1 .. n + 1] \in S
  <2>1. 1 .. n + 1 \in SUBSET (1 .. N) /\ 1 .. n + 1 # {} /\ n + 1 \in 1 .. N
    BY <1>1, Segments
  <2>2. h0[1 .. n + 1] = Step(h0[1 .. n], batch[n + 1])
    BY <1>5, <1>7, <2>1
  <2> QED
    BY <2>1, <2>2, <1>7, <1>1, <1>3
<1>8. h0[1 .. N] \in S
  <2> HIDE DEF N
  <2>1. h0[{}] \in S
    BY <1>4, <1>6
  <2> QED
    BY <1>1, <1>7, <2>1, FoldStays
<1>9. c.records \in Seq(X) /\ c.array \subseteq Uids
  BY <1>2, <1>8 DEF S
<1> QED
  BY <1>9 DEF c

\* What a list contains.
LEMMA ContainsIs ==
  ASSUME NEW X, NEW s \in Seq(X), NEW e
  PROVE  Contains(s, e) <=> e \in Range(s)
<1>1. DOMAIN s = 1 .. Len(s)
  BY LenProperties
<1> QED
  BY <1>1 DEF Contains, Range

\* An order of the members of a finite set contains them all.
LEMMA OrderIs ==
  ASSUME NEW all, IsFiniteSet(all), NEW s \in SetToSeqs(all)
  PROVE  s \in Seq(all) /\ Range(s) = all
<1> DEFINE D == 1 .. Cardinality(all)
<1>1. Cardinality(all) \in Nat
  BY FS_CardinalityType
<1>2. s \in [D -> all] /\ \A i, j \in D : i # j => s[i] # s[j]
  BY DEF SetToSeqs
<1>3. s \in Injection(D, all)
  BY <1>2 DEF Injection, IsInjective
<1>4. IsFiniteSet(D) /\ Cardinality(D) = Cardinality(all)
  BY <1>1, FS_Interval
<1>5. s \in Surjection(D, all)
  <2> HIDE DEF D
  <2> QED
    BY <1>3, <1>4, FS_Injection
<1>6. Range(s) = all
  BY <1>2, <1>5 DEF Surjection, Range
<1>7. s \in Seq(all)
  BY <1>1, <1>2
<1> QED
  BY <1>6, <1>7

\* The friends that come with a message join those that are there.
LEMMA AddFriendsIs ==
  ASSUME NEW b \in Books, NEW new \in SUBSET Users, NEW c \in AddFriends(b, new)
  PROVE  /\ c \in Books
         /\ c.requests = b.requests /\ c.data = b.data /\ c.threadOf = b.threadOf
         /\ c.sessions = b.sessions /\ c.seq = b.seq
         /\ \A p : Contains(c.friends, p) <=> Contains(b.friends, p) \/ p \in new
<1> DEFINE all == Range(b.friends) \cup new
<1>1. b.friends \in Seq(Users) /\ b.friends \in [1 .. Len(b.friends) -> Users]
  BY LenProperties DEF Books
<1>2. all \in SUBSET Users
  BY <1>1 DEF Range
<1>3. IsFiniteSet(all)
  <2> HIDE DEF all
  <2> QED
    BY <1>2, UserAssumption, FS_Subset
<1>4. CASE all = Range(b.friends)
  <2>1. c = b
    BY <1>4 DEF AddFriends
  <2>2. \A p : p \in new => Contains(b.friends, p)
    BY <1>1, <1>4, ContainsIs
  <2> QED
    BY <2>1, <2>2
<1>5. CASE all # Range(b.friends)
  <2>1. PICK order \in SetToSeqs(all) : c = [b EXCEPT !.friends = order]
    BY <1>5 DEF AddFriends
  <2> HIDE DEF all
  <2>2. order \in Seq(all) /\ Range(order) = all
    BY <1>3, OrderIs
  <2>3. order \in Seq(Users)
    BY <1>2, <2>2, SeqMonotonic
  <2>4. /\ c \in Books /\ c.friends = order
        /\ c.requests = b.requests /\ c.data = b.data /\ c.threadOf = b.threadOf
        /\ c.sessions = b.sessions /\ c.seq = b.seq
    BY <2>1, <2>3 DEF Books
  <2>5. \A p : Contains(order, p) <=> p \in all
    BY <2>2, <2>3, ContainsIs
  <2>6. \A p : Contains(b.friends, p) <=> p \in Range(b.friends)
    BY <1>1, ContainsIs
  <2> QED
    BY <2>4, <2>5, <2>6 DEF all
<1> QED
  BY <1>4, <1>5

\* A page of a list, and where the next one begins.
LEMMA NextPageIs ==
  ASSUME NEW X, NEW list \in Seq(X), NEW from \in Nat, NEW size \in Nat
  PROVE  NextPage(list, from, size).shown \in Seq(X) /\ NextPage(list, from, size).next \in Nat
<1>1. Len(list) \in Nat /\ \A i \in 1 .. Len(list) : list[i] \in X
  BY LenProperties
<1>2. CASE from >= Len(list)
  <2>1. << >> \in Seq(X)
    BY EmptyIs
  <2> QED
    BY <1>2, <2>1 DEF NextPage
<1>3. CASE ~(from >= Len(list))
  <2>1. PICK to \in Nat : /\ to = IF from + size >= Len(list) THEN Len(list) ELSE from + size
                          /\ to <= Len(list)
    BY <1>1
  <2>2. \A i \in from + 1 .. to : list[i] \in X
    BY <1>1, <2>1
  <2>3. SubSeq(list, from + 1, to) \in Seq(X)
    BY <2>2, SubSeqProperties
  <2>4. NextPage(list, from, size) = [shown |-> SubSeq(list, from + 1, to), next |-> to]
    BY <1>3, <2>1 DEF NextPage
  <2> QED
    BY <2>3, <2>4
<1> QED
  BY <1>2, <1>3

\* A list in reverse.
LEMMA ReverseIs ==
  ASSUME NEW X, NEW s \in Seq(X)
  PROVE  Reverse(s) \in Seq(X)
<1>1. Len(s) \in Nat /\ \A i \in 1 .. Len(s) : s[i] \in X
  BY LenProperties
<1>2. \A i \in 1 .. Len(s) : (Len(s) - i) + 1 \in 1 .. Len(s)
  BY <1>1
<1>3. Reverse(s) \in [1 .. Len(s) -> X]
  BY <1>1, <1>2 DEF Reverse
<1> QED
  BY <1>1, <1>3

\* The lists of the frame grow by a page, and the chats stay.
LEMMA LoadKeeps ==
  ASSUME NEW f \in Frames, NEW b \in Books
  PROVE  /\ LoadLimitedContactsList(f, b) \in Frames
         /\ LoadLimitedContactsList(f, b).widgets = f.widgets
         /\ LoadLimitedContactsList(f, b).cur = f.cur
         /\ LoadLimitedReqList(f, b) \in Frames
         /\ LoadLimitedReqList(f, b).widgets = f.widgets
         /\ LoadLimitedReqList(f, b).cur = f.cur
<1>1. /\ b.friends \in Seq(Users) /\ b.requests \in Seq(Users)
      /\ f.contacts \in Seq(Users) /\ f.requests \in Seq(Cards)
      /\ f.contactsFrom \in Nat /\ f.requestsFrom \in Nat
      /\ ContactPage \in Nat /\ RequestPage \in Nat
  BY PageAssumption DEF Books, Frames
<1>2. /\ LoadLimitedContactsList(f, b) \in Frames
      /\ LoadLimitedContactsList(f, b).widgets = f.widgets
      /\ LoadLimitedContactsList(f, b).cur = f.cur
  <2>1. PICK page1 : page1 = NextPage(b.friends, f.contactsFrom, ContactPage)
    OBVIOUS
  <2>2. page1.shown \in Seq(Users) /\ page1.next \in Nat
    BY <1>1, <2>1, NextPageIs
  <2>3. PICK contacts \in Seq(Users) : contacts = f.contacts \o page1.shown
    BY <1>1, <2>2, ConcatProperties
  <2>4. PICK next \in Nat : next = page1.next
    BY <2>2
  <2>5. LoadLimitedContactsList(f, b) = [f EXCEPT !.contacts = contacts, !.contactsFrom = next]
    BY <2>1, <2>3, <2>4 DEF LoadLimitedContactsList, Frames
  <2> QED
    BY <2>5 DEF Frames
<1>3. /\ LoadLimitedReqList(f, b) \in Frames
      /\ LoadLimitedReqList(f, b).widgets = f.widgets
      /\ LoadLimitedReqList(f, b).cur = f.cur
  <2>1. PICK page1 : page1 = NextPage(b.requests, f.requestsFrom, RequestPage)
    OBVIOUS
  <2>2. page1.shown \in Seq(Users) /\ page1.next \in Nat
    BY <1>1, <2>1, NextPageIs
  <2>3. PICK cards : cards = [i \in DOMAIN page1.shown |-> [from |-> page1.shown[i], open |-> TRUE]]
    OBVIOUS
  <2>4. cards \in Seq(Cards)
    <3>1. /\ DOMAIN page1.shown = 1 .. Len(page1.shown) /\ Len(page1.shown) \in Nat
          /\ \A i \in DOMAIN page1.shown : page1.shown[i] \in Users
      BY <2>2, LenProperties
    <3>2. cards \in [1 .. Len(page1.shown) -> Cards]
      BY <2>3, <3>1 DEF Cards
    <3> QED
      BY <3>1, <3>2
  <2>5. Reverse(cards) \in Seq(Cards)
    BY <2>4, ReverseIs
  <2>6. PICK requests \in Seq(Cards) : requests = Reverse(cards) \o f.requests
    BY <1>1, <2>5, ConcatProperties
  <2>7. PICK next \in Nat : next = page1.next
    BY <2>2
  <2>8. LoadLimitedReqList(f, b) = [f EXCEPT !.requests = requests, !.requestsFrom = next]
    BY <2>1, <2>3, <2>6, <2>7 DEF LoadLimitedReqList, Frames
  <2> QED
    BY <2>8 DEF Frames
<1> QED
  BY <1>2, <1>3

\* The maps of the account manager of the user m, and the frame, agree.
Agree(m, b, f) ==
  /\ Linked(m, b)
  /\ \A id \in DOMAIN b.data :
       /\ b.data[id].peer \in DOMAIN b.threadOf /\ b.threadOf[b.data[id].peer] = id
       /\ b.data[id] \in Histories(b.data[id].peer, Between(m, b.data[id].peer))
  /\ f # NoFrame =>
       /\ DOMAIN f.widgets = Range(b.sessions)
       /\ f.cur # Nobody => f.cur \in DOMAIN b.threadOf

\* The types of the chats, and their agreement until the manager is cleared.
ChatInv ==
  /\ client \in {"up", "hung", "crashed"} /\ me \in Parties /\ book \in Books
  /\ wire \subseteq Uids /\ fresh \in Nat /\ cleared \in BOOLEAN
  /\ frame # NoFrame => frame \in Frames
  /\ ~cleared => Agree(me, book, frame)
  /\ (~cleared /\ me = Nobody) => (book = EmptyBook /\ frame = NoFrame)

\* What a step of somebody who is logged in, with a frame, does to the chats.
Stays ==
  /\ client' \in {"up", "hung", "crashed"} /\ me' = me /\ book' \in Books
  /\ wire' \subseteq Uids /\ fresh' \in Nat /\ cleared' = cleared
  /\ frame' \in Frames
  /\ Agree(me, book, frame) => Agree(me, book', frame')

\* Such a step preserves the invariant of the chats.
LEMMA StaysKeeps ==
  ASSUME ChatInv, me \in Users, Stays
  PROVE  ChatInv'
<1>1. me # Nobody
  BY UserAssumption
<1> QED
  BY <1>1, FrameIsThere DEF ChatInv, Stays

\* The records of a thread, whoever they are from.
LEMMA ChatIs ==
  ASSUME NEW t \in Chats
  PROVE  t.peer \in Users /\ t \in Histories(t.peer, SUBSET Parties)
<1>1. PICK p \in Users : t \in Histories(p, SUBSET Parties)
  BY DEF Chats
<1>2. t.peer = p
  BY <1>1 DEF Histories
<1> QED
  BY <1>1, <1>2

\* Records between two users are records.
LEMMA RecordsWiden ==
  ASSUME NEW W
  PROVE  Records(W) \subseteq Records(SUBSET Parties)
BY DEF Records

\* A thread of them is a thread.
LEMMA HistoryIsChat ==
  ASSUME NEW p \in Users, NEW W, NEW t \in Histories(p, W)
  PROVE  t \in Chats /\ t.peer = p
<1>1. /\ t.items \in Seq(Records(W)) /\ t.peer = p
      /\ t \in [peer : {p}, items : Seq(Records(W)), local : Maps(Uids, Nat),
                verified : Maps(Ids, Nat), last : BOOLEAN, lastId : Ids \cup {NoId}]
      /\ Indexed(t) /\ Range(t.local) \cap Range(t.verified) = {}
  BY DEF Histories
<1>2. t.items \in Seq(Records(SUBSET Parties))
  BY <1>1, RecordsWiden, SeqMonotonic
<1>3. t \in [peer : {p}, items : Seq(Records(SUBSET Parties)), local : Maps(Uids, Nat),
             verified : Maps(Ids, Nat), last : BOOLEAN, lastId : Ids \cup {NoId}]
  BY <1>1, <1>2
<1>4. t \in Histories(p, SUBSET Parties)
  BY <1>1, <1>3 DEF Histories
<1> QED
  BY <1>1, <1>4 DEF Chats

\* A frame with the same chats agrees with the same book.
LEMMA AgreeFrame ==
  ASSUME NEW m, NEW b, NEW f \in Frames, NEW g,
         g.widgets = f.widgets, g.cur = f.cur, Agree(m, b, f)
  PROVE  Agree(m, b, g)
BY FrameIsThere DEF Agree

\* A thread of the book is changed, into one with the same peer.
LEMMA DataKeeps ==
  ASSUME NEW b \in Books, NEW id \in DOMAIN b.data, NEW t \in Chats, NEW n \in Nat \ {0},
         t.peer = b.data[id].peer
  PROVE  LET c == [b EXCEPT !.data[id] = t, !.seq = n] IN
         /\ c \in Books
         /\ \A m, f : /\ Agree(m, b, f)
                      /\ t \in Histories(t.peer, Between(m, t.peer))
                      => Agree(m, c, f)
<1>1. /\ b.data \in Maps(Threads, Chats)
      /\ b \in [requests : Seq(Users), friends : Seq(Users), data : Maps(Threads, Chats),
                threadOf : Maps(Users, Threads), sessions : Seq(Threads), seq : Nat \ {0}]
  BY DEF Books
<1>2. PICK data : data = [b.data EXCEPT ![id] = t]
  OBVIOUS
<1>3. /\ DOMAIN data = DOMAIN b.data /\ data[id] = t
      /\ \A k \in DOMAIN b.data : k # id => data[k] = b.data[k]
  BY <1>2
<1>4. data \in Maps(Threads, Chats)
  <2>1. /\ DOMAIN b.data \subseteq Threads /\ b.data \in [DOMAIN b.data -> Chats]
    BY <1>1, MapIs
  <2>2. data \in [DOMAIN b.data -> Chats]
    BY <1>2, <2>1
  <2> QED
    BY <2>1, <2>2, MapIs
<1>5. PICK c : c = [b EXCEPT !.data = data, !.seq = n]
  OBVIOUS
<1>6. c = [b EXCEPT !.data[id] = t, !.seq = n]
  BY <1>1, <1>2, <1>5
<1>7. /\ c \in Books /\ c.data = data /\ c.friends = b.friends
      /\ c.threadOf = b.threadOf /\ c.sessions = b.sessions
  BY <1>1, <1>4, <1>5 DEF Books
<1>8. ASSUME NEW m, NEW f, Agree(m, b, f), t \in Histories(t.peer, Between(m, t.peer))
      PROVE  Agree(m, c, f)
  <2>1. Linked(m, c)
    BY <1>7, <1>8 DEF Agree, Linked
  <2>2. ASSUME NEW k \in DOMAIN c.data
        PROVE  /\ c.data[k].peer \in DOMAIN c.threadOf /\ c.threadOf[c.data[k].peer] = k
               /\ c.data[k] \in Histories(c.data[k].peer, Between(m, c.data[k].peer))
    <3>1. CASE k = id
      BY <1>3, <1>7, <1>8, <2>2, <3>1 DEF Agree
    <3>2. CASE k # id
      BY <1>3, <1>7, <1>8, <2>2, <3>2 DEF Agree
    <3> QED
      BY <3>1, <3>2
  <2> QED
    BY <2>1, <2>2, <1>7, <1>8 DEF Agree
<1> QED
  BY <1>6, <1>7, <1>8

\* The same for a step that changes nothing else of the book.
LEMMA DataAlone ==
  ASSUME NEW b \in Books, NEW id \in DOMAIN b.data, NEW t \in Chats,
         t.peer = b.data[id].peer
  PROVE  LET c == [b EXCEPT !.data[id] = t] IN
         /\ c \in Books
         /\ \A m, f : /\ Agree(m, b, f)
                      /\ t \in Histories(t.peer, Between(m, t.peer))
                      => Agree(m, c, f)
<1>1. b.seq \in Nat \ {0}
  BY DEF Books
<1>2. [b EXCEPT !.data[id] = t] = [b EXCEPT !.data[id] = t, !.seq = b.seq]
  BY DEF Books
<1>3. PICK n \in Nat \ {0} : n = b.seq
  BY <1>1
<1>4. LET c == [b EXCEPT !.data[id] = t, !.seq = n] IN
         /\ c \in Books
         /\ \A m, f : /\ Agree(m, b, f)
                      /\ t \in Histories(t.peer, Between(m, t.peer))
                      => Agree(m, c, f)
  BY DataKeeps
<1> QED
  BY <1>2, <1>3, <1>4

\* Two users have one thread.
LEMMA OneThread ==
  ASSUME NEW m, NEW b, NEW f, Agree(m, b, f), NEW id \in DOMAIN b.data, NEW p,
         id = PairId(m, p) \/ (p \in DOMAIN b.threadOf /\ id = b.threadOf[p])
  PROVE  b.data[id].peer = p
<1>1. b.data[id].peer \in DOMAIN b.threadOf /\ id = PairId(m, b.data[id].peer)
  BY DEF Agree, Linked
<1>2. id = PairId(m, p)
  BY DEF Agree, Linked
<1> QED
  BY <1>1, <1>2, PairsDiffer

-----------------------------------------------------------------------------
(* The messages of the server and what the user does, one by one.           *)

\* What the records of a thread come to, whoever they are from: a record of the
\* server is between the user and the peer.
LEMMA RecordIs ==
  ASSUME NEW uid \in Uids, NEW id \in Ids \cup {NoId}, NEW p \in Users, NEW m \in Users
  PROVE  /\ Record(uid, id, p, m) \in Records(Between(m, p))
         /\ Record(uid, id, p, m) \in Records(SUBSET Parties)
BY DEF Record, Records, Between, Parties

\* A step of the frame alone.
LEMMA FrameStays ==
  ASSUME ChatInv, frame \in Frames, NEW f \in Frames, FrameChanges(f),
         f.widgets = frame.widgets,
         \/ f.cur = frame.cur
         \/ f.cur \in DOMAIN book.threadOf
  PROVE  Stays
<1>1. /\ client' = client /\ me' = me /\ book' = book /\ wire' = wire /\ fresh' = fresh
      /\ cleared' = cleared /\ frame' = f
  BY DEF FrameChanges
<1>2. ASSUME Agree(me, book, frame), frame # NoFrame PROVE Agree(me, book, f)
  BY <1>2 DEF Agree
<1> QED
  BY <1>1, <1>2, FrameIsThere DEF ChatInv, Stays

\* Who is contained in a list of users is a user.
LEMMA ListedIs ==
  ASSUME NEW s \in Seq(Users), NEW p, Contains(s, p)
  PROVE  p \in Users
<1>1. p \in Range(s)
  BY ContainsIs
<1> QED
  BY <1>1 DEF Range

\* What the user does to the frame and to nothing else, and the end of a search.
LEMMA FrameActions ==
  ASSUME ChatInv, frame \in Frames,
         \/ DisplayChatList \/ DisplayContactList \/ DisplaySetting
         \/ SearchTextChanged \/ SearchUser
         \/ LoadMoreContacts \/ LoadMoreRequests
         \/ ClickAddNewUser \/ \E p \in Users : ClickContact(p)
         \/ \E i \in DOMAIN frame.requests : AnswerRequest(i)
         \/ CloseCard
         \/ \E u \in Parties : SearchResponse(u, uuid)
  PROVE  Stays
<1>2. book \in Books
  BY DEF ChatInv
<1>3. CASE DisplayChatList \/ DisplaySetting
  <2>1. PICK x \in {"chats", "settings"}, y \in {"chatting", "setting"} :
          FrameChanges([frame EXCEPT !.mode = x, !.stack = y])
    <3>1. CASE DisplayChatList
      BY <3>1 DEF DisplayChatList, Display
    <3>2. CASE DisplaySetting
      BY <3>2 DEF DisplaySetting, Display
    <3> QED
      BY <1>3, <3>1, <3>2
  <2>2. PICK f : f = [frame EXCEPT !.mode = x, !.stack = y]
    OBVIOUS
  <2>3. f \in Frames /\ f.widgets = frame.widgets /\ f.cur = frame.cur
    BY <2>2 DEF Frames
  <2> QED
    BY <2>1, <2>2, <2>3, FrameStays
<1>4. CASE DisplayContactList \/ SearchTextChanged
  <2>1. PICK x \in {"contacts", "searching"} : FrameChanges([frame EXCEPT !.mode = x])
    BY <1>4 DEF DisplayContactList, SearchTextChanged
  <2>2. PICK f : f = [frame EXCEPT !.mode = x]
    OBVIOUS
  <2>3. f \in Frames /\ f.widgets = frame.widgets /\ f.cur = frame.cur
    BY <2>2 DEF Frames
  <2> QED
    BY <2>1, <2>2, <2>3, FrameStays
<1>5. CASE SearchUser
  <2>1. PICK f : f = [frame EXCEPT !.loading = TRUE]
    OBVIOUS
  <2>2. f \in Frames /\ f.widgets = frame.widgets /\ f.cur = frame.cur
    BY <2>1 DEF Frames
  <2> QED
    BY <1>5, <2>1, <2>2, FrameStays DEF SearchUser
<1>6. CASE LoadMoreContacts \/ LoadMoreRequests
  BY <1>2, <1>6, LoadKeeps, FrameStays DEF LoadMoreContacts, LoadMoreRequests
<1>7. CASE ClickAddNewUser
  <2>1. PICK f : f = [frame EXCEPT !.stack = "newuser"]
    OBVIOUS
  <2>2. f \in Frames /\ f.widgets = frame.widgets /\ f.cur = frame.cur
    BY <2>1 DEF Frames
  <2> QED
    BY <1>7, <2>1, <2>2, FrameStays DEF ClickAddNewUser
<1>8. CASE \E p \in Users : ClickContact(p)
  <2>1. PICK p \in Users : FrameChanges([Display(frame, "contacts", "profile") EXCEPT !.profile = p])
    BY <1>8 DEF ClickContact
  <2>2. PICK f : f = [Display(frame, "contacts", "profile") EXCEPT !.profile = p]
    OBVIOUS
  <2>3. f \in Frames /\ f.widgets = frame.widgets /\ f.cur = frame.cur
    BY <2>2 DEF Display, Frames, Parties
  <2> QED
    BY <2>1, <2>2, <2>3, FrameStays
<1>9. CASE \E i \in DOMAIN frame.requests : AnswerRequest(i)
  <2>1. PICK i \in DOMAIN frame.requests : FrameChanges([frame EXCEPT !.requests[i].open = FALSE])
    BY <1>9 DEF AnswerRequest
  <2>2. PICK card : card = [frame.requests[i] EXCEPT !.open = FALSE]
    OBVIOUS
  <2>3. PICK requests : requests = [frame.requests EXCEPT ![i] = card]
    OBVIOUS
  <2>4. frame.requests \in Seq(Cards)
    BY DEF Frames
  <2>5. card \in Cards
    <3>1. frame.requests[i] \in Cards
      BY <2>4
    <3> QED
      BY <2>2, <3>1 DEF Cards
  <2>6. requests \in Seq(Cards)
    BY <2>3, <2>4, <2>5, ExceptSeq
  <2>7. PICK f : f = [frame EXCEPT !.requests = requests]
    OBVIOUS
  <2>8. f \in Frames /\ f.widgets = frame.widgets /\ f.cur = frame.cur
    BY <2>6, <2>7 DEF Frames
  <2>9. f = [frame EXCEPT !.requests[i].open = FALSE]
    BY <2>2, <2>3, <2>7 DEF Frames
  <2> QED
    BY <2>1, <2>8, <2>9, FrameStays
<1>10. CASE CloseCard
  <2>1. PICK f : f = [frame EXCEPT !.found = NoCard]
    OBVIOUS
  <2>2. f \in Frames /\ f.widgets = frame.widgets /\ f.cur = frame.cur
    BY <2>1 DEF Frames, NoCard, Parties
  <2> QED
    BY <1>10, <2>1, <2>2, FrameStays DEF CloseCard
<1>11. CASE \E u \in Parties : SearchResponse(u, uuid)
  <2>1. PICK u \in Parties : SearchResponse(u, uuid)
    BY <1>11
  <2>2. PICK friend \in BOOLEAN : friend = (u # uuid /\ Contains(book.friends, u))
    OBVIOUS
  <2>3. friend => u \in Users
    <3>1. book.friends \in Seq(Users)
      BY <1>2 DEF Books
    <3> QED
      BY <2>2, <3>1, ListedIs
  <2>4. PICK found \in [shown : BOOLEAN, card : Parties] :
          found = (IF u # Nobody /\ (u = uuid \/ Contains(book.friends, u))
                   THEN frame.found ELSE [shown |-> TRUE, card |-> u])
    BY DEF Frames
  <2>5. PICK f : f = [frame EXCEPT !.loading = FALSE, !.found = found,
                        !.profile = IF friend THEN u ELSE @,
                        !.stack = IF friend THEN "profile" ELSE @,
                        !.mode = IF friend THEN "contacts" ELSE @]
    OBVIOUS
  <2>6. f \in Frames /\ f.widgets = frame.widgets /\ f.cur = frame.cur
    BY <2>3, <2>5 DEF Frames, Parties
  <2>7. FrameChanges(f)
    BY <2>1, <2>2, <2>4, <2>5 DEF SearchResponse, FrameChanges
  <2> QED
    BY <2>6, <2>7, FrameStays
<1> QED
  BY <1>3, <1>4, <1>5, <1>6, <1>7, <1>8, <1>9, <1>10, <1>11

\* A crash leaves the chats as they are.
LEMMA CrashStays ==
  ASSUME ChatInv, frame \in Frames, Crash \/ UNCHANGED chatVars
  PROVE  Stays
BY DEF Crash, chatVars, ChatInv, Stays

\* A book that differs in the requests agrees with the same frame.
LEMMA RequestsAgree ==
  ASSUME NEW b \in Books, NEW s \in Seq(Users)
  PROVE  /\ [b EXCEPT !.requests = s] \in Books
         /\ \A m, f : Agree(m, b, f) => Agree(m, [b EXCEPT !.requests = s], f)
<1>1. PICK c : c = [b EXCEPT !.requests = s]
  OBVIOUS
<1>2. c \in Books /\ c.friends = b.friends /\ c.data = b.data /\ c.threadOf = b.threadOf
      /\ c.sessions = b.sessions
  BY <1>1 DEF Books
<1>3. \A m, f : Agree(m, b, f) => Agree(m, c, f)
  BY <1>2 DEF Agree, Linked
<1> QED
  BY <1>1, <1>2, <1>3

\* A request for a friendship that comes in.
LEMMA IncomingStays ==
  ASSUME ChatInv, frame \in Frames, NEW u \in Parties, IncomingFriendRequest(u)
  PROVE  Stays
<1>1. book \in Books /\ book.requests \in Seq(Users)
  BY DEF ChatInv, Books
<1>2. book' \in Books /\ \A m, f : Agree(m, book, f) => Agree(m, book', f)
  <2>1. CASE book' = book
    BY <1>1, <2>1
  <2>2. CASE u # Nobody /\ book' = [book EXCEPT !.requests = Append(@, u)]
    <3>1. PICK s : s = Append(book.requests, u)
      OBVIOUS
    <3>2. s \in Seq(Users)
      BY <1>1, <2>2, <3>1, AppendProperties DEF Parties
    <3>3. book' = [book EXCEPT !.requests = s]
      BY <2>2, <3>1
    <3> QED
      BY <1>1, <3>2, <3>3, RequestsAgree
  <2> QED
    BY <2>1, <2>2 DEF IncomingFriendRequest
<1>3. frame' \in Frames /\ frame'.widgets = frame.widgets /\ frame'.cur = frame.cur
  <2>1. frame' \in {frame, LoadLimitedReqList(frame, book')}
    BY DEF IncomingFriendRequest
  <2> QED
    BY <1>2, <2>1, LoadKeeps
<1>4. Agree(me, book, frame) => Agree(me, book', frame')
  BY <1>2, <1>3, AgreeFrame
<1>5. client' = client /\ me' = me /\ wire' = wire /\ fresh' = fresh /\ cleared' = cleared
  BY DEF IncomingFriendRequest
<1> QED
  BY <1>2, <1>3, <1>4, <1>5 DEF ChatInv, Stays

\* The id of the server for a message that was sent.
LEMMA ResponseStays ==
  ASSUME ChatInv, me \in Users, frame \in Frames,
         NEW p \in Users, NEW uid, NEW id \in Ids, TextMsgResponse(p, uid, id)
  PROVE  Stays
<1> DEFINE k == PairId(me, p)
<1>1. book \in Books /\ k \in DOMAIN book.data /\ book.data \in Maps(Threads, Chats)
  BY DEF ChatInv, TextMsgResponse, Books
<1>2. PICK t : t = PromoteLocalToVerified(book.data[k], uid, id)
  OBVIOUS
<1>3. book.data[k] \in Chats
  BY <1>1, MapIs
<1>4. /\ book.data[k].peer \in Users
      /\ t \in Histories(book.data[k].peer, SUBSET Parties)
      /\ \A W : book.data[k] \in Histories(book.data[k].peer, W) =>
                  t \in Histories(book.data[k].peer, W)
  BY <1>2, <1>3, ChatIs, PromoteKeeps
<1>5. t \in Chats /\ t.peer = book.data[k].peer
  BY <1>4, HistoryIsChat
<1>6. book' = [book EXCEPT !.data[k] = t]
  BY <1>2 DEF TextMsgResponse
<1>7. book' \in Books /\ (Agree(me, book, frame) => Agree(me, book', frame))
  <2>1. Agree(me, book, frame) => t \in Histories(t.peer, Between(me, t.peer))
    BY <1>1, <1>4, <1>5 DEF Agree
  <2>2. LET c == [book EXCEPT !.data[k] = t] IN
        /\ c \in Books
        /\ \A m, f : /\ Agree(m, book, f)
                     /\ t \in Histories(t.peer, Between(m, t.peer))
                     => Agree(m, c, f)
    BY <1>1, <1>5, DataAlone
  <2> QED
    BY <1>6, <2>1, <2>2
<1>8. client' = client /\ me' = me /\ wire' = wire /\ fresh' = fresh /\ cleared' = cleared
      /\ frame' = frame
  BY DEF TextMsgResponse
<1> QED
  BY <1>7, <1>8 DEF ChatInv, Stays

\* A text that comes in.
LEMMA IncomingTextStays ==
  ASSUME ChatInv, me \in Users, frame \in Frames,
         NEW p \in Users, NEW id \in Ids, TextMsgIncoming(p, id)
  PROVE  Stays
<1>1. /\ client' = client /\ me' = me /\ wire' = wire /\ fresh' = fresh /\ cleared' = cleared
      /\ frame' = frame
  BY DEF TextMsgIncoming
<1>2. CASE ~(p \in DOMAIN book.threadOf /\ book.threadOf[p] \in DOMAIN book.data)
  <2>1. book' = book
    BY <1>2 DEF TextMsgIncoming
  <2> QED
    BY <1>1, <2>1 DEF ChatInv, Stays
<1>3. CASE p \in DOMAIN book.threadOf /\ book.threadOf[p] \in DOMAIN book.data
  <2> DEFINE k == book.threadOf[p]
  <2>1. book \in Books /\ k \in DOMAIN book.data /\ book.data \in Maps(Threads, Chats)
    BY <1>3 DEF ChatInv, Books
  <2>2. PICK x : x = Record(<<"id", id>>, NoId, p, me)
    OBVIOUS
  <2>3. x \in Records(Between(me, p)) /\ x \in Records(SUBSET Parties)
    <3>1. <<"id", id>> \in Uids
      BY DEF Uids
    <3> QED
      BY <2>2, <3>1, RecordIs
  <2>4. PICK t : t = InsertMessage(book.data[k], x)
    OBVIOUS
  <2>5. book.data[k] \in Chats
    BY <2>1, MapIs
  <2>6. /\ book.data[k].peer \in Users
        /\ t \in Histories(book.data[k].peer, SUBSET Parties)
        /\ \A W : book.data[k] \in Histories(book.data[k].peer, W) /\ x \in Records(W) =>
                    t \in Histories(book.data[k].peer, W)
    BY <2>3, <2>4, <2>5, ChatIs, InsertKeeps
  <2>7. t \in Chats /\ t.peer = book.data[k].peer
    BY <2>6, HistoryIsChat
  <2>8. book' = [book EXCEPT !.data[k] = t]
    BY <1>3, <2>2, <2>4 DEF TextMsgIncoming
  <2>9. book' \in Books /\ (Agree(me, book, frame) => Agree(me, book', frame))
    <3>1. ASSUME Agree(me, book, frame) PROVE t \in Histories(t.peer, Between(me, t.peer))
      <4>1. book.data[k].peer = p
        BY <1>3, <2>1, <3>1, OneThread
      <4>2. book.data[k] \in Histories(book.data[k].peer, Between(me, book.data[k].peer))
        BY <2>1, <3>1 DEF Agree
      <4> QED
        BY <2>3, <2>6, <2>7, <4>1, <4>2
    <3>2. LET c == [book EXCEPT !.data[k] = t] IN
          /\ c \in Books
          /\ \A m, f : /\ Agree(m, book, f)
                       /\ t \in Histories(t.peer, Between(m, t.peer))
                       => Agree(m, c, f)
      BY <2>1, <2>7, DataAlone
    <3> QED
      BY <2>8, <3>1, <3>2
  <2> QED
    BY <1>1, <2>9 DEF ChatInv, Stays
<1> QED
  BY <1>2, <1>3

\* More threads of friends, with an item each, agree with the same messages.
LEMMA MoreThreads ==
  ASSUME NEW m, NEW b \in Books, NEW c \in Books, NEW f \in Frames, NEW g \in Frames,
         Agree(m, b, f), Linked(m, c), c.data = b.data,
         \A q \in DOMAIN b.threadOf : q \in DOMAIN c.threadOf /\ c.threadOf[q] = b.threadOf[q],
         DOMAIN g.widgets = Range(c.sessions),
         g.cur = f.cur \/ g.cur \in DOMAIN c.threadOf
  PROVE  Agree(m, c, g)
<1>1. ASSUME NEW k \in DOMAIN c.data
      PROVE  /\ c.data[k].peer \in DOMAIN c.threadOf /\ c.threadOf[c.data[k].peer] = k
             /\ c.data[k] \in Histories(c.data[k].peer, Between(m, c.data[k].peer))
  BY <1>1 DEF Agree
<1>2. g.cur # Nobody => g.cur \in DOMAIN c.threadOf
  BY FrameIsThere DEF Agree
<1> QED
  BY <1>1, <1>2 DEF Agree

\* The messages of a thread of a friend, which had none.
LEMMA NewMessages ==
  ASSUME NEW b \in Books, NEW id \in Threads, id \notin DOMAIN b.data, NEW t \in Chats
  PROVE  LET c == [b EXCEPT !.data = Put(@, id, t)] IN
         /\ c \in Books /\ c.threadOf = b.threadOf
         /\ \A m, f : /\ Agree(m, b, f)
                      /\ t.peer \in DOMAIN b.threadOf /\ b.threadOf[t.peer] = id
                      /\ t \in Histories(t.peer, Between(m, t.peer))
                      => Agree(m, c, f)
<1>1. /\ b.data \in Maps(Threads, Chats)
      /\ b \in [requests : Seq(Users), friends : Seq(Users), data : Maps(Threads, Chats),
                threadOf : Maps(Users, Threads), sessions : Seq(Threads), seq : Nat \ {0}]
  BY DEF Books
<1>2. PICK data \in Maps(Threads, Chats) : data = Put(b.data, id, t)
  BY <1>1, PutMap
<1>3. /\ DOMAIN data = DOMAIN b.data \cup {id} /\ data[id] = t
      /\ \A k \in DOMAIN b.data : data[k] = b.data[k]
  BY <1>2 DEF Put
<1>4. PICK c : c = [b EXCEPT !.data = data]
  OBVIOUS
<1>5. c = [b EXCEPT !.data = Put(@, id, t)]
  BY <1>2, <1>4
<1>6. /\ c \in Books /\ c.data = data /\ c.friends = b.friends
      /\ c.threadOf = b.threadOf /\ c.sessions = b.sessions
  BY <1>1, <1>4 DEF Books
<1>7. ASSUME NEW m, NEW f, Agree(m, b, f), t.peer \in DOMAIN b.threadOf, b.threadOf[t.peer] = id,
             t \in Histories(t.peer, Between(m, t.peer))
      PROVE  Agree(m, c, f)
  <2>1. Linked(m, c)
    BY <1>6, <1>7 DEF Agree, Linked
  <2>2. ASSUME NEW k \in DOMAIN c.data
        PROVE  /\ c.data[k].peer \in DOMAIN c.threadOf /\ c.threadOf[c.data[k].peer] = k
               /\ c.data[k] \in Histories(c.data[k].peer, Between(m, c.data[k].peer))
    BY <1>3, <1>6, <1>7, <2>2 DEF Agree
  <2> QED
    BY <2>1, <2>2, <1>6, <1>7 DEF Agree
<1> QED
  BY <1>5, <1>6, <1>7

\* A private chat that the server made.
LEMMA CreateStays ==
  ASSUME ChatInv, me \in Users, frame \in Frames, NEW p \in Users, CreatePrivateChat(p)
  PROVE  Stays
<1> DEFINE id == PairId(me, p)
           c == AddThreadDesc(book, p, id)
           g == AddListWidgetItem(frame, id, p)
<1>1. book \in Books /\ id \in Threads /\ Contains(book.friends, p)
  BY PairIsThread DEF ChatInv, CreatePrivateChat
<1>2. book' = c /\ frame' = g /\ client' = client /\ me' = me /\ wire' = wire
      /\ fresh' = fresh /\ cleared' = cleared
  BY DEF CreatePrivateChat
<1> HIDE DEF g
<1>3. g \in Frames /\ g.cur = frame.cur /\ DOMAIN g.widgets = DOMAIN frame.widgets \cup {id}
  BY <1>1, ItemKeeps DEF g
<1>4. /\ c \in Books /\ c.data = book.data
      /\ \A q \in DOMAIN book.threadOf : q \in DOMAIN c.threadOf /\ c.threadOf[q] = book.threadOf[q]
      /\ Linked(me, book) => Linked(me, c) /\ Range(c.sessions) = Range(book.sessions) \cup {id}
  BY <1>1, DescKeeps
<1> HIDE DEF c
<1>5. ASSUME Agree(me, book, frame) PROVE Agree(me, c, g)
  <2>1. Linked(me, book) /\ DOMAIN frame.widgets = Range(book.sessions)
    BY <1>5, FrameIsThere DEF Agree
  <2> QED
    BY <1>1, <1>3, <1>4, <1>5, <2>1, MoreThreads
<1> QED
  BY <1>2, <1>3, <1>4, <1>5 DEF ChatInv, Stays

\* The messages that a new friend began with.
LEMMA HelloIs ==
  ASSUME NEW hello \in Seq(Ids), NEW p \in Users, NEW m \in Users, NEW n \in Nat
  PROVE  LET records == [i \in DOMAIN hello |-> Record(<<"own", n + i>>, hello[i], p, m)]
             t == FoldLeft(InsertMessage, NewThread(p), records) IN
         /\ t \in Chats /\ t.peer = p
         /\ t \in Histories(p, Between(m, p))
<1>1. DOMAIN hello = 1 .. Len(hello) /\ Len(hello) \in Nat
  BY LenProperties
<1>2. PICK records : records = [i \in DOMAIN hello |-> Record(<<"own", n + i>>, hello[i], p, m)]
  OBVIOUS
<1>3. records \in Seq(Records(Between(m, p)))
  <2>1. ASSUME NEW i \in 1 .. Len(hello) PROVE records[i] \in Records(Between(m, p))
    <3>1. records[i] = Record(<<"own", n + i>>, hello[i], p, m)
      BY <1>1, <1>2
    <3>2. <<"own", n + i>> \in Uids /\ hello[i] \in Ids
      BY <1>1 DEF Uids
    <3> QED
      BY <3>1, <3>2, RecordIs
  <2> QED
    BY <1>1, <1>2, <2>1
<1>4. NewThread(p) \in Histories(p, Between(m, p))
  BY NewThreadFits
<1>5. PICK t : t = FoldLeft(InsertMessage, NewThread(p), records)
  OBVIOUS
<1>6. t \in Histories(p, Between(m, p))
  BY <1>3, <1>4, <1>5, InsertAllKeeps
<1>7. t \in Chats /\ t.peer = p
  BY <1>6, HistoryIsChat
<1> QED
  BY <1>2, <1>5, <1>6, <1>7

\* A thread of a friend with its messages, if they are not known yet.
LEMMA AddThreadKeeps ==
  ASSUME NEW b \in Books, NEW m \in Users, NEW p \in Users, NEW t \in Chats, t.peer = p
  PROVE  LET c == AddThread(b, PairId(m, p), t) IN
         /\ c \in Books
         /\ \A f, g : /\ f \in Frames /\ g \in Frames
                      /\ Agree(m, b, f) /\ Contains(b.friends, p)
                      /\ t \in Histories(p, Between(m, p))
                      /\ DOMAIN g.widgets = DOMAIN f.widgets \cup {PairId(m, p)}
                      /\ g.cur \in {f.cur, p}
                      => Agree(m, c, g)
<1> DEFINE id == PairId(m, p)
           d == AddThreadDesc(b, p, id)
           c == AddThread(b, id, t)
<1>0. id \in Threads
  BY PairIsThread
<1>1. /\ d \in Books /\ d.data = b.data /\ d.friends = b.friends
      /\ \A q \in DOMAIN b.threadOf : q \in DOMAIN d.threadOf /\ d.threadOf[q] = b.threadOf[q]
      /\ Linked(m, b) /\ Contains(b.friends, p) =>
           Linked(m, d) /\ p \in DOMAIN d.threadOf /\ Range(d.sessions) = Range(b.sessions) \cup {id}
  <2>1. PICK k \in Threads : k = id
    BY <1>0
  <2>2. LET e == AddThreadDesc(b, p, k) IN
        /\ e \in Books /\ e.data = b.data /\ e.friends = b.friends
        /\ \A q \in DOMAIN b.threadOf : q \in DOMAIN e.threadOf /\ e.threadOf[q] = b.threadOf[q]
        /\ Linked(m, b) /\ k = PairId(m, p) /\ Contains(b.friends, p) =>
             Linked(m, e) /\ p \in DOMAIN e.threadOf /\ Range(e.sessions) = Range(b.sessions) \cup {k}
    BY DescKeeps
  <2> QED
    BY <2>1, <2>2
<1>2. c = IF id \in DOMAIN b.data THEN d ELSE [d EXCEPT !.data = Put(@, id, t)]
  BY DEF AddThread
<1>3. id \notin DOMAIN d.data =>
        LET e == [d EXCEPT !.data = Put(@, id, t)] IN
        /\ e \in Books /\ e.threadOf = d.threadOf
        /\ \A f : /\ Agree(m, d, f)
                  /\ t.peer \in DOMAIN d.threadOf /\ d.threadOf[t.peer] = id
                  /\ t \in Histories(t.peer, Between(m, t.peer))
                  => Agree(m, e, f)
  BY <1>0, <1>1, NewMessages
<1> SUFFICES
         /\ c \in Books
         /\ \A f, g : /\ f \in Frames /\ g \in Frames
                      /\ Agree(m, b, f) /\ Contains(b.friends, p)
                      /\ t \in Histories(p, Between(m, p))
                      /\ DOMAIN g.widgets = DOMAIN f.widgets \cup {id}
                      /\ g.cur \in {f.cur, p}
                      => Agree(m, c, g)
  OBVIOUS
<1> HIDE DEF c, d
<1>4. c \in Books
  BY <1>1, <1>2, <1>3
<1>5. ASSUME NEW f \in Frames, NEW g \in Frames, Agree(m, b, f), Contains(b.friends, p),
             t \in Histories(p, Between(m, p)),
             DOMAIN g.widgets = DOMAIN f.widgets \cup {id}, g.cur \in {f.cur, p}
      PROVE  Agree(m, c, g)
  <2>1. Linked(m, b) /\ DOMAIN f.widgets = Range(b.sessions)
    BY <1>5, FrameIsThere DEF Agree
  <2>2. Agree(m, d, g)
    BY <1>1, <1>5, <2>1, MoreThreads
  <2>3. p \in DOMAIN d.threadOf /\ d.threadOf[p] = id
    BY <1>1, <1>5, <2>1 DEF Linked
  <2> QED
    BY <1>1, <1>2, <1>3, <1>5, <2>2, <2>3
<1> QED
  BY <1>4, <1>5

\* A new friend.
LEMMA FriendStays ==
  ASSUME ChatInv, me \in Users, frame \in Frames,
         NEW p \in Users, NEW hello \in Seq(Ids), AddAuthFriend(p, hello)
  PROVE  Stays
<1> DEFINE id == PairId(me, p)
           records == [i \in DOMAIN hello |-> Record(<<"own", fresh + i>>, hello[i], p, me)]
           g == SwitchChattingThread(AddListWidgetItem(frame, id, p), p)
<1>1. book \in Books /\ fresh \in Nat /\ id \in Threads
  BY PairIsThread DEF ChatInv
<1>2. CASE Contains(book.friends, p)
  BY <1>2, CrashStays DEF AddAuthFriend
<1>3. CASE Crash
  BY <1>3, CrashStays
<1>4. CASE ~Contains(book.friends, p) /\ ~Crash
  <2>1. PICK t : t = FoldLeft(InsertMessage, NewThread(p), records)
    OBVIOUS
  <2>2. t \in Chats /\ t.peer = p /\ t \in Histories(p, Between(me, p))
    BY <1>1, <2>1, HelloIs
  <2>3. PICK b : b \in AddFriends(book, {p}) /\ book' = AddThread(b, id, t)
    BY <1>4, <2>1 DEF AddAuthFriend
  <2>4. frame' = g /\ fresh' = fresh + Len(hello)
        /\ client' = client /\ me' = me /\ wire' = wire /\ cleared' = cleared
    BY <1>4 DEF AddAuthFriend
  <2>5. /\ b \in Books
        /\ b.data = book.data /\ b.threadOf = book.threadOf /\ b.sessions = book.sessions
        /\ \A q : Contains(b.friends, q) <=> Contains(book.friends, q) \/ q \in {p}
    <3>1. PICK new \in SUBSET Users : new = {p}
      OBVIOUS
    <3>2. b \in AddFriends(book, new)
      BY <2>3, <3>1
    <3>3. /\ b \in Books
          /\ b.data = book.data /\ b.threadOf = book.threadOf /\ b.sessions = book.sessions
          /\ \A q : Contains(b.friends, q) <=> Contains(book.friends, q) \/ q \in new
      BY <1>1, <3>2, AddFriendsIs
    <3> QED
      BY <3>1, <3>3
  <2>6. PICK h \in Frames : /\ h = AddListWidgetItem(frame, id, p)
                            /\ h.cur = frame.cur
                            /\ DOMAIN h.widgets = DOMAIN frame.widgets \cup {id}
    <3>1. PICK k \in Threads : k = id
      BY <1>1
    <3>2. PICK h : h = AddListWidgetItem(frame, k, p)
      OBVIOUS
    <3>3. h \in Frames /\ h.cur = frame.cur /\ DOMAIN h.widgets = DOMAIN frame.widgets \cup {k}
      BY <3>2, ItemKeeps
    <3> QED
      BY <3>1, <3>2, <3>3
  <2> DEFINE k == SwitchChattingThread(h, p)
  <2>7. g = k /\ k \in Frames /\ k.widgets = h.widgets /\ k.cur \in {h.cur, p}
    BY <2>6, SwitchKeeps
  <2> HIDE DEF g, k
  <2>8. Agree(me, book, frame) => Agree(me, b, frame)
    BY <2>5 DEF Agree, Linked
  <2>9. LET c == AddThread(b, id, t) IN
        /\ c \in Books
        /\ /\ Agree(me, b, frame) /\ Contains(b.friends, p)
           /\ t \in Histories(p, Between(me, p))
           /\ DOMAIN k.widgets = DOMAIN frame.widgets \cup {PairId(me, p)}
           /\ k.cur \in {frame.cur, p}
           => Agree(me, c, k)
    BY <2>2, <2>5, <2>7, AddThreadKeeps
  <2>10. book' \in Books /\ (Agree(me, book, frame) => Agree(me, book', k))
    BY <2>2, <2>3, <2>5, <2>6, <2>7, <2>8, <2>9
  <2>11. fresh' \in Nat
    BY <1>1, <2>4, LenProperties
  <2> QED
    BY <2>4, <2>7, <2>10, <2>11 DEF ChatInv, Stays
<1> QED
  BY <1>2, <1>3, <1>4

\* A session whose messages are asked for is a thread.
LEMMA SessionIs ==
  ASSUME NEW b \in Books, NEW at
  PROVE  Session(b, at) \subseteq Threads
<1>1. DOMAIN b.data \subseteq Threads
  BY MapIs DEF Books
<1> QED
  BY <1>1 DEF Session

\* A page of private chats.
LEMMA PullThreadStays ==
  ASSUME ChatInv, me \in Users, frame \in Frames,
         NEW peers \in Seq(Users), NEW isComplete \in BOOLEAN, PullChatThread(peers, isComplete)
  PROVE  Stays
<1> DEFINE Add(b, p) == IF Contains(b.friends, p) THEN AddThreadDesc(b, p, PairId(me, p)) ELSE b
           Show(f, p) == IF Contains(book.friends, p)
                         THEN AddListWidgetItem(f, PairId(me, p), p) ELSE f
           c == FoldLeft(Add, book, peers)
           h == FoldLeft(Show, frame, peers)
           Told(id) == \E i \in 1 .. Len(peers) :
                          Contains(book.friends, peers[i]) /\ id = PairId(me, peers[i])
<1>1. book \in Books
  BY DEF ChatInv
<1>2. /\ c \in Books /\ c.friends = book.friends /\ c.data = book.data
      /\ \A q \in DOMAIN book.threadOf : q \in DOMAIN c.threadOf /\ c.threadOf[q] = book.threadOf[q]
      /\ Linked(me, book) =>
           /\ Linked(me, c)
           /\ \A id : id \in Range(c.sessions) <=> id \in Range(book.sessions) \/ Told(id)
  BY <1>1, PullBook
<1>3. /\ h \in Frames /\ h.cur = frame.cur
      /\ \A id : id \in DOMAIN h.widgets <=> id \in DOMAIN frame.widgets \/ Told(id)
  BY PullFrame
<1>4. /\ book' = c
      /\ frame' = [h EXCEPT !.asked = IF isComplete THEN @ ELSE @ \cup Session(book', book.seq)]
      /\ client' = client /\ me' = me /\ wire' = wire /\ fresh' = fresh /\ cleared' = cleared
  BY DEF PullChatThread
<1> HIDE DEF c, h, Told
<1>5. PICK set \in SUBSET Threads :
        frame' = [h EXCEPT !.asked = IF isComplete THEN @ ELSE @ \cup set]
  BY <1>2, <1>4, SessionIs
<1>6. frame' \in Frames /\ frame'.cur = h.cur /\ frame'.widgets = h.widgets
  BY <1>3, <1>5 DEF Frames
<1>7. ASSUME Agree(me, book, frame) PROVE Agree(me, c, frame')
  <2>1. Linked(me, book) /\ DOMAIN frame.widgets = Range(book.sessions)
    BY <1>7, FrameIsThere DEF Agree
  <2>2. DOMAIN frame'.widgets = Range(c.sessions)
    BY <1>2, <1>3, <1>6, <2>1
  <2> QED
    BY <1>1, <1>2, <1>3, <1>6, <1>7, <2>1, <2>2, MoreThreads
<1> QED
  BY <1>2, <1>4, <1>6, <1>7 DEF ChatInv, Stays

\* The id that the next page of records begins after.
LEMMA LastIdKeeps ==
  ASSUME NEW p \in Users, NEW W, NEW t \in Histories(p, W), NEW id \in Ids
  PROVE  [t EXCEPT !.lastId = id] \in Histories(p, W)
<1>1. PICK u : u = [t EXCEPT !.lastId = id]
  OBVIOUS
<1>2. /\ t \in [peer : {p}, items : Seq(Records(W)), local : Maps(Uids, Nat),
                verified : Maps(Ids, Nat), last : BOOLEAN, lastId : Ids \cup {NoId}]
      /\ Indexed(t) /\ Range(t.local) \cap Range(t.verified) = {}
  BY DEF Histories
<1>3. /\ u \in [peer : {p}, items : Seq(Records(W)), local : Maps(Uids, Nat),
                verified : Maps(Ids, Nat), last : BOOLEAN, lastId : Ids \cup {NoId}]
      /\ u.items = t.items /\ u.local = t.local /\ u.verified = t.verified
  BY <1>1, <1>2
<1>4. Indexed(u)
  BY <1>2, <1>3 DEF Indexed
<1> QED
  BY <1>1, <1>2, <1>3, <1>4 DEF Histories

\* The place among the sessions changes, and nothing else.
LEMMA SeqAgrees ==
  ASSUME NEW b \in Books, NEW n \in Nat \ {0}
  PROVE  LET c == [b EXCEPT !.seq = n] IN
         c \in Books /\ \A m, f : Agree(m, b, f) => Agree(m, c, f)
<1>1. PICK c : c = [b EXCEPT !.seq = n]
  OBVIOUS
<1>2. c \in Books /\ c.friends = b.friends /\ c.data = b.data /\ c.threadOf = b.threadOf
      /\ c.sessions = b.sessions
  BY <1>1 DEF Books
<1>3. \A m, f : Agree(m, b, f) => Agree(m, c, f)
  BY <1>2 DEF Agree, Linked
<1> QED
  BY <1>1, <1>2, <1>3

\* A page of records of a thread.
LEMMA PullRecordStays ==
  ASSUME ChatInv, me \in Users, frame \in Frames,
         NEW p \in Users, NEW id \in Ids, NEW isComplete \in BOOLEAN,
         PullChatRecord(p, id, id, isComplete)
  PROVE  Stays
<1> DEFINE k == PairId(me, p)
<1>1. /\ book \in Books /\ fresh \in Nat
      /\ book.data \in Maps(Threads, Chats) /\ book.seq \in Nat \ {0}
  BY DEF ChatInv, Books
<1>2. PICK n \in Nat \ {0} : n = IF isComplete THEN book.seq ELSE book.seq + 1
  BY <1>1
<1>3. PICK x : x = Record(<<"own", fresh + 1>>, id, p, me)
  OBVIOUS
<1>4. x \in Records(Between(me, p)) /\ x \in Records(SUBSET Parties)
  <2>1. <<"own", fresh + 1>> \in Uids
    BY <1>1 DEF Uids
  <2> QED
    BY <1>3, <2>1, RecordIs
<1>5. PICK t : t = [InsertMessage(book.data[k], x) EXCEPT !.lastId = id]
  OBVIOUS
<1>6. book' = [book EXCEPT !.data[k] = t, !.seq = n]
  BY <1>2, <1>3, <1>5 DEF PullChatRecord
<1>7. /\ frame' = [frame EXCEPT !.asked = IF isComplete THEN @
                                         ELSE (@ \ {k}) \cup Session(book, n)]
      /\ fresh' = fresh + 1
      /\ client' = client /\ me' = me /\ wire' = wire /\ cleared' = cleared
  BY <1>2 DEF PullChatRecord
<1>8. PICK set \in SUBSET Threads :
        frame' = [frame EXCEPT !.asked = IF isComplete THEN @ ELSE (@ \ {k}) \cup set]
  BY <1>1, <1>7, SessionIs
<1>9. frame' \in Frames /\ frame'.cur = frame.cur /\ frame'.widgets = frame.widgets
  BY <1>8 DEF Frames
<1>10. book' \in Books /\ \A f : Agree(me, book, f) => Agree(me, book', f)
  <2>1. CASE k \notin DOMAIN book.data
    <3>1. [book.data EXCEPT ![k] = t] = book.data
      BY <1>1, <2>1, MapIs
    <3>2. book' = [book EXCEPT !.seq = n]
      BY <1>6, <3>1
    <3> QED
      BY <1>1, <3>2, SeqAgrees
  <2>2. CASE k \in DOMAIN book.data
    <3>1. book.data[k] \in Chats
      BY <1>1, <2>2, MapIs
    <3>2. /\ book.data[k].peer \in Users
          /\ t \in Histories(book.data[k].peer, SUBSET Parties)
          /\ \A W : book.data[k] \in Histories(book.data[k].peer, W) /\ x \in Records(W) =>
                      t \in Histories(book.data[k].peer, W)
      <4>1. PICK q \in Users : q = book.data[k].peer /\ book.data[k] \in Histories(q, SUBSET Parties)
        BY <3>1, ChatIs
      <4>2. ASSUME NEW W, book.data[k] \in Histories(q, W), x \in Records(W)
            PROVE  t \in Histories(q, W)
        <5>1. PICK u \in Histories(q, W) : u = InsertMessage(book.data[k], x)
          BY <4>2, InsertKeeps
        <5>2. [u EXCEPT !.lastId = id] \in Histories(q, W)
          BY LastIdKeeps
        <5> QED
          BY <1>5, <5>1, <5>2
      <4> QED
        BY <1>4, <4>1, <4>2
    <3>3. t \in Chats /\ t.peer = book.data[k].peer
      BY <3>2, HistoryIsChat
    <3>4. ASSUME NEW f, Agree(me, book, f) PROVE t \in Histories(t.peer, Between(me, t.peer))
      <4>1. book.data[k].peer = p
        BY <2>2, <3>4, OneThread
      <4>2. book.data[k] \in Histories(book.data[k].peer, Between(me, book.data[k].peer))
        BY <2>2, <3>4 DEF Agree
      <4> QED
        BY <1>4, <3>2, <3>3, <4>1, <4>2
    <3>5. LET c == [book EXCEPT !.data[k] = t, !.seq = n] IN
          /\ c \in Books
          /\ \A m, f : /\ Agree(m, book, f)
                       /\ t \in Histories(t.peer, Between(m, t.peer))
                       => Agree(m, c, f)
      BY <1>1, <2>2, <3>3, DataKeeps
    <3> QED
      BY <1>6, <3>4, <3>5
  <2> QED
    BY <2>1, <2>2
<1>11. Agree(me, book, frame) => Agree(me, book', frame')
  BY <1>9, <1>10, AgreeFrame
<1>12. fresh' \in Nat
  BY <1>1, <1>7
<1> QED
  BY <1>7, <1>9, <1>10, <1>11, <1>12 DEF ChatInv, Stays

\* A chat is chosen from the list, or begun from the profile of a friend.
LEMMA ChooseStays ==
  ASSUME ChatInv, me \in Users, frame \in Frames,
         (\E id \in Threads : ClickChat(id)) \/ SwitchChatItem
  PROVE  Stays
<1>1. book \in Books /\ book.data \in Maps(Threads, Chats) /\ book.threadOf \in Maps(Users, Threads)
  BY DEF ChatInv, Books
<1>2. PICK shown : shown = Display(frame, "chats", "chatting")
  OBVIOUS
<1>3. shown \in Frames /\ shown.widgets = frame.widgets /\ shown.cur = frame.cur
  BY <1>2 DEF Display, Frames
<1>4. ASSUME NEW f \in Frames, NEW p \in DOMAIN book.threadOf,
             book.threadOf[p] \in DOMAIN book.data,
             FrameChanges(SwitchChattingThread(f, book.data[book.threadOf[p]].peer)),
             f.cur = frame.cur,
             Agree(me, book, frame) => Agree(me, book, f)
      PROVE  Stays
  <2>1. PICK t \in Chats : t = book.data[book.threadOf[p]]
    BY <1>1, <1>4, MapIs
  <2>2. t.peer \in Users
    BY ChatIs
  <2>3. PICK g : g = SwitchChattingThread(f, t.peer)
    OBVIOUS
  <2>4. g \in Frames /\ g.widgets = f.widgets /\ g.cur = IF f.cur = Nobody THEN t.peer ELSE f.cur
    BY <2>2, <2>3, SwitchKeeps
  <2>5. frame' = g /\ UNCHANGED <<client, me, book, wire, fresh, cleared>>
    BY <1>4, <2>1, <2>3 DEF FrameChanges
  <2>6. ASSUME Agree(me, book, frame) PROVE Agree(me, book, g)
    <3>1. t.peer \in DOMAIN book.threadOf
      BY <1>4, <2>1, <2>6 DEF Agree
    <3> QED
      BY <1>4, <2>4, <2>6, <3>1, FrameIsThere DEF Agree
  <2> QED
    BY <1>1, <2>4, <2>5, <2>6 DEF ChatInv, Stays
<1>5. ASSUME NEW id \in Threads, ClickChat(id) PROVE Stays
  <2>1. PICK p : /\ p = frame.widgets[id]
                 /\ p \in DOMAIN book.threadOf
                 /\ book.threadOf[p] \in DOMAIN book.data
                 /\ FrameChanges(SwitchChattingThread(shown, book.data[book.threadOf[p]].peer))
    BY <1>2, <1>5 DEF ClickChat
  <2>2. Agree(me, book, frame) => Agree(me, book, shown)
    BY <1>3, AgreeFrame
  <2> QED
    BY <1>3, <1>4, <2>1, <2>2
<1>6. ASSUME SwitchChatItem PROVE Stays
  <2>1. CASE UNCHANGED chatVars \/ Crash
    BY <2>1, CrashStays
  <2>2. CASE ~(UNCHANGED chatVars \/ Crash)
    <3>1. PICK p, id : /\ p \in DOMAIN book.threadOf /\ id = book.threadOf[p]
                       /\ id \in DOMAIN book.data
                       /\ FrameChanges(SwitchChattingThread(AddListWidgetItem(shown, id, p),
                                                            book.data[id].peer))
      BY <1>2, <1>6, <2>2 DEF SwitchChatItem
    <3>2. p \in Users /\ id \in Threads
      BY <1>1, <3>1, MapIs
    <3>3. PICK f : f = AddListWidgetItem(shown, id, p)
      OBVIOUS
    <3>4. f \in Frames /\ f.cur = shown.cur /\ DOMAIN f.widgets = DOMAIN shown.widgets \cup {id}
      BY <1>3, <3>2, <3>3, ItemKeeps
    <3>5. ASSUME Agree(me, book, frame) PROVE Agree(me, book, f)
      <4>1. id \in Range(book.threadOf)
        BY <3>1 DEF Range
      <4>2. id \in DOMAIN frame.widgets
        BY <4>1, <3>5, FrameIsThere DEF Agree, Linked
      <4> QED
        BY <1>3, <3>4, <3>5, <4>2, FrameIsThere DEF Agree
    <3> QED
      BY <1>3, <1>4, <3>1, <3>3, <3>4, <3>5
  <2> QED
    BY <2>1, <2>2
<1> QED
  BY <1>5, <1>6

\* What the user sends to the friend on the page.
LEMMA SendStays ==
  ASSUME ChatInv, me \in Users, frame \in Frames, NEW batch \in Batches, SendMessage(batch)
  PROVE  Stays
<1>1. /\ book \in Books /\ fresh \in Nat /\ wire \subseteq Uids
      /\ book.data \in Maps(Threads, Chats) /\ book.threadOf \in Maps(Users, Threads)
  BY DEF ChatInv, Books
<1>2. CASE frame.cur = Nobody
  BY <1>2, CrashStays DEF SendMessage
<1>3. CASE frame.cur # Nobody
  <2> DEFINE p == frame.cur
             k == book.threadOf[p]
             s == Collect(batch)
  <2>1. p \in DOMAIN book.threadOf /\ p \in Users
    BY <1>1, <1>3, MapIs DEF SendMessage
  <2>2. PICK records, array :
          /\ records = s.records /\ array = s.array
          /\ records \in Seq(Records(Between(me, p))) /\ array \subseteq Uids
    BY <1>1, <2>1, BatchAssumption, CollectIs
  <2>3. /\ book' = IF k \in DOMAIN book.data
                   THEN [book EXCEPT !.data[k] = FoldLeft(InsertMessage, @, records)]
                   ELSE book
        /\ wire' = wire \cup array
        /\ fresh' = fresh + Len(records)
        /\ client' = client /\ me' = me /\ frame' = frame /\ cleared' = cleared
    BY <1>3, <2>2 DEF SendMessage
  <2> HIDE DEF s
  <2>4. PICK t : t = FoldLeft(InsertMessage, book.data[k], records)
    OBVIOUS
  <2>5. k \in DOMAIN book.data => book' = [book EXCEPT !.data[k] = t]
    BY <2>3, <2>4
  <2>6. k \notin DOMAIN book.data => book' = book
    BY <2>3
  <2>7. wire' \subseteq Uids /\ fresh' \in Nat
    BY <1>1, <2>2, <2>3, LenProperties
  <2>8. book' \in Books /\ (Agree(me, book, frame) => Agree(me, book', frame))
    <3>1. CASE k \notin DOMAIN book.data
      BY <1>1, <2>6, <3>1
    <3>2. CASE k \in DOMAIN book.data
      <4>1. PICK u \in Chats : u = book.data[k]
        BY <1>1, <3>2, MapIs
      <4>2. u.peer \in Users /\ u \in Histories(u.peer, SUBSET Parties)
        BY ChatIs
      <4>3. records \in Seq(Records(SUBSET Parties))
        BY <2>2, RecordsWiden, SeqMonotonic
      <4>4. t \in Histories(u.peer, SUBSET Parties)
        BY <2>4, <4>1, <4>2, <4>3, InsertAllKeeps
      <4>5. t \in Chats /\ t.peer = u.peer
        BY <4>2, <4>4, HistoryIsChat
      <4>6. ASSUME Agree(me, book, frame) PROVE t \in Histories(t.peer, Between(me, t.peer))
        <5>1. u.peer = p
          BY <2>1, <3>2, <4>1, <4>6, OneThread
        <5>2. u \in Histories(p, Between(me, p))
          BY <3>2, <4>1, <4>6, <5>1 DEF Agree
        <5>3. t \in Histories(p, Between(me, p))
          BY <2>1, <2>2, <2>4, <4>1, <5>2, InsertAllKeeps
        <5> QED
          BY <4>5, <5>1, <5>3
      <4>7. LET c == [book EXCEPT !.data[k] = t] IN
            /\ c \in Books
            /\ \A m, f : /\ Agree(m, book, f)
                         /\ t \in Histories(t.peer, Between(m, t.peer))
                         => Agree(m, c, f)
        BY <1>1, <3>2, <4>1, <4>5, DataAlone
      <4> QED
        BY <2>5, <3>2, <4>6, <4>7
    <3> QED
      BY <3>1, <3>2
  <2> QED
    BY <2>3, <2>7, <2>8 DEF ChatInv, Stays
<1> QED
  BY <1>2, <1>3

-----------------------------------------------------------------------------
(* The login, and what the runs check of the chats.                         *)

\* The account manager at the beginning.
LEMMA EmptyBookIs ==
  EmptyBook \in Books
<1>1. /\ << >> \in Seq(Users) /\ << >> \in Seq(Threads)
      /\ << >> \in Maps(Threads, Chats) /\ << >> \in Maps(Users, Threads)
  BY EmptyIs
<1> QED
  BY <1>1 DEF EmptyBook, Books

\* The frame at the beginning.
LEMMA NewFrameIs ==
  NewFrame \in Frames /\ NewFrame.cur = Nobody /\ DOMAIN NewFrame.widgets = {}
<1>1. /\ DOMAIN << >> = {} /\ << >> \in Seq(Users) /\ << >> \in Seq(Cards)
      /\ << >> \in Maps(Threads, Users)
  BY EmptyIs
<1> QED
  BY <1>1 DEF NewFrame, NoCard, Frames, Parties

\* What clear() leaves of the account manager.
LEMMA ForgottenIs ==
  ASSUME NEW b \in Books
  PROVE  Forgotten(b) \in Books
<1>1. /\ << >> \in Seq(Users) /\ << >> \in Maps(Threads, Chats)
  BY EmptyIs
<1> QED
  BY <1>1 DEF Forgotten, Books

\* The answer to a login.
LEMMA LoginKeeps ==
  ASSUME ChatInv, me = Nobody, NEW u \in Users, NEW requests \in Seq(Users),
         NEW friends \in SUBSET Users, LoginResponse(u, requests, friends)
  PROVE  ChatInv' /\ me' = u /\ frame' \in Frames
<1>1. book \in Books /\ book.requests \in Seq(Users)
  BY DEF ChatInv, Books
<1>2. PICK b : /\ b \in AddFriends([book EXCEPT !.requests = @ \o requests], friends)
               /\ book' = b
               /\ frame' = LoadLimitedContactsList(LoadLimitedReqList(NewFrame, b), b)
  BY DEF LoginResponse
<1>3. PICK c \in Books : c = [book EXCEPT !.requests = @ \o requests]
  <2>1. PICK s \in Seq(Users) : s = book.requests \o requests
    BY <1>1, ConcatProperties
  <2> QED
    BY <1>1, <2>1, RequestsAgree
<1>4. /\ b \in Books /\ b.data = c.data /\ b.threadOf = c.threadOf /\ b.sessions = c.sessions
  BY <1>2, <1>3, AddFriendsIs
<1>5. /\ b.data = book.data /\ b.threadOf = book.threadOf /\ b.sessions = book.sessions
  BY <1>1, <1>3, <1>4
<1>6. PICK f \in Frames : /\ f = LoadLimitedReqList(NewFrame, b)
                          /\ f.cur = Nobody /\ DOMAIN f.widgets = {}
  BY <1>4, NewFrameIs, LoadKeeps
<1>7. frame' \in Frames /\ frame'.cur = Nobody /\ DOMAIN frame'.widgets = {}
  BY <1>2, <1>4, <1>6, LoadKeeps
<1>8. ASSUME ~cleared PROVE Agree(u, b, frame')
  <2>1. b.data = << >> /\ b.threadOf = << >> /\ b.sessions = << >>
    BY <1>5, <1>8 DEF ChatInv, EmptyBook
  <2>2. DOMAIN << >> = {} /\ Range(<< >>) = {} /\ IsInjective(<< >>)
    BY EmptyIs
  <2> QED
    BY <1>7, <2>1, <2>2 DEF Agree, Linked
<1>9. /\ me' = u /\ client' = client /\ wire' = wire /\ fresh' = fresh /\ cleared' = cleared
  BY DEF LoginResponse
<1>10. u # Nobody /\ u \in Parties
  BY UserAssumption DEF Parties
<1> QED
  BY <1>2, <1>4, <1>7, <1>8, <1>9, <1>10 DEF ChatInv

\* What the agreement says of the chats, as the runs check it.
LEMMA ChatsDo ==
  ASSUME ChatInv
  PROVE  ChatsAgree
<1>1. book \in Books /\ book.data \in Maps(Threads, Chats)
  BY DEF ChatInv, Books
<1>2. ASSUME NEW id \in DOMAIN book.data PROVE Indexed(book.data[id])
  <2>1. book.data[id] \in Chats
    BY <1>1, MapIs
  <2> QED
    BY <2>1, ChatIs DEF Histories
<1>3. ASSUME ~cleared, NEW id \in DOMAIN book.data
      PROVE  LET t == book.data[id] IN
             /\ t.peer \in DOMAIN book.threadOf /\ book.threadOf[t.peer] = id
             /\ \A x \in Range(t.items) : {x.from, x.to} \in {{me, t.peer}, {Nobody}}
  <2> DEFINE t == book.data[id]
  <2>1. /\ t.peer \in DOMAIN book.threadOf /\ book.threadOf[t.peer] = id
        /\ t \in Histories(t.peer, Between(me, t.peer))
    BY <1>3 DEF ChatInv, Agree
  <2> HIDE DEF t
  <2>2. t.items \in Seq(Records(Between(me, t.peer)))
    BY <2>1 DEF Histories
  <2>3. ASSUME NEW x \in Range(t.items) PROVE {x.from, x.to} \in {{me, t.peer}, {Nobody}}
    <3>1. PICK i \in DOMAIN t.items : x = t.items[i]
      BY <2>3 DEF Range
    <3>2. x \in Records(Between(me, t.peer))
      BY <2>2, <3>1, LenProperties
    <3> QED
      BY <3>2 DEF Records, Between
  <2> QED
    BY <2>1, <2>3 DEF t
<1>4. ASSUME ~cleared
      PROVE  /\ IsInjective(book.threadOf) /\ IsInjective(book.sessions)
             /\ Range(book.sessions) = Range(book.threadOf)
             /\ \A p \in DOMAIN book.threadOf : Contains(book.friends, p)
             /\ frame # NoFrame =>
                  /\ DOMAIN frame.widgets = Range(book.sessions)
                  /\ frame.cur # Nobody => frame.cur \in DOMAIN book.threadOf
  <2>1. Agree(me, book, frame)
    BY <1>4 DEF ChatInv
  <2>2. ASSUME NEW p \in DOMAIN book.threadOf, NEW q \in DOMAIN book.threadOf,
               book.threadOf[p] = book.threadOf[q]
        PROVE  p = q
    BY <2>1, <2>2, PairsDiffer DEF Agree, Linked
  <2>3. IsInjective(book.threadOf)
    BY <2>2 DEF IsInjective
  <2> QED
    BY <2>1, <2>3 DEF Agree, Linked
<1> QED
  BY <1>2, <1>3, <1>4 DEF ChatsAgree

\* The types of the chats, as the runs check them.
LEMMA ChatTypes ==
  ASSUME ChatInv
  PROVE  ChatTypeOK
<1>1. /\ client \in {"up", "hung", "crashed"} /\ me \in Users \cup {Nobody}
      /\ wire \subseteq Uids /\ fresh \in Nat /\ cleared \in BOOLEAN
  BY DEF ChatInv, Parties
<1>2. /\ book.requests \in Seq(Users) /\ book.friends \in Seq(Users)
      /\ book.sessions \in Seq(Threads)
      /\ book.threadOf \in Maps(Users, Threads) /\ book.data \in Maps(Threads, Chats)
  BY DEF ChatInv, Books
<1>3. /\ DOMAIN book.threadOf \subseteq Users /\ Range(book.threadOf) \subseteq Threads
      /\ DOMAIN book.data \subseteq Threads
  BY <1>2, MapIs DEF Range
<1>4. ASSUME frame # NoFrame
      PROVE  /\ frame.mode \in {"chats", "contacts", "searching", "settings"}
             /\ frame.stack \in {"chatting", "newuser", "profile", "setting"}
             /\ {frame.cur, frame.profile, frame.found.card} \subseteq Users \cup {Nobody}
             /\ DOMAIN frame.widgets \subseteq Threads /\ frame.asked \subseteq Threads
  <2>1. /\ frame.mode \in {"chats", "contacts", "searching", "settings"}
        /\ frame.stack \in {"chatting", "newuser", "profile", "setting"}
        /\ {frame.cur, frame.profile, frame.found.card} \subseteq Users \cup {Nobody}
        /\ frame.widgets \in Maps(Threads, Users) /\ frame.asked \subseteq Threads
    BY <1>4 DEF ChatInv, Frames, Parties
  <2> QED
    BY <2>1, MapIs
<1> QED
  BY <1>1, <1>2, <1>3, <1>4 DEF ChatTypeOK

-----------------------------------------------------------------------------
(* The pages and the connection.                                            *)

\* How the pages, the connection and the login fit.  Beyond NobodyIsLockedOut,
\* a login is asked for on a connection that is there, for somebody, and only
\* while nobody is logged in; a frame without a user is behind an alert and has
\* no connection; and an alert means that the manager has been cleared.
PageInv ==
  /\ PageTypeOK
  /\ (page = "login" /\ ~button) => (pending["login"] > 0 \/ socket # "closed")
  /\ (frame # NoFrame) <=> (page = "chatting")
  /\ page = "chatting" => (me # Nobody \/ (alerts > 0 /\ socket = "closed"))
  /\ me # Nobody => (socket = "connected" /\ uuid # Nobody)
  /\ asked # Nobody => (socket = "connected" /\ uuid # Nobody /\ me = Nobody)
  /\ socket = "connecting" => uuid # Nobody
  /\ ~cleared => alerts = 0

\* A request counts among those on their way.
LEMMA CountKeeps ==
  ASSUME NEW f \in [Kinds -> Nat], NEW kind \in Kinds
  PROVE  /\ [f EXCEPT ![kind] = @ + 1] \in [Kinds -> Nat]
         /\ [f EXCEPT ![kind] = @ + 1]["login"] >= f["login"]
         /\ f[kind] > 0 => [f EXCEPT ![kind] = @ - 1] \in [Kinds -> Nat]
         /\ kind # "login" => [f EXCEPT ![kind] = @ - 1]["login"] = f["login"]
BY DEF Kinds

\* What is done on a page, and its timers.
LEMMA PagesStep ==
  ASSUME PageInv, UsePage \/ Timers
  PROVE  PageInv'
<1>1. /\ pending \in [Kinds -> Nat] /\ pending["login"] \in Nat
      /\ "login" \in Kinds /\ "verification" \in Kinds /\ "registeration" \in Kinds
      /\ "exists" \in Kinds /\ "reset" \in Kinds
  BY DEF PageInv, PageTypeOK, Kinds
<1>2. ASSUME OnLoginButtonClicked PROVE PageInv'
  <2>1. pending' = [pending EXCEPT !["login"] = @ + 1]
    BY <1>2 DEF OnLoginButtonClicked, PostHttpRequest
  <2>2. pending' \in [Kinds -> Nat] /\ pending'["login"] > 0
    BY <1>1, <2>1
  <2> QED
    BY <1>2, <2>2 DEF OnLoginButtonClicked, PageInv, PageTypeOK, chatVars
<1>3. ASSUME NEW valid \in BOOLEAN, OnVerificationButtonClicked(valid) PROVE PageInv'
  <2>1. pending' \in [Kinds -> Nat] /\ pending'["login"] >= pending["login"]
    BY <1>1, <1>3, CountKeeps DEF OnVerificationButtonClicked, PostHttpRequest
  <2>2. WaitTime \in 0 .. WaitTime
    BY CountdownAssumption
  <2> QED
    BY <1>1, <1>3, <2>1, <2>2 DEF OnVerificationButtonClicked, PageInv, PageTypeOK, chatVars
<1>4. ASSUME NEW kind \in Kinds, Submit(kind) PROVE PageInv'
  <2>1. pending' \in [Kinds -> Nat] /\ pending'["login"] >= pending["login"]
    BY <1>1, <1>4, CountKeeps DEF Submit, PostHttpRequest
  <2> QED
    BY <1>1, <1>4, <2>1 DEF Submit, PageInv, PageTypeOK, chatVars
<1>5. ASSUME NEW from \in {"login", "register", "reset"}, NEW to \in {"login", "register", "reset"},
             SwitchPage(from, to)
      PROVE  PageInv'
  BY <1>5, CountdownAssumption DEF SwitchPage, ShowPage, UserAt, PageInv, PageTypeOK, chatVars
<1>6. ASSUME OnGoBackLogin2Clicked PROVE PageInv'
  BY <1>6 DEF OnGoBackLogin2Clicked, PageInv, PageTypeOK, chatVars
<1>7. ASSUME Timeout PROVE PageInv'
  <2>1. /\ left' \in 1 .. Countdown /\ waiting' \in 0 .. WaitTime
        /\ sub' \in {"info", "password", "done"} /\ button' \in BOOLEAN
        /\ \/ page' = page /\ button' = button
           \/ page' = "login" /\ button' = TRUE /\ page # "chatting"
    <3>1. left \in 1 .. Countdown /\ waiting \in 0 .. WaitTime /\ page # "chatting"
      BY <1>7 DEF Timeout, PageInv, PageTypeOK
    <3>2. button \in BOOLEAN /\ sub \in {"info", "password", "done"}
      BY DEF PageInv, PageTypeOK
    <3>3. CASE left > 1
      <4>1. left' = left - 1 /\ UNCHANGED <<page, sub, button, waiting>>
        BY <1>7, <3>3 DEF Timeout
      <4>2. left' \in 1 .. Countdown
        BY <3>1, <3>3, <4>1, CountdownAssumption
      <4> QED
        BY <3>1, <3>2, <4>1, <4>2
    <3>4. CASE ~(left > 1)
      <4>1. page' = "login" /\ sub' = "info" /\ button' = TRUE
            /\ left' = Countdown /\ waiting' = 0
        BY <1>7, <3>4 DEF Timeout, ShowPage
      <4>2. Countdown \in 1 .. Countdown /\ 0 \in 0 .. WaitTime
        BY CountdownAssumption
      <4> QED
        BY <3>1, <4>1, <4>2
    <3> QED
      BY <3>3, <3>4
  <2> QED
    BY <1>7, <2>1 DEF Timeout, PageInv, PageTypeOK, chatVars
<1>8. ASSUME WaitingTimeout PROVE PageInv'
  BY <1>8, CountdownAssumption DEF WaitingTimeout, PageInv, PageTypeOK, chatVars
<1>9. ASSUME HeartBeat PROVE PageInv'
  BY <1>9 DEF HeartBeat, Crash, pageVars, PageInv, PageTypeOK
<1> QED
  BY <1>1, <1>2, <1>3, <1>4, <1>5, <1>6, <1>7, <1>8, <1>9
  DEF UsePage, Timers, OnConfirmButtonClicked, OnVerifyClicked, OnSubmitPasswdClicked

\* The answers of the gateway.
LEMMA GatewayStep ==
  ASSUME PageInv, Gateway
  PROVE  PageInv'
<1>1. /\ pending \in [Kinds -> Nat] /\ pending["login"] \in Nat /\ "login" \in Kinds
  BY DEF PageInv, PageTypeOK, Kinds
<1>2. ASSUME NEW kind \in Kinds, NEW good \in BOOLEAN,
             RegFinished(kind, good) \/ ResetFinished(kind, good)
      PROVE  PageInv'
  <2>1. /\ kind # "login" /\ pending[kind] > 0 /\ pending' = [pending EXCEPT ![kind] = @ - 1]
        /\ sub' \in {"info", "password", "done"}
        /\ UNCHANGED <<chatVars, page, button, left, waiting, socket, stream, uuid, asked, alerts>>
    BY <1>2 DEF RegFinished, ResetFinished, Answered, RegisterSuccess, ResetSuccess,
                PageInv, PageTypeOK
  <2>2. pending' \in [Kinds -> Nat] /\ pending'["login"] = pending["login"]
    BY <1>1, <2>1, CountKeeps
  <2> QED
    BY <2>1, <2>2 DEF PageInv, PageTypeOK, chatVars
<1>3. ASSUME Answered("login") PROVE pending' \in [Kinds -> Nat]
  BY <1>1, <1>3 DEF Answered
<1>4. ASSUME LoginFailed PROVE PageInv'
  BY <1>3, <1>4 DEF LoginFailed, PageInv, PageTypeOK, chatVars
<1>5. ASSUME NEW u \in Users, LoginFinished(u) PROVE PageInv'
  BY <1>3, <1>5, UserAssumption DEF LoginFinished, PageInv, PageTypeOK, chatVars
<1> QED
  BY <1>2, <1>4, <1>5 DEF Gateway

\* The connection and the login.
LEMMA ConnectionStep ==
  ASSUME PageInv, ChatInv, Connection
  PROVE  PageInv' /\ ChatInv'
<1>1. ASSUME Connected PROVE PageInv' /\ ChatInv'
  BY <1>1 DEF Connected, PageInv, PageTypeOK, ChatInv, chatVars
<1>2. ASSUME Disconnected PROVE PageInv' /\ ChatInv'
  <2>1. book' \in Books /\ me' \in Parties
    BY <1>2, ForgottenIs DEF Disconnected, ChatInv, Parties
  <2>2. PageInv'
    <3>1. alerts' \in Nat /\ alerts' > 0
      BY <1>2 DEF Disconnected, PageInv, PageTypeOK
    <3>2. button' \in BOOLEAN /\ (page = "login" => button' = TRUE)
      BY <1>2 DEF Disconnected
    <3> QED
      BY <1>2, <3>1, <3>2 DEF Disconnected, PageInv, PageTypeOK
  <2>3. ChatInv'
    BY <1>2, <2>1 DEF Disconnected, ChatInv
  <2> QED
    BY <2>2, <2>3
<1>3. ASSUME ReceiveChunk PROVE PageInv' /\ ChatInv'
  <2>1. stream' \in {"aligned", "split", "full"} /\ client' \in {"up", "hung", "crashed"}
    BY <1>3 DEF ReceiveChunk, PageInv, PageTypeOK
  <2>2. UNCHANGED <<me, book, frame, wire, fresh, cleared, page, sub, button, left, waiting,
                    pending, socket, uuid, asked, alerts>>
    BY <1>3 DEF ReceiveChunk
  <2> QED
    BY <2>1, <2>2 DEF PageInv, PageTypeOK, ChatInv
<1>4. ASSUME AlertClosed PROVE PageInv' /\ ChatInv'
  <2>1. cleared /\ alerts > 0 /\ alerts \in Nat
    BY <1>4 DEF AlertClosed, PageInv, PageTypeOK
  <2>2. PageInv'
    BY <1>4, <2>1, CountdownAssumption DEF AlertClosed, ShowPage, PageInv, PageTypeOK
  <2>3. ChatInv'
    BY <1>4, <2>1 DEF AlertClosed, ChatInv
  <2> QED
    BY <2>2, <2>3
<1>5. ASSUME LoginRefused PROVE PageInv' /\ ChatInv'
  BY <1>5 DEF LoginRefused, PageInv, PageTypeOK, ChatInv, chatVars
<1>6. ASSUME NEW a \in Accounts, LoginAnswered(a.uuid, a.requests, a.friends)
      PROVE  PageInv' /\ ChatInv'
  <2>1. PICK u \in Users, requests \in Seq(Users), friends \in SUBSET Users :
          LoginAnswered(u, requests, friends)
    BY <1>6, AccountAssumption
  <2>2. asked = u /\ u # Nobody /\ me = Nobody /\ socket = "connected" /\ uuid # Nobody
    BY <2>1, UserAssumption DEF LoginAnswered, PageInv
  <2>3. ChatInv' /\ me' = u /\ frame' \in Frames
    BY <2>1, <2>2, LoginKeeps DEF LoginAnswered
  <2>4. frame' # NoFrame /\ cleared' = cleared
    BY <2>1, <2>3, FrameIsThere DEF LoginAnswered, LoginResponse
  <2>5. /\ page' = "chatting" /\ sub' = "info" /\ button' = TRUE
        /\ left' = Countdown /\ waiting' = 0 /\ asked' = Nobody
        /\ UNCHANGED <<pending, socket, stream, uuid, alerts>>
    BY <2>1 DEF LoginAnswered, ShowPage
  <2>6. PageInv'
    BY <2>2, <2>3, <2>4, <2>5, CountdownAssumption DEF PageInv, PageTypeOK
  <2> QED
    BY <2>3, <2>6
<1> QED
  BY <1>1, <1>2, <1>3, <1>4, <1>5, <1>6 DEF Connection, LogoutFailed

\* A frame that can be used belongs to somebody.
LEMMA SomebodyIsThere ==
  ASSUME PageInv, ChatInv, frame # NoFrame, alerts = 0 \/ socket = "connected"
  PROVE  me \in Users /\ frame \in Frames
BY DEF PageInv, ChatInv, Parties

\* Lists of users are sequences of them.
LEMMA ListIs ==
  ASSUME NEW S \in SUBSET Users, NEW s \in Lists(S)
  PROVE  s \in Seq(Users)
<1>1. << >> \in Seq(Users)
  BY EmptyIs
<1>2. \A x, y \in Users : <<x>> \in Seq(Users) /\ <<x, y>> \in Seq(Users)
  OBVIOUS
<1>3. \A x \in S : x \in Users
  OBVIOUS
<1>4. s = << >> \/ (\E x \in S : s = <<x>>) \/ (\E x, y \in S : s = <<x, y>>)
  BY DEF Lists
<1> QED
  BY <1>1, <1>2, <1>3, <1>4

\* What the messages of the server do.
LEMMA ServerStep ==
  ASSUME PageInv, ChatInv, Server
  PROVE  me \in Users /\ frame \in Frames /\ Stays
<1>1. me \in Users /\ frame \in Frames
  BY SomebodyIsThere DEF Server, Receives
<1>2. Others \subseteq Users
  BY DEF Others
<1>3. CASE SearchUsernameResponse
  BY <1>1, <1>3, FrameActions DEF SearchUsernameResponse, Parties
<1>4. CASE FriendReincomingRequest
  BY <1>1, <1>2, <1>4, IncomingStays DEF FriendReincomingRequest, Parties
<1>5. CASE FriendingOnBiddirectional
  BY <1>1, <1>2, <1>5, HelloAssumption, FriendStays DEF FriendingOnBiddirectional
<1>6. CASE TextChatMsgResponse
  BY <1>1, <1>2, <1>6, ResponseStays DEF TextChatMsgResponse
<1>7. CASE TextChatMsgIncomingRequest
  BY <1>1, <1>2, <1>7, IncomingTextStays DEF TextChatMsgIncomingRequest
<1>8. CASE PullChatThreadResponse
  BY <1>1, <1>2, <1>8, ListIs, PullThreadStays DEF PullChatThreadResponse
<1>9. CASE PullChatRecordResponse
  BY <1>1, <1>2, <1>9, PullRecordStays DEF PullChatRecordResponse
<1>10. CASE CreateNewPrivateChatResponse
  BY <1>1, <1>2, <1>10, CreateStays DEF CreateNewPrivateChatResponse
<1> QED
  BY <1>1, <1>3, <1>4, <1>5, <1>6, <1>7, <1>8, <1>9, <1>10 DEF Server

\* What the user does to the frame.
LEMMA UserStep ==
  ASSUME PageInv, ChatInv, UseFrame \/ UseCard
  PROVE  me \in Users /\ frame \in Frames /\ Stays
<1>1. me \in Users /\ frame \in Frames
  BY SomebodyIsThere DEF UseFrame, UseCard, AtFrame, AtPage
<1>2. CASE \/ DisplayChatList \/ DisplayContactList \/ DisplaySetting
           \/ SearchTextChanged \/ SearchUser
           \/ LoadMoreContacts \/ LoadMoreRequests
           \/ ClickAddNewUser \/ \E p \in Users : ClickContact(p)
           \/ \E i \in DOMAIN frame.requests : AnswerRequest(i)
           \/ CloseCard
  BY <1>1, <1>2, FrameActions
<1>3. CASE (\E id \in Threads : ClickChat(id)) \/ SwitchChatItem
  BY <1>1, <1>3, ChooseStays
<1>4. CASE \E batch \in Batches : SendMessage(batch)
  BY <1>1, <1>4, SendStays
<1> QED
  BY <1>1, <1>2, <1>3, <1>4 DEF UseFrame, UseCard

\* Every step of the client keeps both.
LEMMA ClientStep ==
  ASSUME PageInv, ChatInv, [Next]_vars
  PROVE  PageInv' /\ ChatInv'
<1>1. ASSUME UNCHANGED <<pageVars, chatVars>> PROVE PageInv' /\ ChatInv'
  <2>1. PageInv'
    BY <1>1 DEF pageVars, chatVars, PageInv, PageTypeOK
  <2>2. ChatInv'
    BY <1>1 DEF chatVars, ChatInv
  <2> QED
    BY <2>1, <2>2
<1>2. ASSUME me \in Users, frame \in Frames, Stays, UNCHANGED pageVars PROVE PageInv' /\ ChatInv'
  <2>1. ChatInv'
    BY <1>2, StaysKeeps
  <2>2. me' = me /\ cleared' = cleared /\ me # Nobody
        /\ frame # NoFrame /\ frame' # NoFrame
    BY <1>2, FrameIsThere, UserAssumption DEF Stays
  <2>3. PageInv'
    BY <1>2, <2>2 DEF pageVars, PageInv, PageTypeOK
  <2> QED
    BY <2>1, <2>3
<1>3. CASE UNCHANGED vars
  BY <1>1, <1>3 DEF vars
<1>4. CASE UsePage \/ Gateway \/ Timers
  <2>1. PageInv'
    BY <1>4, PagesStep, GatewayStep
  <2>2. UNCHANGED chatVars \/ (Crash)
    BY <1>4 DEF UsePage, Gateway, Timers, OnLoginButtonClicked, OnVerificationButtonClicked,
       OnConfirmButtonClicked, OnVerifyClicked, OnSubmitPasswdClicked, Submit, SwitchPage,
       OnGoBackLogin2Clicked, Timeout, WaitingTimeout, HeartBeat, RegFinished, ResetFinished,
       LoginFailed, LoginFinished
  <2>3. ChatInv'
    BY <2>2 DEF Crash, chatVars, ChatInv
  <2> QED
    BY <2>1, <2>3
<1>5. CASE Connection
  BY <1>5, ConnectionStep
<1>6. CASE Server
  BY <1>2, <1>6, ServerStep DEF Server
<1>7. CASE UseFrame \/ UseCard
  BY <1>2, <1>7, UserStep DEF UseFrame, UseCard
<1>8. CASE UseDialog \/ UseCropper
  BY <1>1, <1>8 DEF UseDialog, UseCropper
<1> QED
  BY <1>3, <1>4, <1>5, <1>6, <1>7, <1>8 DEF Next

\* Both hold at first.
LEMMA ClientInit ==
  ASSUME Init
  PROVE  PageInv /\ ChatInv
<1>1. PageInit
  BY DEF Init
<1>2. PageInv
  <2>1. pending \in [Kinds -> Nat]
    BY <1>1 DEF PageInit
  <2>2. Countdown \in 1 .. Countdown /\ 0 \in 0 .. WaitTime
    BY CountdownAssumption
  <2> QED
    BY <1>1, <2>1, <2>2 DEF PageInit, PageInv, PageTypeOK
<1>3. ChatInv
  <2>1. Agree(Nobody, EmptyBook, NoFrame)
    <3>1. DOMAIN << >> = {} /\ Range(<< >>) = {} /\ IsInjective(<< >>)
      BY EmptyIs
    <3>2. EmptyBook.threadOf = << >> /\ EmptyBook.sessions = << >> /\ EmptyBook.data = << >>
      BY DEF EmptyBook
    <3> QED
      BY <3>1, <3>2 DEF Agree, Linked
  <2> QED
    BY <1>1, <2>1, EmptyBookIs DEF PageInit, ChatInv, Parties
<1> QED
  BY <1>2, <1>3

-----------------------------------------------------------------------------
(* The tags.                                                                *)

\* A text is added to a list of different texts that does not contain it.
LEMMA AddText ==
  ASSUME NEW s \in Seq(Texts), NEW x \in Texts
  PROVE  LET c == IF Contains(s, x) THEN s ELSE Append(s, x) IN
         /\ c \in Seq(Texts) /\ Range(c) = Range(s) \cup {x}
         /\ IsInjective(s) => IsInjective(c)
<1>1. Contains(s, x) <=> x \in Range(s)
  BY ContainsIs
<1>2. CASE x \in Range(s)
  BY <1>1, <1>2
<1>3. CASE x \notin Range(s)
  <2>1. PICK c : c = Append(s, x)
    OBVIOUS
  <2>2. /\ c \in Seq(Texts) /\ Len(c) = Len(s) + 1 /\ c[Len(s) + 1] = x
        /\ \A i \in 1 .. Len(s) : c[i] = s[i]
    BY <2>1, AppendProperties
  <2>3. /\ DOMAIN s = 1 .. Len(s) /\ DOMAIN c = 1 .. Len(s) + 1 /\ Len(s) \in Nat
    BY <2>2, LenProperties
  <2>4. \A i : i \in 1 .. Len(s) + 1 <=> i \in 1 .. Len(s) \/ i = Len(s) + 1
    BY <2>3
  <2>5. Range(c) = Range(s) \cup {x}
    BY <2>2, <2>3, <2>4 DEF Range
  <2>6. ASSUME IsInjective(s) PROVE IsInjective(c)
    <3>1. ASSUME NEW i \in DOMAIN c, NEW j \in DOMAIN c, c[i] = c[j] PROVE i = j
      <4>1. \A k \in DOMAIN s : s[k] \in Range(s) /\ s[k] # x
        BY <1>3 DEF Range
      <4>2. CASE i \in DOMAIN s /\ j \in DOMAIN s
        BY <2>2, <2>3, <2>6, <3>1, <4>2 DEF IsInjective
      <4>3. CASE ~(i \in DOMAIN s /\ j \in DOMAIN s)
        BY <2>2, <2>3, <2>4, <3>1, <4>1, <4>3
      <4> QED
        BY <4>2, <4>3
    <3> QED
      BY <3>1 DEF IsInjective
  <2> QED
    BY <1>1, <1>3, <2>1, <2>2, <2>5, <2>6
<1> QED
  BY <1>2, <1>3

\* The labels that a dialog starts with: one for each of the texts.
LEMMA LoadtestIs ==
  /\ LoadtestFunction \in Seq(Texts) /\ IsInjective(LoadtestFunction)
  /\ Range(LoadtestFunction) = Range(TestTags)
<1> DEFINE N == Len(TestTags)
           S == Seq(Texts)
           s0 == << >>
           P(h) == h = [s \in SUBSET (1 .. N) |->
                          IF s = {} THEN s0
                          ELSE AddNewTag2ExistingTag(h[s \ {Max(s)}], TestTags[Max(s)])]
           h0 == CHOOSE h : P(h)
           c == LoadtestFunction
<1>1. N \in Nat /\ DOMAIN TestTags = 1 .. N /\ \A i \in 1 .. N : TestTags[i] \in Texts
  BY TagAssumption, LenProperties
<1>2. c = h0[1 .. N]
  BY <1>1 DEF LoadtestFunction, FoldLeft, MapThenFoldSet
<1> HIDE DEF c
<1>3. ASSUME NEW s \in S, NEW x \in Texts
      PROVE  /\ AddNewTag2ExistingTag(s, x) \in S
             /\ Range(AddNewTag2ExistingTag(s, x)) = Range(s) \cup {x}
             /\ IsInjective(s) => IsInjective(AddNewTag2ExistingTag(s, x))
  <2> HIDE DEF P, h0
  <2> QED
    BY AddText DEF AddNewTag2ExistingTag
<1>e. s0 \in S /\ Range(s0) = {} /\ IsInjective(s0)
  BY EmptyIs
<1> HIDE DEF S, s0
<1>4. P(h0)
  <2> DEFINE F == [ui \in S \X (1 .. N) |-> AddNewTag2ExistingTag(ui[1], TestTags[ui[2]])]
  <2>1. F \in [S \X (1 .. N) -> S]
    BY <1>1, <1>3
  <2>2. PICK g : Folds(g, N, S, s0, F)
    <3> HIDE DEF F, N, P, h0
    <3> QED
      BY <1>1, <1>e, <2>1, FoldExists
  <2>3. ASSUME NEW s \in SUBSET (1 .. N), s # {}
        PROVE  F[<<g[s \ {Max(s)}], Max(s)>>]
                 = AddNewTag2ExistingTag(g[s \ {Max(s)}], TestTags[Max(s)])
    <3>1. Max(s) \in 1 .. N
      BY <1>1, <2>3, MaxIsMember
    <3> QED
      BY <2>2, <3>1 DEF Folds
  <2>4. P(g)
    <3> HIDE DEF F
    <3> QED
      BY <2>2, <2>3 DEF Folds
  <2> HIDE DEF P
  <2> QED
    BY <2>4
<1>5. h0[{}] = s0
  BY <1>4
<1> DEFINE Q(n, s) == IsInjective(s) /\ \A x : x \in Range(s) <=> \E i \in 1 .. n : x = TestTags[i]
           T == {ns \in (0 .. N) \X S : Q(ns[1], ns[2])}
<1> HIDE DEF h0
<1>6. <<0, h0[{}]>> \in T
  <2>1. Q(0, s0)
    <3>1. \A i : i \notin 1 .. 0
      OBVIOUS
    <3> QED
      BY <1>e, <3>1
  <2>2. 0 \in 0 .. N
    BY <1>1
  <2> HIDE DEF Q, N
  <2> QED
    BY <2>1, <2>2, <1>5, <1>e
<1>7. ASSUME NEW n \in 0 .. N - 1, <<n, h0[1 .. n]>> \in T,
             Max(1 .. n + 1) = n + 1 /\ (1 .. n + 1) \ {n + 1} = 1 .. n
      PROVE  <<n + 1, h0[1 .. n + 1]>> \in T
  <2>1. 1 .. n + 1 \in SUBSET (1 .. N) /\ 1 .. n + 1 # {} /\ n + 1 \in 1 .. N
    BY <1>1, Segments
  <2>2. PICK s : s = h0[1 .. n]
    OBVIOUS
  <2>3. s \in S /\ Q(n, s)
    <3> HIDE DEF Q
    <3> QED
      BY <1>7, <2>2
  <2>4. PICK x \in Texts : x = TestTags[n + 1]
    BY <1>1, <2>1
  <2>5. PICK d : d = AddNewTag2ExistingTag(s, x)
    OBVIOUS
  <2>6. h0[1 .. n + 1] = d
    <3> HIDE DEF Q, T
    <3> QED
      BY <1>4, <1>7, <2>1, <2>2, <2>4, <2>5
  <2>7. d \in S /\ Range(d) = Range(s) \cup {x} /\ (IsInjective(s) => IsInjective(d))
    BY <1>3, <2>3, <2>5
  <2>8. Q(n + 1, d)
    <3>1. \A i : i \in 1 .. n + 1 <=> i \in 1 .. n \/ i = n + 1
      <4>1. n \in Nat
        BY <1>1
      <4> QED
        BY <4>1
    <3> HIDE DEF T
    <3> QED
      BY <2>3, <2>4, <2>7, <3>1
  <2>9. n + 1 \in 0 .. N
    BY <1>1
  <2> HIDE DEF Q, N
  <2> QED
    BY <2>6, <2>7, <2>8, <2>9
<1>8. <<N, h0[1 .. N]>> \in T
  <2> HIDE DEF T, N
  <2> QED
    BY <1>1, <1>6, <1>7, FoldThrough
<1>9. c \in S /\ Q(N, c)
  <2> HIDE DEF Q, N
  <2> QED
    BY <1>2, <1>8
<1>10. Range(c) = Range(TestTags)
  <2> HIDE DEF P, N
  <2>1. \A x : x \in Range(TestTags) <=> \E i \in 1 .. N : x = TestTags[i]
    BY <1>1 DEF Range
  <2> QED
    BY <1>9, <2>1
<1> QED
  BY <1>9, <1>10 DEF c, S

\* The lists of the tags, by themselves.
TagInv == TagTypeOK /\ TagsAgree

\* What a text chosen as a tag does to the lists.
LEMMA ChooseKeeps ==
  ASSUME TagInv, NEW text \in Texts,
         tagLists' = AddNewTag2Container(tagLists, text),
         AddNewTag2InputTag(text),
         \/ /\ existingKey' = AddNewTag2ExistingTag(existingKey, text)
            /\ lit' \subseteq Texts
         \/ /\ text \in Range(tagLists) /\ existingKey' = existingKey
            /\ lit' \subseteq Texts,
         dialog' = dialog, barLit' \in BOOLEAN
  PROVE  TagInv'
<1>1. /\ tagLists \in Seq(Texts) /\ selectedKey \in Seq(Texts) /\ existingKey \in Seq(Texts)
      /\ IsInjective(selectedKey) /\ IsInjective(existingKey)
      /\ Range(selectedKey) \subseteq Range(tagLists)
      /\ Range(tagLists) = Range(existingKey)
      /\ dialog.kind \in {"none", "request", "authenticate"}
  BY DEF TagInv, TagTypeOK, TagsAgree
<1>2. tagLists' \in Seq(Texts) /\ Range(tagLists') = Range(tagLists) \cup {text}
  BY <1>1, AddText DEF AddNewTag2Container
<1>3. /\ selectedKey' \in Seq(Texts) /\ Range(selectedKey') = Range(selectedKey) \cup {text}
      /\ IsInjective(selectedKey')
  BY <1>1, AddText DEF AddNewTag2InputTag
<1>4. /\ existingKey' \in Seq(Texts) /\ Range(existingKey') = Range(existingKey) \cup {text}
      /\ IsInjective(existingKey')
  <2>1. CASE existingKey' = AddNewTag2ExistingTag(existingKey, text)
    BY <1>1, <2>1, AddText DEF AddNewTag2ExistingTag
  <2>2. CASE text \in Range(tagLists) /\ existingKey' = existingKey
    BY <1>1, <2>2
  <2> QED
    BY <2>1, <2>2
<1>5. input' \in Seq(Texts)
  BY EmptyIs DEF AddNewTag2InputTag
<1>6. TagTypeOK'
  BY <1>1, <1>2, <1>3, <1>4, <1>5 DEF TagTypeOK
<1>7. TagsAgree'
  BY <1>1, <1>2, <1>3, <1>4 DEF TagsAgree
<1> QED
  BY <1>6, <1>7 DEF TagInv

\* The lists of a dialog that opens or closes.
LEMMA OpenKeeps ==
  ASSUME TagInv,
         \/ CloseDialog
         \/ \E kind \in {"request", "authenticate"} : \E info : OpenDialog(kind, info)
  PROVE  TagInv'
<1>1. << >> \in Seq(Texts) /\ IsInjective(<< >>) /\ Range(<< >>) = {}
  BY EmptyIs
<1>2. CASE CloseDialog
  <2>1. dialog'.kind = "none"
    BY <1>2 DEF CloseDialog, NoDialog
  <2> QED
    BY <1>1, <1>2, <2>1 DEF CloseDialog, TagInv, TagTypeOK, TagsAgree
<1>3. ASSUME NEW kind \in {"request", "authenticate"}, NEW info, OpenDialog(kind, info)
      PROVE  TagInv'
  <2>1. dialog'.kind = kind
    BY <1>3 DEF OpenDialog
  <2>2. TestTags \in Seq(Texts) /\ Range(TestTags) \subseteq Texts
    BY TagAssumption DEF Range
  <2>3. /\ existingKey' \in Seq(Texts) /\ IsInjective(existingKey')
        /\ Range(existingKey') = Range(TestTags)
    BY <1>3, LoadtestIs DEF OpenDialog
  <2>4. /\ tagLists' = TestTags /\ selectedKey' = << >> /\ lit' = Range(TestTags)
        /\ barLit' = FALSE /\ input' = << >>
    BY <1>3 DEF OpenDialog
  <2>5. TagTypeOK'
    BY <1>1, <2>1, <2>2, <2>3, <2>4 DEF TagTypeOK
  <2>6. TagsAgree'
    BY <1>1, <2>2, <2>3, <2>4 DEF TagsAgree
  <2> QED
    BY <2>5, <2>6 DEF TagInv
<1> QED
  BY <1>2, <1>3

\* What is done in a dialog.
LEMMA EditKeeps ==
  ASSUME TagInv, TagEdit
  PROVE  TagInv'
<1>1. /\ tagLists \in Seq(Texts) /\ selectedKey \in Seq(Texts) /\ existingKey \in Seq(Texts)
      /\ input \in Seq(Texts) /\ lit \subseteq Texts /\ barLit \in BOOLEAN
      /\ dialog.kind \in {"none", "request", "authenticate"}
      /\ Range(tagLists) = Range(existingKey)
  BY DEF TagInv, TagTypeOK, TagsAgree
<1>2. input # << >> => input[1] \in Texts
  BY <1>1
<1>3. ASSUME NEW text \in Texts, TextChange(text) PROVE TagInv'
  <2>1. input' \in Seq(Texts)
    BY <1>3 DEF TextChange
  <2>2. UNCHANGED <<dialog, tagLists, selectedKey, existingKey, lit, barLit>>
    BY <1>3 DEF TextChange
  <2>3. TagTypeOK' /\ TagsAgree'
    BY <1>1, <2>1, <2>2 DEF TagInv, TagTypeOK, TagsAgree
  <2> QED
    BY <2>3 DEF TagInv
<1>4. ASSUME PressEnter PROVE TagInv'
  <2>1. PICK text \in Texts : AddNewTag(text)
    BY <1>2, <1>4 DEF PressEnter
  <2> QED
    BY <1>1, <2>1, ChooseKeeps DEF AddNewTag
<1>5. ASSUME ClickBar PROVE TagInv'
  <2>1. barLit' \in BOOLEAN /\ dialog' = dialog
    BY <1>5 DEF ClickBar
  <2>2. CASE barLit
    <3>1. UNCHANGED <<tagLists, selectedKey, existingKey, lit, input>>
      BY <1>5, <2>2 DEF ClickBar
    <3>2. TagTypeOK' /\ TagsAgree'
      BY <1>1, <2>1, <3>1 DEF TagInv, TagTypeOK, TagsAgree
    <3> QED
      BY <3>2 DEF TagInv
  <2>3. CASE ~barLit
    <3>1. PICK text \in Texts : text = input[1]
      BY <1>2, <1>5 DEF ClickBar
    <3>2. /\ AddNewTag2InputTag(text) /\ tagLists' = AddNewTag2Container(tagLists, text)
          /\ \/ Contains(tagLists, text) /\ UNCHANGED <<existingKey, lit>>
             \/ /\ existingKey' = AddNewTag2ExistingTag(existingKey, text)
                /\ lit' = lit \cup {text}
      BY <1>5, <2>3, <3>1 DEF ClickBar
    <3>3. Contains(tagLists, text) <=> text \in Range(tagLists)
      BY <1>1, ContainsIs
    <3> QED
      BY <1>1, <2>1, <3>2, <3>3, ChooseKeeps
  <2> QED
    BY <2>2, <2>3
<1>6. ASSUME NEW text \in Texts, ClickExisting(text) PROVE TagInv'
  <2>1. CASE text \in lit
    <3>1. /\ lit' \subseteq Texts
          /\ UNCHANGED <<dialog, tagLists, selectedKey, existingKey, barLit, input>>
      BY <1>1, <1>6, <2>1 DEF ClickExisting
    <3>2. TagTypeOK' /\ TagsAgree'
      BY <1>1, <3>1 DEF TagInv, TagTypeOK, TagsAgree
    <3> QED
      BY <3>2 DEF TagInv
  <2>2. CASE text \notin lit
    <3>1. text \in Range(existingKey)
      BY <1>1, <1>6, ContainsIs DEF ClickExisting
    <3> QED
      BY <1>1, <1>6, <2>2, <3>1, ChooseKeeps DEF ClickExisting
  <2> QED
    BY <2>1, <2>2
<1> QED
  BY <1>3, <1>4, <1>5, <1>6 DEF TagEdit

\* Every step of the client keeps the lists.
LEMMA TagStep ==
  ASSUME TagInv, [Next]_vars
  PROVE  TagInv'
<1>1. ASSUME UNCHANGED tagVars PROVE TagInv'
  BY <1>1 DEF tagVars, TagInv, TagTypeOK, TagsAgree
<1>2. \/ UNCHANGED tagVars
      \/ CloseDialog
      \/ \E kind \in {"request", "authenticate"} : \E info : OpenDialog(kind, info)
      \/ TagEdit
  <2>1. CASE UNCHANGED vars
    BY <2>1 DEF vars
  <2>2. CASE UsePage \/ Timers \/ Gateway \/ Connection
    BY <2>2 DEF UsePage, Timers, Gateway, Connection, CloseDialogs
  <2>3. CASE Server \/ UseFrame \/ UseCard
    BY <2>3 DEF Server, UseFrame, UseCard
  <2>4. CASE UseDialog \/ UseCropper
    BY <2>4 DEF UseDialog, UseCropper
  <2> QED
    BY <2>1, <2>2, <2>3, <2>4 DEF Next
<1> QED
  BY <1>1, <1>2, OpenKeeps, EditKeeps

-----------------------------------------------------------------------------
(* The whole client.                                                        *)

\* What every step keeps, from the beginning.
LEMMA ClientKeeps == Spec => [](PageInv /\ ChatInv /\ TagInv)
<1>1. Init => PageInv /\ ChatInv /\ TagInv
  <2>1. TagInit => TagInv
    <3>1. << >> \in Seq(Texts) /\ IsInjective(<< >>) /\ Range(<< >>) = {}
      BY EmptyIs
    <3>2. ASSUME TagInit PROVE TagTypeOK /\ TagsAgree
      <4>1. dialog.kind = "none"
        BY <3>2 DEF TagInit, NoDialog
      <4>2. /\ tagLists = << >> /\ selectedKey = << >> /\ existingKey = << >>
            /\ lit = {} /\ barLit = FALSE /\ input = << >>
        BY <3>2 DEF TagInit
      <4> QED
        BY <3>1, <4>1, <4>2 DEF TagTypeOK, TagsAgree
    <3> QED
      BY <3>2 DEF TagInv
  <2> QED
    BY <2>1, ClientInit DEF Init
<1>2. PageInv /\ ChatInv /\ TagInv /\ [Next]_vars => (PageInv /\ ChatInv /\ TagInv)'
  BY ClientStep, TagStep
<1> QED
  BY <1>1, <1>2, PTL DEF Spec

\* Whatever the gateway and the server answer, in whatever order and on however
\* late a connection, the page of the client fits its connection
\* (mainwindow.cpp, logininterface.cpp, tcpnetworkconnection.cpp): while
\* the login button is disabled, an answer or the end of a connection that will
\* enable it is still to come; who is shown a frame is logged in or has an alert
\* before him; and nobody is logged in without a connection.
THEOREM NobodyLockedOut == Spec => []NobodyIsLockedOut
<1>1. PageInv => NobodyIsLockedOut
  BY DEF PageInv, NobodyIsLockedOut
<1> QED
  BY <1>1, ClientKeeps, PTL

\* For any number of accounts, friends and messages: the indexes of a thread
\* (MessageBuffer, UserChatThread) lead to every record and to no wrong one, and
\* until the account manager is cleared its maps agree with each other and with
\* the frame (useraccountmanager.hpp, chattingdlgmainframe.cpp), so a message
\* never shows up in the chat of somebody else.
THEOREM ChatsAreKept == Spec => []ChatsAgree
<1>1. ChatInv => ChatsAgree
  BY ChatsDo
<1> QED
  BY <1>1, ClientKeeps, PTL

\* Every variable of the client has its type: its pages and its connection, its
\* chats, its tags, whose lists agree as well, and its cropper.
THEOREM ClientTypes == Spec => []TypeOK
<1>1. PageInv /\ ChatInv /\ TagInv => ChatTypeOK /\ PageTypeOK /\ TagTypeOK /\ TagsAgree
  BY ChatTypes DEF PageInv, TagInv
<1>2. Spec => []CropTypeOK
  BY CropperRefined, CropTypeCorrect, PTL
<1>3. ChatTypeOK /\ PageTypeOK /\ TagTypeOK /\ TagsAgree /\ CropTypeOK => TypeOK
  BY DEF TypeOK
<1> QED
  BY <1>1, <1>2, <1>3, ClientKeeps, PTL
=============================================================================
