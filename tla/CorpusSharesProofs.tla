-------------------------- MODULE CorpusSharesProofs --------------------------
(***************************************************************************)
(* Theorems of CorpusShares, for any set of holders, any amounts and any   *)
(* number of dividends and seconds.                                        *)
(*                                                                         *)
(* First the search: in a history ordered by time, _valueAt's halving ends *)
(* at the newest checkpoint not after the second asked for.  From there a  *)
(* checkpoint written now changes the value of no second passed, which is  *)
(* what keeps a dividend's parts fixed.                                    *)
(***************************************************************************)
EXTENDS CorpusShares, SumTheorems

-----------------------------------------------------------------------------
(* The search                                                              *)

LEMMA CheckpointTypes ==
  ASSUME NEW h \in Checkpoints
  PROVE  /\ Len(h) \in Nat
         /\ \A i \in 1 .. Len(h) : h[i].at \in Nat /\ h[i].value \in Nat
<1> DEFINE R == [at : Nat, value : Nat]
<1>1. h \in Seq(R)
  BY DEF Checkpoints
<1>2. \A r \in R : r.at \in Nat /\ r.value \in Nat
  OBVIOUS
<1> HIDE DEF R
<1>3. Len(h) \in Nat /\ \A i \in 1 .. Len(h) : h[i] \in R
  BY <1>1
<1> QED BY <1>2, <1>3

(* Checkpoints in the order of their seconds, none after the second last.  *)
Ordered(h, last) ==
  /\ \A i \in 1 .. Len(h) : h[i].at <= last
  /\ \A i, j \in 1 .. Len(h) : i < j => h[i].at < h[j].at

(* c is where the checkpoints not after t end.                             *)
Ends(c, h, t) == c \in Bounds(h) /\ \A i \in 1 .. Len(h) : i <= c <=> h[i].at <= t

(* What _valueAt's loop does from the bounds b.                            *)
Halve(g, b, h, t) ==
  LET mid == (b[1] + b[2]) \div 2
  IN  IF b[1] >= b[2] THEN b[1]
      ELSE IF h[mid + 1].at > t THEN g[<<b[1], mid>>]
      ELSE g[<<mid + 1, b[2]>>]

Halves(g, h, t) == g = [b \in Bounds(h) \X Bounds(h) |-> Halve(g, b, h, t)]

LEMMA SearchIsHalves ==
  ASSUME NEW h, NEW t
  PROVE  Search(h, t) = (CHOOSE g : Halves(g, h, t))[<<0, Len(h)>>]
BY Zenon DEF Search, Halves, Halve

LEMMA EndExists ==
  ASSUME NEW h \in Checkpoints, NEW t \in Nat, NEW last, Ordered(h, last)
  PROVE  \E c \in Bounds(h) : Ends(c, h, t)
<1> DEFINE P(n) == n <= Len(h) => \E c \in 0 .. n : \A i \in 1 .. n : i <= c <=> h[i].at <= t
           G == {n \in Nat : P(n)}
<1>0. Len(h) \in Nat /\ \A i \in 1 .. Len(h) : h[i].at \in Nat
  BY CheckpointTypes
<1>1. 0 \in G
  BY <1>0
<1>2. ASSUME NEW n \in Nat, n \in G PROVE n + 1 \in G
  <2>1. SUFFICES ASSUME n + 1 <= Len(h)
                 PROVE  \E c \in 0 .. n + 1 : \A i \in 1 .. n + 1 : i <= c <=> h[i].at <= t
    OBVIOUS
  <2>2. PICK c \in 0 .. n : \A i \in 1 .. n : i <= c <=> h[i].at <= t
    BY <1>0, <1>2, <2>1
  <2>3. CASE h[n + 1].at <= t
    <3>1. \A i \in 1 .. n + 1 : h[i].at <= t
      BY <1>0, <2>1, <2>3 DEF Ordered
    <3>2. \A i \in 1 .. n + 1 : i <= n + 1 <=> h[i].at <= t
      BY <3>1
    <3> QED BY <3>2
  <2>4. CASE ~ (h[n + 1].at <= t)
    <3>1. \A i \in 1 .. n + 1 : i <= c <=> h[i].at <= t
      BY <2>2, <2>4
    <3>2. c \in 0 .. n + 1
      OBVIOUS
    <3> QED BY <3>1, <3>2, Zenon
  <2> QED BY <2>3, <2>4
<1>3. \A n \in Nat : n \in G
  <2> HIDE DEF G
  <2> QED BY <1>1, <1>2, NatSetInduction
<1>4. PICK c \in 0 .. Len(h) : \A i \in 1 .. Len(h) : i <= c <=> h[i].at <= t
  <2>1. Len(h) \in G
    BY <1>0, <1>3
  <2>2. Len(h) <= Len(h)
    BY <1>0
  <2> QED BY <2>1, <2>2
<1> QED BY <1>4 DEF Ends, Bounds

(* From bounds on either side of the end, or off it, where the loop ends.  *)
Clip(c, b) == IF b[1] >= b[2] \/ c < b[1] THEN b[1] ELSE IF c > b[2] THEN b[2] ELSE c

LEMMA HalveClips ==
  ASSUME NEW h \in Checkpoints, NEW t \in Nat, NEW c \in Bounds(h), Ends(c, h, t),
         NEW l \in Bounds(h), NEW r \in Bounds(h), l < r
  PROVE  /\ (l + r) \div 2 \in l .. r - 1
         /\ (l + r) \div 2 \in Bounds(h) /\ (l + r) \div 2 + 1 \in Bounds(h)
         /\ h[(l + r) \div 2 + 1].at > t
              => Clip(c, <<l, r>>) = Clip(c, <<l, (l + r) \div 2>>)
         /\ ~ (h[(l + r) \div 2 + 1].at > t)
              => Clip(c, <<l, r>>) = Clip(c, <<(l + r) \div 2 + 1, r>>)
<1>1. PICK mid \in Int : mid = (l + r) \div 2
  BY DEF Bounds
<1>2. Len(h) \in Nat /\ \A i \in 1 .. Len(h) : h[i].at \in Nat
  BY CheckpointTypes
<1>3. mid \in l .. r - 1 /\ mid \in Bounds(h) /\ mid + 1 \in Bounds(h) /\ mid + 1 \in 1 .. Len(h)
  BY <1>1, <1>2 DEF Bounds
<1>4. mid + 1 <= c <=> h[mid + 1].at <= t
  BY <1>3 DEF Ends
<1>5. h[mid + 1].at \in Nat
  BY <1>2, <1>3
<1>6. h[mid + 1].at > t => Clip(c, <<l, r>>) = Clip(c, <<l, mid>>)
  BY <1>2, <1>3, <1>4, <1>5 DEF Clip, Bounds
<1>7. ~ (h[mid + 1].at > t) => Clip(c, <<l, r>>) = Clip(c, <<mid + 1, r>>)
  BY <1>2, <1>3, <1>4, <1>5 DEF Clip, Bounds
<1> QED BY <1>1, <1>3, <1>6, <1>7

LEMMA HalvesExists ==
  ASSUME NEW h \in Checkpoints, NEW t \in Nat, NEW c \in Bounds(h), Ends(c, h, t)
  PROVE  \E g : Halves(g, h, t)
<1> DEFINE g == [b \in Bounds(h) \X Bounds(h) |-> Clip(c, b)]
<1>1. ASSUME NEW l \in Bounds(h), NEW r \in Bounds(h)
      PROVE  Clip(c, <<l, r>>) = Halve(g, <<l, r>>, h, t)
  <2>1. CASE l >= r
    BY <2>1 DEF Clip, Halve
  <2>2. CASE ~ (l >= r)
    <3>1. PICK mid : mid = (l + r) \div 2
      OBVIOUS
    <3>2. l < r
      BY <2>2 DEF Bounds
    <3>3. /\ mid \in Bounds(h) /\ mid + 1 \in Bounds(h)
          /\ h[mid + 1].at > t => Clip(c, <<l, r>>) = Clip(c, <<l, mid>>)
          /\ ~ (h[mid + 1].at > t) => Clip(c, <<l, r>>) = Clip(c, <<mid + 1, r>>)
      BY <3>1, <3>2, HalveClips
    <3>4. g[<<l, mid>>] = Clip(c, <<l, mid>>) /\ g[<<mid + 1, r>>] = Clip(c, <<mid + 1, r>>)
      BY <3>3
    <3> HIDE DEF g
    <3>5. Halve(g, <<l, r>>, h, t) = IF h[mid + 1].at > t THEN g[<<l, mid>>] ELSE g[<<mid + 1, r>>]
      BY <2>2, <3>1 DEF Halve
    <3> QED BY <3>3, <3>4, <3>5
  <2> QED BY <2>1, <2>2
<1> HIDE DEF g
<1>2. ASSUME NEW b \in Bounds(h) \X Bounds(h) PROVE Clip(c, b) = Halve(g, b, h, t)
  <2>1. PICK l \in Bounds(h), r \in Bounds(h) : b = <<l, r>>
    OBVIOUS
  <2> QED BY <1>1, <2>1, Zenon
<1>3. [b \in Bounds(h) \X Bounds(h) |-> Clip(c, b)]
        = [b \in Bounds(h) \X Bounds(h) |-> Halve(g, b, h, t)]
  BY <1>2
<1>4. Halves(g, h, t)
  BY <1>3 DEF g, Halves
<1> QED BY <1>4

LEMMA HalvesClips ==
  ASSUME NEW h \in Checkpoints, NEW t \in Nat, NEW c \in Bounds(h), Ends(c, h, t),
         NEW g, Halves(g, h, t)
  PROVE  \A l, r \in Bounds(h) : g[<<l, r>>] = Clip(c, <<l, r>>)
<1> DEFINE G == {n \in Nat : \A l, r \in Bounds(h) : r - l <= n => g[<<l, r>>] = Clip(c, <<l, r>>)}
<1>1. ASSUME NEW l \in Bounds(h), NEW r \in Bounds(h)
      PROVE  g[<<l, r>>] = Halve(g, <<l, r>>, h, t)
  <2>1. <<l, r>> \in Bounds(h) \X Bounds(h)
    OBVIOUS
  <2> QED BY <2>1, Zenon DEF Halves
<1>2. ASSUME NEW l \in Bounds(h), NEW r \in Bounds(h), l >= r
      PROVE  g[<<l, r>>] = Clip(c, <<l, r>>)
  BY <1>1, <1>2 DEF Clip, Halve
<1>3. 0 \in G
  BY <1>2 DEF Bounds
<1>4. ASSUME NEW n \in Nat, n \in G PROVE n + 1 \in G
  <2>1. SUFFICES ASSUME NEW l \in Bounds(h), NEW r \in Bounds(h), r - l <= n + 1
                 PROVE  g[<<l, r>>] = Clip(c, <<l, r>>)
    OBVIOUS
  <2>2. CASE l >= r
    BY <2>2, <1>2
  <2>3. CASE ~ (l >= r)
    <3>1. PICK mid : mid = (l + r) \div 2
      OBVIOUS
    <3>2. l < r
      BY <2>3 DEF Bounds
    <3>3. /\ mid \in l .. r - 1 /\ mid \in Bounds(h) /\ mid + 1 \in Bounds(h)
          /\ h[mid + 1].at > t => Clip(c, <<l, r>>) = Clip(c, <<l, mid>>)
          /\ ~ (h[mid + 1].at > t) => Clip(c, <<l, r>>) = Clip(c, <<mid + 1, r>>)
      BY <3>1, <3>2, HalveClips
    <3>4. mid - l <= n /\ r - (mid + 1) <= n
      <4>1. l \in Int /\ r \in Int /\ n \in Nat /\ r - l <= n + 1
        BY <2>1 DEF Bounds
      <4>2. mid \in l .. r - 1
        BY <3>3
      <4> QED BY ONLY <4>1, <4>2
    <3>5. g[<<l, mid>>] = Clip(c, <<l, mid>>) /\ g[<<mid + 1, r>>] = Clip(c, <<mid + 1, r>>)
      BY <1>4, <3>3, <3>4
    <3>6. g[<<l, r>>] = IF h[mid + 1].at > t THEN g[<<l, mid>>] ELSE g[<<mid + 1, r>>]
      <4>1. g[<<l, r>>] = Halve(g, <<l, r>>, h, t)
        BY <1>1
      <4> QED BY <2>3, <3>1, <4>1 DEF Halve
    <3> QED BY <3>3, <3>5, <3>6
  <2> QED BY <2>2, <2>3
<1>5. \A n \in Nat : n \in G
  <2> HIDE DEF G
  <2> QED BY <1>3, <1>4, NatSetInduction
<1>6. ASSUME NEW l \in Bounds(h), NEW r \in Bounds(h)
      PROVE  g[<<l, r>>] = Clip(c, <<l, r>>)
  <2>1. Len(h) \in Nat /\ r - l <= Len(h)
    BY DEF Bounds, Checkpoints
  <2>2. Len(h) \in G
    BY <1>5, <2>1
  <2> QED BY <2>1, <2>2
<1> HIDE DEF G
<1> QED BY ONLY <1>6, Zenon

(* _valueAt's halving ends, in every history ordered by time, exactly after *)
(* the checkpoints not later than the second asked for.                     *)
THEOREM SearchFindsTheEnd ==
  ASSUME NEW h \in Checkpoints, NEW t \in Nat, NEW last, Ordered(h, last)
  PROVE  Ends(Search(h, t), h, t)
<1>1. PICK c \in Bounds(h) : Ends(c, h, t)
  BY EndExists
<1>2. PICK g : g = (CHOOSE f : Halves(f, h, t)) /\ Halves(g, h, t)
  BY <1>1, HalvesExists, Zenon
<1>3. 0 \in Bounds(h) /\ Len(h) \in Bounds(h)
  BY DEF Bounds, Checkpoints
<1>4. Search(h, t) = g[<<0, Len(h)>>]
  BY <1>2, SearchIsHalves, Zenon
<1>5. g[<<0, Len(h)>>] = Clip(c, <<0, Len(h)>>)
  BY <1>1, <1>2, <1>3, HalvesClips
<1>6. Clip(c, <<0, Len(h)>>) = c
  BY <1>3 DEF Clip, Bounds, Checkpoints
<1> QED BY <1>1, <1>4, <1>5, <1>6

LEMMA EndUnique ==
  ASSUME NEW h \in Checkpoints, NEW t, NEW c, NEW d, Ends(c, h, t), Ends(d, h, t)
  PROVE  c = d
<1>1. Len(h) \in Nat /\ c \in 0 .. Len(h) /\ d \in 0 .. Len(h)
  BY CheckpointTypes DEF Ends, Bounds
<1>2. CASE c < d
  <2>1. d \in 1 .. Len(h) /\ d <= d
    BY <1>1, <1>2
  <2>2. h[d].at <= t
    BY <2>1 DEF Ends
  <2>3. d <= c
    BY <2>1, <2>2 DEF Ends
  <2> QED BY <1>1, <1>2, <2>3
<1>3. CASE d < c
  <2>1. c \in 1 .. Len(h) /\ c <= c
    BY <1>1, <1>3
  <2>2. h[c].at <= t
    BY <2>1 DEF Ends
  <2>3. c <= d
    BY <2>1, <2>2 DEF Ends
  <2> QED BY <1>1, <1>3, <2>3
<1> QED BY <1>1, <1>2, <1>3

LEMMA ValueAtEnd ==
  ASSUME NEW h \in Checkpoints, NEW t \in Nat, NEW last, Ordered(h, last), NEW c, Ends(c, h, t)
  PROVE  ValueAt(h, t) = (IF c = 0 THEN 0 ELSE h[c].value) /\ ValueAt(h, t) \in Nat
<1>1. Search(h, t) = c
  BY SearchFindsTheEnd, EndUnique
<1>2. c = 0 \/ c \in 1 .. Len(h)
  BY CheckpointTypes DEF Ends, Bounds
<1>3. \A i \in 1 .. Len(h) : h[i].value \in Nat
  BY CheckpointTypes
<1>4. ValueAt(h, t) = IF c = 0 THEN 0 ELSE h[c].value
  BY <1>1 DEF ValueAt
<1> QED BY <1>2, <1>3, <1>4

LEMMA ValueType ==
  ASSUME NEW h \in Checkpoints, NEW t \in Nat, NEW last, Ordered(h, last)
  PROVE  ValueAt(h, t) \in Nat
BY SearchFindsTheEnd, ValueAtEnd

(* No checkpoint is later than last: from there on the value stands.       *)
LEMMA ValueStands ==
  ASSUME NEW h \in Checkpoints, NEW last \in Nat, Ordered(h, last), NEW t \in Nat, t >= last
  PROVE  /\ Ends(Len(h), h, t)
         /\ ValueAt(h, t) = IF Len(h) = 0 THEN 0 ELSE h[Len(h)].value
<1>1. Len(h) \in Nat /\ \A i \in 1 .. Len(h) : h[i].at \in Nat
  BY CheckpointTypes
<1>2. \A i \in 1 .. Len(h) : h[i].at <= t /\ i <= Len(h)
  BY <1>1 DEF Ordered
<1>3. Ends(Len(h), h, t)
  BY <1>1, <1>2 DEF Ends, Bounds
<1> QED BY <1>3, ValueAtEnd

(* A checkpoint of value v in second last: it overwrites one of the same   *)
(* second, or comes after all others.                                      *)
Written(k, h, last, v) ==
  \/ /\ Len(h) # 0 /\ h[Len(h)].at = last
     /\ k = [h EXCEPT ![Len(h)] = [at |-> last, value |-> v]]
  \/ /\ ~ (Len(h) # 0 /\ h[Len(h)].at = last)
     /\ k = Append(h, [at |-> last, value |-> v])

LEMMA CheckpointWrites ==
  ASSUME NEW h \in Checkpoints, NEW v
  PROVE  Written(Checkpoint(h, v), h, now, v)
<1>1. h # <<>> <=> Len(h) # 0
  BY DEF Checkpoints
<1> QED BY <1>1 DEF Written, Checkpoint

LEMMA WrittenShape ==
  ASSUME NEW h \in Checkpoints, NEW last \in Nat, Ordered(h, last), NEW v \in Nat, NEW k,
         Written(k, h, last, v)
  PROVE  /\ k \in Checkpoints /\ Len(k) \in Nat /\ Len(k) # 0
         /\ Len(k) \in {Len(h), Len(h) + 1}
         /\ k[Len(k)] = [at |-> last, value |-> v]
         /\ \A i \in 1 .. Len(k) - 1 : i \in 1 .. Len(h) /\ k[i] = h[i] /\ h[i].at < last
         /\ \A i \in 1 .. Len(h) : i \notin 1 .. Len(k) - 1 => h[i].at = last
<1> DEFINE R == [at : Nat, value : Nat]
           e == [at |-> last, value |-> v]
<1>1. h \in Seq(R) /\ e \in R /\ Len(h) \in Nat
  BY CheckpointTypes DEF Checkpoints
<1>2. \A i \in 1 .. Len(h) : h[i].at \in Nat
  BY CheckpointTypes
<1> HIDE DEF R, e
<1>3. CASE Len(h) # 0 /\ h[Len(h)].at = last
  <2>1. k = [h EXCEPT ![Len(h)] = e]
    BY <1>3 DEF Written, e
  <2>2. Len(h) \in 1 .. Len(h)
    BY <1>1, <1>3
  <2>3. k \in Seq(R) /\ Len(k) = Len(h)
    BY <1>1, <2>1, <2>2
  <2>4. k[Len(h)] = e /\ \A i \in 1 .. Len(h) - 1 : k[i] = h[i]
    BY <1>1, <2>1, <2>2
  <2>5. \A i \in 1 .. Len(h) - 1 : h[i].at < last
    BY <1>1, <1>3, <2>2 DEF Ordered
  <2>6. \A i \in 1 .. Len(h) : i \notin 1 .. Len(h) - 1 => h[i].at = last
    <3>1. \A i \in 1 .. Len(h) : i \notin 1 .. Len(h) - 1 => i = Len(h)
      BY <1>1
    <3> QED BY <1>3, <3>1
  <2>7. \A i \in 1 .. Len(h) - 1 : i \in 1 .. Len(h)
    BY <1>1
  <2> QED BY <1>1, <1>3, <2>3, <2>4, <2>5, <2>6, <2>7 DEF e, Checkpoints, R
<1>4. CASE ~ (Len(h) # 0 /\ h[Len(h)].at = last)
  <2>1. k = Append(h, e)
    BY <1>4 DEF Written, e
  <2>2. k \in Seq(R) /\ Len(k) = Len(h) + 1
    BY <1>1, <2>1
  <2>3. k[Len(h) + 1] = e /\ \A i \in 1 .. Len(h) : k[i] = h[i]
    BY <1>1, <2>1
  <2>4. ASSUME NEW i \in 1 .. Len(h) PROVE h[i].at < last
    <3>1. CASE i = Len(h)
      BY <1>1, <1>2, <1>4, <3>1 DEF Ordered
    <3>2. CASE i # Len(h)
      <4>1. Len(h) \in 1 .. Len(h) /\ i < Len(h)
        BY <1>1, <3>2
      <4>2. h[i].at < h[Len(h)].at /\ h[Len(h)].at <= last
        BY <4>1 DEF Ordered
      <4> QED BY <1>2, <4>1, <4>2
    <3> QED BY <3>1, <3>2
  <2>5. (Len(h) + 1) - 1 = Len(h)
    BY <1>1
  <2> QED BY <1>1, <2>2, <2>3, <2>4, <2>5 DEF e, Checkpoints, R
<1> QED BY <1>3, <1>4

(* A balance written in the second last changes the value at no second      *)
(* before, and is the value from then on.                                  *)
LEMMA WrittenValues ==
  ASSUME NEW h \in Checkpoints, NEW last \in Nat, Ordered(h, last), NEW v \in Nat, NEW k,
         Written(k, h, last, v)
  PROVE  /\ k \in Checkpoints /\ Ordered(k, last)
         /\ \A t \in Nat : t < last => ValueAt(k, t) = ValueAt(h, t)
         /\ \A t \in Nat : t >= last => ValueAt(k, t) = v
<1>1. /\ k \in Checkpoints /\ Len(k) \in Nat /\ Len(k) # 0 /\ Len(h) \in Nat
      /\ k[Len(k)] = [at |-> last, value |-> v]
      /\ \A i \in 1 .. Len(k) - 1 : i \in 1 .. Len(h) /\ k[i] = h[i] /\ h[i].at < last
      /\ \A i \in 1 .. Len(h) : i \notin 1 .. Len(k) - 1 => h[i].at = last
  BY WrittenShape, CheckpointTypes
<1>2. /\ \A i \in 1 .. Len(h) : h[i].at \in Nat
      /\ \A i \in 1 .. Len(k) : k[i].at \in Nat
  BY <1>1, CheckpointTypes
<1>3. k[Len(k)].at = last /\ k[Len(k)].value = v
  BY <1>1
<1>4. Ordered(k, last)
  <2>1. ASSUME NEW i \in 1 .. Len(k) PROVE k[i].at <= last /\ (i # Len(k) => k[i].at < last)
    <3>1. k[i].at \in Nat
      BY <1>2
    <3>2. CASE i = Len(k)
      BY <1>3, <3>2
    <3>3. CASE i # Len(k)
      <4>1. i \in 1 .. Len(k) - 1
        BY ONLY <1>1, <2>1, <3>3
      <4>2. k[i] = h[i] /\ h[i].at < last
        BY ONLY <1>1, <4>1
      <4>3. k[i].at < last
        BY ONLY <4>2
      <4> QED BY <3>1, <3>3, <4>3
    <3> QED BY <3>2, <3>3
  <2>2. ASSUME NEW i \in 1 .. Len(k), NEW j \in 1 .. Len(k), i < j
        PROVE  k[i].at < k[j].at
    <3>1. i \in 1 .. Len(k) - 1
      BY <1>1, <2>2
    <3>2. CASE j = Len(k)
      BY <1>3, <2>1, <3>1, <3>2, <1>1
    <3>3. CASE j # Len(k)
      <4>1. j \in 1 .. Len(k) - 1
        BY <1>1, <3>3
      <4>2. k[i] = h[i] /\ k[j] = h[j] /\ i \in 1 .. Len(h) /\ j \in 1 .. Len(h)
        BY <1>1, <3>1, <4>1
      <4> QED BY <2>2, <4>2 DEF Ordered
    <3> QED BY <3>2, <3>3
  <2> QED BY <2>1, <2>2 DEF Ordered
<1>5. ASSUME NEW t \in Nat, t < last PROVE ValueAt(k, t) = ValueAt(h, t)
  <2>1. PICK c : Ends(c, k, t)
    BY <1>1, <1>4, SearchFindsTheEnd
  <2>2. c \in 0 .. Len(k) /\ \A i \in 1 .. Len(k) : i <= c <=> k[i].at <= t
    BY <2>1 DEF Ends, Bounds
  <2>3. c # Len(k)
    <3>1. Len(k) \in 1 .. Len(k) /\ Len(k) <= Len(k) /\ ~ (last <= t)
      BY <1>1, <1>5
    <3> QED BY <1>3, <2>2, <3>1
  <2>4. c \in 0 .. Len(k) - 1 /\ c \in 0 .. Len(h)
    <3>1. c \in 0 .. Len(k) - 1
      BY <1>1, <2>2, <2>3
    <3>2. c = 0 \/ c \in 1 .. Len(k) - 1
      BY <1>1, <3>1
    <3> QED BY <1>1, <3>1, <3>2
  <2>5. ASSUME NEW i \in 1 .. Len(h) PROVE i <= c <=> h[i].at <= t
    <3>1. CASE i \in 1 .. Len(k) - 1
      <4>1. i \in 1 .. Len(k) /\ k[i] = h[i]
        BY <1>1, <3>1
      <4> QED BY <2>2, <4>1
    <3>2. CASE i \notin 1 .. Len(k) - 1
      <4>1. h[i].at = last
        BY <1>1, <3>2
      <4>2. ~ (i <= c)
        BY <1>1, <2>4, <3>2
      <4> QED BY <1>5, <4>1, <4>2
    <3> QED BY <3>1, <3>2
  <2>6. Ends(c, h, t)
    BY <2>4, <2>5 DEF Ends, Bounds
  <2>7. /\ ValueAt(k, t) = IF c = 0 THEN 0 ELSE k[c].value
        /\ ValueAt(h, t) = IF c = 0 THEN 0 ELSE h[c].value
    BY <1>1, <1>4, <2>1, <2>6, ValueAtEnd
  <2>8. c # 0 => k[c] = h[c]
    <3>1. c # 0 => c \in 1 .. Len(k) - 1
      BY <1>1, <2>4
    <3> QED BY <1>1, <3>1
  <2> QED BY <2>7, <2>8
<1>6. ASSUME NEW t \in Nat, t >= last PROVE ValueAt(k, t) = v
  BY <1>1, <1>3, <1>4, <1>6, ValueStands
<1> QED BY <1>1, <1>4, <1>5, <1>6

-----------------------------------------------------------------------------
(* The register: balances, supply and their histories                      *)

RegisterType ==
  /\ now \in Nat
  /\ balanceOf \in [Accounts -> Nat] /\ totalSupply \in Nat
  /\ balanceHistory \in [Accounts -> Checkpoints] /\ supplyHistory \in Checkpoints

InTime ==
  /\ \A a \in Accounts : Ordered(balanceHistory[a], now)
  /\ Ordered(supplyHistory, now)

Pages == RegisterType /\ InTime /\ SnapshotsAddUp

(* What stood at the end of a second that has passed still stands.         *)
PastKept ==
  \A t \in Nat : t < now =>
     /\ TotalSupplyAt(t)' = TotalSupplyAt(t)
     /\ \A a \in Accounts : BalanceOfAt(a, t)' = BalanceOfAt(a, t)

Rewritten(k, h, v, old) == (k = h /\ v = old) \/ Written(k, h, now, v)

LEMMA RewrittenValues ==
  ASSUME now \in Nat, NEW h \in Checkpoints, Ordered(h, now), NEW v \in Nat, NEW k, NEW old,
         Rewritten(k, h, v, old), ValueAt(h, now) = old
  PROVE  /\ k \in Checkpoints /\ Ordered(k, now)
         /\ \A t \in Nat : t < now => ValueAt(k, t) = ValueAt(h, t)
         /\ ValueAt(k, now) = v
<1>1. CASE k = h /\ v = old
  BY <1>1
<1>2. CASE Written(k, h, now, v)
  <2>1. now >= now
    OBVIOUS
  <2> QED BY <1>2, <2>1, WrittenValues
<1> QED BY <1>1, <1>2 DEF Rewritten

(* However the balances changed: if each change was checkpointed and the   *)
(* supply still is their sum, the histories go on adding up.               *)
LEMMA PagesStep ==
  ASSUME Pages, now' = now,
         balanceOf' \in [Accounts -> Nat], totalSupply' \in Nat,
         totalSupply' = SumFunctionOnSet(balanceOf', Accounts),
         balanceHistory' = [a \in Accounts |-> balanceHistory'[a]],
         \A a \in Accounts :
            Rewritten(balanceHistory'[a], balanceHistory[a], balanceOf'[a], balanceOf[a]),
         Rewritten(supplyHistory', supplyHistory, totalSupply', totalSupply)
  PROVE  Pages' /\ PastKept
<1>1. /\ RegisterType /\ InTime /\ SnapshotsAddUp
      /\ \A a \in Accounts : /\ balanceHistory[a] \in Checkpoints /\ Ordered(balanceHistory[a], now)
                             /\ balanceOf'[a] \in Nat
                             /\ ValueAt(balanceHistory[a], now) = balanceOf[a]
      /\ supplyHistory \in Checkpoints /\ Ordered(supplyHistory, now) /\ now \in Nat
      /\ ValueAt(supplyHistory, now) = totalSupply
  BY DEF Pages, RegisterType, InTime, SnapshotsAddUp, BalanceOfAt, TotalSupplyAt
<1>2. ASSUME NEW a \in Accounts
      PROVE  /\ balanceHistory'[a] \in Checkpoints /\ Ordered(balanceHistory'[a], now)
             /\ \A t \in Nat : t < now => ValueAt(balanceHistory'[a], t) = ValueAt(balanceHistory[a], t)
             /\ ValueAt(balanceHistory'[a], now) = balanceOf'[a]
  <2>1. PICK k : k = balanceHistory'[a]
    OBVIOUS
  <2>2. PICK h \in Checkpoints : h = balanceHistory[a]
    BY <1>1
  <2>3. PICK v \in Nat : v = balanceOf'[a]
    BY <1>1
  <2>4. /\ k \in Checkpoints /\ Ordered(k, now)
        /\ \A t \in Nat : t < now => ValueAt(k, t) = ValueAt(h, t)
        /\ ValueAt(k, now) = v
    BY <1>1, <2>1, <2>2, <2>3, RewrittenValues
  <2> QED BY <2>1, <2>2, <2>3, <2>4
<1>3. /\ supplyHistory' \in Checkpoints /\ Ordered(supplyHistory', now)
      /\ \A t \in Nat : t < now => ValueAt(supplyHistory', t) = ValueAt(supplyHistory, t)
      /\ ValueAt(supplyHistory', now) = totalSupply'
  <2>1. PICK k : k = supplyHistory'
    OBVIOUS
  <2>2. PICK v \in Nat : v = totalSupply'
    OBVIOUS
  <2>3. /\ k \in Checkpoints /\ Ordered(k, now)
        /\ \A t \in Nat : t < now => ValueAt(k, t) = ValueAt(supplyHistory, t)
        /\ ValueAt(k, now) = v
    BY <1>1, <2>1, <2>2, RewrittenValues
  <2> QED BY <2>1, <2>2, <2>3
<1>4. RegisterType'
  <2>1. balanceHistory' \in [Accounts -> Checkpoints]
    BY <1>2
  <2> QED BY <1>1, <1>3, <2>1 DEF RegisterType
<1>5. InTime'
  BY <1>2, <1>3 DEF InTime
<1>6. PastKept
  BY <1>2, <1>3 DEF PastKept, TotalSupplyAt, BalanceOfAt
<1>7. SnapshotsAddUp'
  <2>1. ASSUME NEW t \in 0 .. now
        PROVE  ValueAt(supplyHistory', t)
                 = SumFunctionOnSet([a \in Accounts |-> ValueAt(balanceHistory'[a], t)], Accounts)
    <3>1. CASE t = now
      <4>1. [a \in Accounts |-> ValueAt(balanceHistory'[a], t)] = balanceOf'
        BY <1>2, <3>1
      <4> QED BY <1>3, <3>1, <4>1
    <3>2. CASE t # now
      <4>1. t \in Nat /\ t < now
        BY <1>1, <3>2
      <4>2. [a \in Accounts |-> ValueAt(balanceHistory'[a], t)]
              = [a \in Accounts |-> ValueAt(balanceHistory[a], t)]
        BY <1>2, <4>1
      <4>3. ValueAt(supplyHistory, t)
              = SumFunctionOnSet([a \in Accounts |-> ValueAt(balanceHistory[a], t)], Accounts)
        BY <1>1 DEF SnapshotsAddUp, TotalSupplyAt, BalanceOfAt
      <4> QED BY <1>3, <4>1, <4>2, <4>3
    <3> QED BY <3>1, <3>2
  <2> QED BY <1>2, <1>3, <2>1 DEF SnapshotsAddUp, TotalSupplyAt, BalanceOfAt
<1> QED BY <1>4, <1>5, <1>6, <1>7 DEF Pages

(* A second checkpoint of the same value in the same second changes nothing. *)
LEMMA WrittenTwice ==
  ASSUME NEW h \in Checkpoints, now \in Nat, Ordered(h, now), NEW v \in Nat, NEW k,
         Written(k, h, now, v)
  PROVE  Checkpoint(k, v) = k
<1> DEFINE e == [at |-> now, value |-> v]
           R == [at : Nat, value : Nat]
<1>1. k \in Checkpoints /\ Len(k) \in Nat /\ Len(k) # 0 /\ k[Len(k)] = e
  BY WrittenShape
<1>2. k \in Seq(R) /\ k # <<>> /\ k[Len(k)].at = now
  BY <1>1 DEF Checkpoints
<1>3. Checkpoint(k, v) = [k EXCEPT ![Len(k)] = e]
  BY <1>2 DEF Checkpoint
<1> HIDE DEF e, R
<1>4. [k EXCEPT ![Len(k)] = e] = k
  BY <1>1, <1>2
<1> QED BY <1>3, <1>4

LEMMA CheckpointRewrites ==
  ASSUME NEW h \in Checkpoints, NEW v, NEW old
  PROVE  Rewritten(Checkpoint(h, v), h, v, old)
BY CheckpointWrites DEF Rewritten

LEMMA SupplyIsSum ==
  ASSUME Pages
  PROVE  /\ totalSupply = SumFunctionOnSet(balanceOf, Accounts)
         /\ \A a \in Accounts : balanceOf[a] \in Int
<1>1. now \in 0 .. now /\ balanceOf \in [Accounts -> Nat]
  BY DEF Pages, RegisterType
<1>2. [a \in Accounts |-> BalanceOfAt(a, now)] = balanceOf
  BY <1>1 DEF Pages, SnapshotsAddUp
<1> QED BY <1>1, <1>2 DEF Pages, SnapshotsAddUp

LEMMA AccountsFinite == IsFiniteSet(Accounts)
BY SharesAssumption

LEMMA IssuePages ==
  ASSUME Pages, NEW holder \in Accounts, NEW value \in Nat, Issue(holder, value)
  PROVE  Pages' /\ PastKept
<1>1. /\ balanceOf \in [Accounts -> Nat] /\ totalSupply \in Nat
      /\ balanceHistory \in [Accounts -> Checkpoints] /\ supplyHistory \in Checkpoints
  BY DEF Pages, RegisterType
<1>2. /\ balanceOf' = [balanceOf EXCEPT ![holder] = balanceOf[holder] + value]
      /\ totalSupply' = totalSupply + value
      /\ balanceHistory' = [balanceHistory EXCEPT ![holder] =
                              Checkpoint(balanceHistory[holder], balanceOf'[holder])]
      /\ supplyHistory' = Checkpoint(supplyHistory, totalSupply')
      /\ now' = now
  BY DEF Issue
<1>3. balanceOf' \in [Accounts -> Nat] /\ totalSupply' \in Nat
  BY <1>1, <1>2
<1>4. totalSupply' = SumFunctionOnSet(balanceOf', Accounts)
  <2>1. totalSupply = SumFunctionOnSet(balanceOf, Accounts)
    BY SupplyIsSum
  <2>2. \A a \in Accounts : balanceOf[a] \in Int /\ balanceOf'[a] \in Int
    BY <1>1, <1>3
  <2>3. \A a \in Accounts \ {holder} : balanceOf'[a] = balanceOf[a]
    BY <1>1, <1>2
  <2>4. SumFunctionOnSet(balanceOf', Accounts)
          = SumFunctionOnSet(balanceOf, Accounts) + (balanceOf'[holder] - balanceOf[holder])
    BY ONLY <2>2, <2>3, SumChange, AccountsFinite, holder \in Accounts
  <2>5. balanceOf'[holder] = balanceOf[holder] + value /\ balanceOf[holder] \in Nat
    BY <1>1, <1>2
  <2> QED BY <1>1, <1>2, <2>1, <2>4, <2>5
<1>5. balanceHistory' = [a \in Accounts |-> balanceHistory'[a]]
  BY <1>1, <1>2
<1>6. ASSUME NEW a \in Accounts
      PROVE  Rewritten(balanceHistory'[a], balanceHistory[a], balanceOf'[a], balanceOf[a])
  <2>1. CASE a = holder
    <3>1. balanceHistory'[a] = Checkpoint(balanceHistory[a], balanceOf'[a])
      BY <1>1, <1>2, <2>1
    <3> QED BY <1>1, <3>1, CheckpointRewrites
  <2>2. CASE a # holder
    <3>1. balanceHistory'[a] = balanceHistory[a] /\ balanceOf'[a] = balanceOf[a]
      BY <1>1, <1>2, <2>2
    <3> QED BY <3>1 DEF Rewritten
  <2> QED BY <2>1, <2>2
<1>7. Rewritten(supplyHistory', supplyHistory, totalSupply', totalSupply)
  BY <1>1, <1>2, CheckpointRewrites
<1> QED BY <1>2, <1>3, <1>4, <1>5, <1>6, <1>7, PagesStep

(* The two checkpoints of a transfer, the second on top of the first when   *)
(* an account pays itself.                                                  *)
LEMMA MovePages ==
  ASSUME Pages, NEW from \in Accounts, NEW to \in Accounts, NEW value \in Nat,
         Move(from, to, value)
  PROVE  Pages' /\ PastKept
<1>1. /\ balanceOf \in [Accounts -> Nat] /\ totalSupply \in Nat /\ now \in Nat
      /\ balanceHistory \in [Accounts -> Checkpoints] /\ supplyHistory \in Checkpoints
      /\ \A a \in Accounts : Ordered(balanceHistory[a], now)
  BY DEF Pages, RegisterType, InTime
<1>2. /\ value <= balanceOf[from]
      /\ balanceOf' = [[balanceOf EXCEPT ![from] = @ - value] EXCEPT ![to] = @ + value]
      /\ balanceHistory' = [[balanceHistory EXCEPT ![from] = Checkpoint(@, balanceOf'[from])]
                              EXCEPT ![to] = Checkpoint(@, balanceOf'[to])]
      /\ UNCHANGED <<now, totalSupply, supplyHistory>>
  BY DEF Move
<1>3. balanceOf[from] \in Nat /\ balanceOf[to] \in Nat /\ balanceOf[from] - value \in Nat
  BY <1>1, <1>2
<1>4. PICK paid \in [Accounts -> Nat] : paid = [balanceOf EXCEPT ![from] = @ - value]
  BY <1>1, <1>3
<1>5. balanceOf' = [paid EXCEPT ![to] = paid[to] + value] /\ balanceOf' \in [Accounts -> Nat]
  <2>1. balanceOf' = [paid EXCEPT ![to] = @ + value]
    BY <1>2, <1>4
  <2>2. paid[to] + value \in Nat
    BY <1>4
  <2> QED BY <1>4, <2>1, <2>2
<1>6. totalSupply' = SumFunctionOnSet(balanceOf', Accounts) /\ totalSupply' \in Nat
  <2>1. totalSupply = SumFunctionOnSet(balanceOf, Accounts) /\ totalSupply' = totalSupply
    BY <1>2, SupplyIsSum
  <2>2. \A a \in Accounts : balanceOf[a] \in Int /\ paid[a] \in Int /\ balanceOf'[a] \in Int
    BY <1>1, <1>4, <1>5
  <2>3. \A a \in Accounts \ {from} : paid[a] = balanceOf[a]
    BY <1>1, <1>4
  <2>4. \A a \in Accounts \ {to} : balanceOf'[a] = paid[a]
    BY <1>5
  <2>5. SumFunctionOnSet(paid, Accounts)
          = SumFunctionOnSet(balanceOf, Accounts) + (paid[from] - balanceOf[from])
    <3>1. PICK old : old = balanceOf
      OBVIOUS
    <3>2. /\ \A a \in Accounts : old[a] \in Int /\ paid[a] \in Int
          /\ \A a \in Accounts \ {from} : paid[a] = old[a]
      BY <2>2, <2>3, <3>1
    <3>3. SumFunctionOnSet(paid, Accounts) = SumFunctionOnSet(old, Accounts) + (paid[from] - old[from])
      BY ONLY <3>2, SumChange, AccountsFinite, from \in Accounts
    <3> QED BY <3>1, <3>3
  <2>6. SumFunctionOnSet(balanceOf', Accounts)
          = SumFunctionOnSet(paid, Accounts) + (balanceOf'[to] - paid[to])
    <3>1. PICK new : new = balanceOf'
      OBVIOUS
    <3>2. /\ \A a \in Accounts : paid[a] \in Int /\ new[a] \in Int
          /\ \A a \in Accounts \ {to} : new[a] = paid[a]
      BY <2>2, <2>4, <3>1
    <3>3. SumFunctionOnSet(new, Accounts) = SumFunctionOnSet(paid, Accounts) + (new[to] - paid[to])
      BY ONLY <3>2, SumChange, AccountsFinite, to \in Accounts
    <3> QED BY <3>1, <3>3
  <2>7. paid[from] = balanceOf[from] - value /\ balanceOf'[to] = paid[to] + value /\ paid[to] \in Nat
    BY <1>1, <1>4, <1>5
  <2> QED BY <1>1, <1>3, <2>1, <2>5, <2>6, <2>7
<1>7. /\ balanceHistory' = [a \in Accounts |-> balanceHistory'[a]]
      /\ \A a \in Accounts : a \notin {from, to} => /\ balanceHistory'[a] = balanceHistory[a]
                                                    /\ balanceOf'[a] = balanceOf[a]
      /\ from # to => /\ balanceHistory'[from] = Checkpoint(balanceHistory[from], balanceOf'[from])
                      /\ balanceHistory'[to] = Checkpoint(balanceHistory[to], balanceOf'[to])
      /\ from = to => balanceHistory'[to] =
                        Checkpoint(Checkpoint(balanceHistory[to], balanceOf'[to]), balanceOf'[to])
  <2>1. balanceHistory' = [a \in Accounts |-> balanceHistory'[a]]
    BY <1>1, <1>2
  <2>2. PICK u, w : u = balanceOf'[from] /\ w = balanceOf'[to]
    OBVIOUS
  <2>3. PICK noted \in [Accounts -> Checkpoints \cup {Checkpoint(balanceHistory[from], u)}] :
           noted = [balanceHistory EXCEPT ![from] = Checkpoint(@, u)]
    BY <1>1
  <2>4. balanceHistory' = [noted EXCEPT ![to] = Checkpoint(@, w)]
    BY <1>2, <2>2, <2>3
  <2>5. \A a \in Accounts : a \notin {from, to} => /\ balanceHistory'[a] = balanceHistory[a]
                                                    /\ balanceOf'[a] = balanceOf[a]
    BY <1>1, <1>4, <1>5, <2>3, <2>4
  <2>6. from # to => /\ balanceHistory'[from] = Checkpoint(balanceHistory[from], u)
                     /\ balanceHistory'[to] = Checkpoint(balanceHistory[to], w)
    BY <1>1, <2>3, <2>4
  <2>7. ASSUME from = to
        PROVE  u = w /\ balanceHistory'[to] = Checkpoint(Checkpoint(balanceHistory[to], w), w)
    <3>1. u = w
      BY <2>2, <2>7
    <3>2. noted[to] = Checkpoint(balanceHistory[to], w)
      BY <1>1, <2>3, <2>7, <3>1
    <3> QED BY <2>3, <2>4, <3>1, <3>2
  <2> QED BY <2>1, <2>2, <2>5, <2>6, <2>7
<1>8. ASSUME NEW a \in Accounts
      PROVE  Rewritten(balanceHistory'[a], balanceHistory[a], balanceOf'[a], balanceOf[a])
  <2>1. PICK h \in Checkpoints : h = balanceHistory[a] /\ Ordered(h, now)
    BY <1>1
  <2>2. PICK v \in Nat : v = balanceOf'[a]
    BY <1>5
  <2>3. CASE a \notin {from, to}
    BY <1>7, <2>3 DEF Rewritten
  <2>4. CASE a \in {from, to} /\ from # to
    <3>1. balanceHistory'[a] = Checkpoint(h, v)
      BY <1>7, <2>1, <2>2, <2>4
    <3> QED BY <2>1, <2>2, <3>1, CheckpointRewrites
  <2>5. CASE a \in {from, to} /\ from = to
    <3>1. PICK k : k = Checkpoint(h, v)
      OBVIOUS
    <3>2. balanceHistory'[a] = Checkpoint(k, v)
      BY <1>7, <2>1, <2>2, <2>5, <3>1
    <3>3. Written(k, h, now, v)
      BY <3>1, CheckpointWrites
    <3>4. balanceHistory'[a] = k
      BY <1>1, <2>1, <3>2, <3>3, WrittenTwice
    <3> QED BY <2>1, <2>2, <3>3, <3>4 DEF Rewritten
  <2> QED BY <2>3, <2>4, <2>5
<1>9. Rewritten(supplyHistory', supplyHistory, totalSupply', totalSupply)
  BY <1>2 DEF Rewritten
<1> QED BY <1>2, <1>5, <1>6, <1>7, <1>8, <1>9, PagesStep

-----------------------------------------------------------------------------
(* Dividends                                                               *)

(* Parts of an amount, each rounded down, never add up to more than it.    *)
LEMMA PartsFit ==
  ASSUME NEW S, IsFiniteSet(S), NEW f, \A x \in S : f[x] \in Nat,
         NEW total \in Nat \ {0}, total = SumFunctionOnSet(f, S), NEW amount \in Nat,
         NEW g, \A x \in S : g[x] = (amount * f[x]) \div total
  PROVE  /\ \A x \in S : g[x] \in Nat
         /\ SumFunctionOnSet(g, S) <= amount
<1> DEFINE whole == [x \in S |-> amount * f[x]]
           back == [x \in S |-> total * g[x]]
<1>1. ASSUME NEW x \in S
      PROVE  g[x] \in Nat /\ total * g[x] \in Int /\ amount * f[x] \in Int
             /\ total * g[x] <= amount * f[x]
  <2>1. PICK p \in Nat : p = amount * f[x]
    OBVIOUS
  <2>2. p \div total \in Nat /\ total * (p \div total) <= p /\ total * (p \div total) \in Int
    OBVIOUS
  <2> QED BY <2>1, <2>2
<1>2. SumFunctionOnSet(back, S) = total * SumFunctionOnSet(g, S)
  <2>1. \A x \in S : g[x] \in Int /\ back[x] = total * g[x]
    BY <1>1
  <2> HIDE DEF back
  <2> QED BY <2>1, SumScale
<1>3. SumFunctionOnSet(whole, S) = amount * total
  <2>1. \A x \in S : f[x] \in Int /\ whole[x] = amount * f[x]
    BY <1>1
  <2> HIDE DEF whole
  <2> QED BY <2>1, SumScale
<1>4. SumFunctionOnSet(back, S) <= SumFunctionOnSet(whole, S)
  <2>1. \A x \in S : back[x] \in Int /\ whole[x] \in Int /\ back[x] <= whole[x]
    BY <1>1
  <2> HIDE DEF back, whole
  <2> QED BY <2>1, SumMonotone
<1>5. PICK s \in Int : s = SumFunctionOnSet(g, S)
  BY <1>1, SumInt
<1>6. total * s <= amount * total
  BY <1>2, <1>3, <1>4, <1>5
<1>7. s <= amount
  <2>1. SUFFICES ASSUME s >= amount + 1 PROVE FALSE
    BY <1>5
  <2>2. total * s >= total * (amount + 1)
    BY <1>5, <2>1
  <2>3. total * (amount + 1) = amount * total + total
    OBVIOUS
  <2>4. amount * total \in Int /\ total * s \in Int /\ total * (amount + 1) \in Int
    BY <1>5
  <2> QED BY <1>6, <2>2, <2>3, <2>4
<1> QED BY <1>1, <1>5, <1>7

DividendsType ==
  /\ dividends \in Seq(Dividend) /\ Len(dividends) <= MaxDividends
  /\ claimedBy \in [DividendIds -> SUBSET Accounts]
  /\ usdc \in [Accounts \cup {Issuer, Self} -> Nat]

SupplyFor(id) == TotalSupplyAt(dividends[id].recordDate)

(* Nothing is claimed before the record date has passed; a dividend nobody *)
(* held a share for is whole or taken back whole, and only such a one is   *)
(* ever taken back.                                                        *)
Standing(id) ==
  /\ dividends[id].amount # 0
  /\ dividends[id].claimed <= dividends[id].amount
  /\ ~ Reached(id) => dividends[id].claimed = 0 /\ claimedBy[id] = {}
  /\ Reached(id) /\ SupplyFor(id) = 0 => claimedBy[id] = {}
  /\ claimedBy[id] = {} /\ dividends[id].claimed # 0 =>
        Reached(id) /\ SupplyFor(id) = 0 /\ dividends[id].claimed = dividends[id].amount

Covered(id) ==
  SumFunctionOnSet(Unclaimed(id), Accounts) <= dividends[id].amount - dividends[id].claimed

Sound(id) == Standing(id) /\ Covered(id)

Rest == [id \in DOMAIN dividends |-> dividends[id].amount - dividends[id].claimed]

Funds ==
  /\ DividendsType
  /\ \A id \in DOMAIN dividends : Sound(id)
  /\ \A id \in DividendIds : id \notin DOMAIN dividends => claimedBy[id] = {}
  /\ usdc[Self] = SumFunctionOnSet(Rest, DOMAIN dividends)

LEMMA DividendTypes ==
  ASSUME DividendsType
  PROVE  /\ Len(dividends) \in Nat /\ DOMAIN dividends = 1 .. Len(dividends)
         /\ DOMAIN dividends \subseteq DividendIds /\ IsFiniteSet(DOMAIN dividends)
         /\ \A id \in DOMAIN dividends :
              /\ dividends[id] \in Dividend
              /\ dividends[id].recordDate \in Nat /\ dividends[id].executionDate \in Nat
              /\ dividends[id].amount \in Nat /\ dividends[id].claimed \in Nat
              /\ claimedBy[id] \subseteq Accounts
<1>1. dividends \in Seq(Dividend) /\ Len(dividends) <= MaxDividends /\ MaxDividends \in Nat
  BY SharesAssumption DEF DividendsType
<1>2. \A d \in Dividend : /\ d.recordDate \in Nat /\ d.executionDate \in Nat
                          /\ d.amount \in Nat /\ d.claimed \in Nat
  BY DEF Dividend
<1>3. /\ Len(dividends) \in Nat /\ DOMAIN dividends = 1 .. Len(dividends)
      /\ \A id \in 1 .. Len(dividends) : dividends[id] \in Dividend
  BY <1>1
<1>4. \A id \in 1 .. Len(dividends) : id \in DividendIds
  BY <1>1, <1>3 DEF DividendIds
<1>5. IsFiniteSet(1 .. Len(dividends))
  BY <1>3, FS_Interval
<1> QED BY <1>2, <1>3, <1>4, <1>5 DEF DividendsType

LEMMA PageTypes ==
  ASSUME Pages, NEW t \in Nat
  PROVE  TotalSupplyAt(t) \in Nat /\ \A a \in Accounts : BalanceOfAt(a, t) \in Nat
<1>1. /\ supplyHistory \in Checkpoints /\ Ordered(supplyHistory, now)
      /\ \A a \in Accounts : balanceHistory[a] \in Checkpoints /\ Ordered(balanceHistory[a], now)
  BY DEF Pages, RegisterType, InTime
<1> QED BY <1>1, ValueType DEF TotalSupplyAt, BalanceOfAt

LEMMA OwedType ==
  ASSUME Pages, DividendsType, NEW id \in DOMAIN dividends, NEW a \in Accounts
  PROVE  Owed(id, a) \in Nat /\ Unclaimed(id)[a] \in Nat
<1>1. /\ dividends[id].recordDate \in Nat /\ dividends[id].amount \in Nat
  BY DividendTypes
<1>2. PICK supply \in Nat, held \in Nat, amount \in Nat :
        /\ supply = TotalSupplyAt(dividends[id].recordDate)
        /\ held = BalanceOfAt(a, dividends[id].recordDate)
        /\ amount = dividends[id].amount
  BY <1>1, PageTypes
<1>3. amount * held \in Nat
  OBVIOUS
<1>4. supply # 0 => (amount * held) \div supply \in Nat
  BY <1>3
<1>5. Owed(id, a) \in Nat
  BY <1>2, <1>4 DEF Owed
<1> QED BY <1>5 DEF Unclaimed

(* While the second lasts, what a dividend owes depends on nothing that    *)
(* this second's transactions write.                                       *)
LEMMA OwedKept ==
  ASSUME DividendsType, PastKept, now \in Nat, now' = now, NEW id \in DOMAIN dividends,
         dividends'[id].recordDate = dividends[id].recordDate,
         dividends'[id].amount = dividends[id].amount
  PROVE  /\ Reached(id)' <=> Reached(id)
         /\ Reached(id) => SupplyFor(id)' = SupplyFor(id)
         /\ \A a \in Accounts : Owed(id, a)' = Owed(id, a)
<1>1. PICK d \in Nat : d = dividends[id].recordDate
  BY DividendTypes
<1>2. Reached(id)' <=> Reached(id)
  BY DEF Reached
<1>3. Reached(id) => d < now
  BY <1>1 DEF Reached
<1>4. Reached(id) => /\ TotalSupplyAt(d)' = TotalSupplyAt(d)
                     /\ \A a \in Accounts : BalanceOfAt(a, d)' = BalanceOfAt(a, d)
  BY <1>3 DEF PastKept
<1>5. /\ TotalSupplyAt(dividends[id].recordDate)' = TotalSupplyAt(d)'
      /\ \A a \in Accounts : BalanceOfAt(a, dividends[id].recordDate)' = BalanceOfAt(a, d)'
  BY <1>1 DEF TotalSupplyAt, BalanceOfAt
<1>6. Reached(id) => SupplyFor(id)' = SupplyFor(id)
  BY <1>1, <1>4, <1>5 DEF SupplyFor
<1>7. ASSUME NEW a \in Accounts PROVE Owed(id, a)' = Owed(id, a)
  <2>1. CASE Reached(id)
    <3>1. /\ TotalSupplyAt(dividends[id].recordDate)' = TotalSupplyAt(dividends[id].recordDate)
          /\ BalanceOfAt(a, dividends[id].recordDate)' = BalanceOfAt(a, dividends[id].recordDate)
      BY <1>1, <1>4, <1>5, <2>1
    <3> QED BY <1>2, <2>1, <3>1 DEF Owed
  <2>2. CASE ~ Reached(id)
    BY <1>2, <2>2 DEF Owed
  <2> QED BY <2>1, <2>2
<1> QED BY <1>2, <1>6, <1>7

LEMMA SoundKept ==
  ASSUME DividendsType, PastKept, now \in Nat, now' = now, NEW id \in DOMAIN dividends, Sound(id),
         dividends'[id] = dividends[id], claimedBy'[id] = claimedBy[id]
  PROVE  Sound(id)'
<1>1. /\ Reached(id)' <=> Reached(id)
      /\ Reached(id) => SupplyFor(id)' = SupplyFor(id)
      /\ \A a \in Accounts : Owed(id, a)' = Owed(id, a)
  BY OwedKept
<1>2. Unclaimed(id)' = Unclaimed(id)
  BY <1>1 DEF Unclaimed
<1>3. Covered(id)'
  BY <1>2 DEF Sound, Covered
<1>4. Standing(id)'
  BY <1>1 DEF Sound, Standing
<1> QED BY <1>3, <1>4 DEF Sound

LEMMA FundsKept ==
  ASSUME Pages, Funds, PastKept, now' = now, UNCHANGED dividendVars
  PROVE  Funds'
<1>1. UNCHANGED <<dividends, claimedBy, usdc>> /\ now \in Nat
  BY DEF dividendVars, Pages, RegisterType
<1>2. DividendsType' /\ Rest' = Rest
  BY <1>1 DEF DividendsType, Funds, Rest
<1>3. ASSUME NEW id \in DOMAIN dividends' PROVE Sound(id)'
  <2>1. /\ id \in DOMAIN dividends /\ dividends'[id] = dividends[id] /\ claimedBy'[id] = claimedBy[id]
        /\ DividendsType /\ Sound(id)
    BY <1>1, <1>3 DEF Funds
  <2> QED BY <1>1, <2>1, SoundKept
<1> QED BY <1>1, <1>2, <1>3 DEF Funds

(* The clock alone: the second that ends is the newest page, and a dividend *)
(* recorded for it starts to owe, never more than its amount.               *)
LEMMA TickPages ==
  ASSUME Pages, Tick
  PROVE  Pages' /\ PastKept
<1>1. /\ now' = now + 1 /\ now \in Nat /\ now + 1 \in Nat
      /\ UNCHANGED <<balanceOf, totalSupply, balanceHistory, supplyHistory>>
      /\ RegisterType /\ InTime /\ SnapshotsAddUp
  BY DEF Tick, shareVars, Pages, RegisterType
<1>2. /\ supplyHistory \in Checkpoints /\ Ordered(supplyHistory, now)
      /\ \A a \in Accounts : balanceHistory[a] \in Checkpoints /\ Ordered(balanceHistory[a], now)
  BY <1>1 DEF RegisterType, InTime
<1>3. ASSUME NEW h \in Checkpoints, Ordered(h, now)
      PROVE  Ordered(h, now + 1) /\ ValueAt(h, now + 1) = ValueAt(h, now)
  <2>1. Ordered(h, now + 1)
    <3>1. Len(h) \in Nat /\ \A i \in 1 .. Len(h) : h[i].at \in Nat
      BY CheckpointTypes
    <3> QED BY <1>1, <1>3, <3>1 DEF Ordered
  <2>2. now + 1 >= now /\ now >= now
    BY <1>1
  <2>3. /\ ValueAt(h, now + 1) = IF Len(h) = 0 THEN 0 ELSE h[Len(h)].value
        /\ ValueAt(h, now) = IF Len(h) = 0 THEN 0 ELSE h[Len(h)].value
    BY <1>1, <1>3, <2>2, ValueStands
  <2> QED BY <2>1, <2>3
<1>4. RegisterType' /\ InTime'
  BY <1>1, <1>2, <1>3 DEF RegisterType, InTime
<1>5. \A t \in Nat : /\ TotalSupplyAt(t)' = TotalSupplyAt(t)
                     /\ \A a \in Accounts : BalanceOfAt(a, t)' = BalanceOfAt(a, t)
  BY <1>1 DEF TotalSupplyAt, BalanceOfAt
<1>6. /\ TotalSupplyAt(now + 1) = TotalSupplyAt(now)
      /\ \A a \in Accounts : BalanceOfAt(a, now + 1) = BalanceOfAt(a, now)
  BY <1>2, <1>3 DEF TotalSupplyAt, BalanceOfAt
<1>7. ASSUME NEW t \in Nat, t <= now + 1
      PROVE  TotalSupplyAt(t) = SumFunctionOnSet([a \in Accounts |-> BalanceOfAt(a, t)], Accounts)
  <2>1. CASE t <= now
    BY <1>1, <1>7, <2>1 DEF SnapshotsAddUp
  <2>2. CASE t = now + 1
    <3>1. [a \in Accounts |-> BalanceOfAt(a, now + 1)] = [a \in Accounts |-> BalanceOfAt(a, now)]
      BY <1>6
    <3>2. now \in 0 .. now
      BY <1>1
    <3>3. TotalSupplyAt(now) = SumFunctionOnSet([a \in Accounts |-> BalanceOfAt(a, now)], Accounts)
      BY <1>1, <3>2 DEF SnapshotsAddUp
    <3> QED BY <1>6, <2>2, <3>1, <3>3
  <2> QED BY <1>1, <1>7, <2>1, <2>2
<1>8. SnapshotsAddUp'
  <2>1. ASSUME NEW t \in 0 .. now'
        PROVE  TotalSupplyAt(t)' = SumFunctionOnSet([a \in Accounts |-> BalanceOfAt(a, t)'], Accounts)
    <3>1. t \in Nat /\ t <= now + 1
      BY <1>1
    <3>2. [a \in Accounts |-> BalanceOfAt(a, t)'] = [a \in Accounts |-> BalanceOfAt(a, t)]
      BY <1>5, <3>1
    <3> QED BY <1>5, <1>7, <3>1, <3>2
  <2>2. /\ TotalSupplyAt(now)' = TotalSupplyAt(now + 1)
        /\ \A a \in Accounts : BalanceOfAt(a, now)' = BalanceOfAt(a, now + 1)
    BY <1>1 DEF TotalSupplyAt, BalanceOfAt
  <2>3. totalSupply' = TotalSupplyAt(now)' /\ \A a \in Accounts : balanceOf'[a] = BalanceOfAt(a, now)'
    BY <1>1, <1>6, <2>2 DEF SnapshotsAddUp
  <2> QED BY <2>1, <2>3 DEF SnapshotsAddUp
<1> QED BY <1>4, <1>5, <1>8 DEF Pages, PastKept

LEMMA TickFunds ==
  ASSUME Pages, Funds, Tick
  PROVE  Funds'
<1>1. /\ now' = now + 1 /\ now \in Nat
      /\ UNCHANGED <<balanceOf, totalSupply, balanceHistory, supplyHistory,
                     dividends, claimedBy, usdc>>
      /\ DividendsType
  BY DEF Tick, shareVars, dividendVars, Pages, RegisterType, Funds
<1>2. DividendsType' /\ Rest' = Rest
  BY <1>1 DEF DividendsType, Rest
<1>3. ASSUME NEW id \in DOMAIN dividends PROVE Sound(id)'
  <2>1. PICK record \in Nat, amount \in Nat, supply \in Nat :
          /\ record = dividends[id].recordDate /\ amount = dividends[id].amount
          /\ supply = TotalSupplyAt(record)
    BY <1>1, DividendTypes, PageTypes
  <2>2. SupplyFor(id) = supply /\ SupplyFor(id)' = supply
    BY <1>1, <2>1 DEF SupplyFor, TotalSupplyAt
  <2>3. /\ Reached(id) <=> now > record
        /\ Reached(id)' <=> now + 1 > record
    BY <1>1, <2>1 DEF Reached
  <2>4. Standing(id) /\ Covered(id)
    BY <1>3 DEF Funds, Sound
  <2>5. CASE Reached(id)
    <3>1. Reached(id)'
      BY <1>1, <2>1, <2>3, <2>5
    <3>2. \A a \in Accounts : Owed(id, a)' = Owed(id, a)
      BY <1>1, <2>5, <3>1 DEF Owed, TotalSupplyAt, BalanceOfAt
    <3>3. Unclaimed(id)' = Unclaimed(id)
      BY <1>1, <3>2 DEF Unclaimed
    <3> QED BY <1>1, <2>2, <2>4, <2>5, <3>1, <3>3 DEF Sound, Standing, Covered
  <2>6. CASE ~ Reached(id) /\ ~ Reached(id)'
    <3>1. \A a \in Accounts : Owed(id, a)' = Owed(id, a)
      BY <2>6 DEF Owed
    <3>2. Unclaimed(id)' = Unclaimed(id)
      BY <1>1, <3>1 DEF Unclaimed
    <3> QED BY <1>1, <2>4, <2>6, <3>2 DEF Sound, Standing, Covered
  <2>7. CASE ~ Reached(id) /\ Reached(id)'
    <3>1. record = now
      BY <1>1, <2>1, <2>3, <2>7
    <3>2. dividends[id].claimed = 0 /\ claimedBy[id] = {}
      BY <2>4, <2>7 DEF Standing
    <3>3. Standing(id)'
      BY <1>1, <2>4, <2>7, <3>2 DEF Standing
    <3>4. PICK part : part = Unclaimed(id)'
      OBVIOUS
    <3>5. ASSUME NEW a \in Accounts
          PROVE  part[a] = IF supply = 0 THEN 0 ELSE (amount * BalanceOfAt(a, record)) \div supply
      <4>1. part[a] = Owed(id, a)'
        BY <1>1, <3>2, <3>4 DEF Unclaimed
      <4> QED BY <1>1, <2>1, <2>7, <4>1 DEF Owed, TotalSupplyAt, BalanceOfAt
    <3>6. SumFunctionOnSet(part, Accounts) <= amount
      <4>1. CASE supply = 0
        <5>1. SumFunctionOnSet(part, Accounts) = 0
          BY <3>5, <4>1, SumZero, AccountsFinite
        <5> QED BY <5>1
      <4>2. CASE supply # 0
        <5>1. PICK f : f = [a \in Accounts |-> BalanceOfAt(a, record)]
          OBVIOUS
        <5>2. supply = SumFunctionOnSet(f, Accounts)
          <6>1. record \in 0 .. now
            BY <1>1, <3>1
          <6> QED BY <2>1, <5>1, <6>1 DEF Pages, SnapshotsAddUp
        <5>3. \A a \in Accounts : f[a] \in Nat /\ part[a] = (amount * f[a]) \div supply
          BY <3>5, <4>2, <5>1, PageTypes
        <5>4. supply \in Nat \ {0}
          BY <4>2
        <5> QED BY ONLY <5>2, <5>3, <5>4, amount \in Nat, AccountsFinite, PartsFit
      <4> QED BY <4>1, <4>2
    <3>7. Covered(id)'
      <4>1. dividends'[id].amount - dividends'[id].claimed = amount
        BY <1>1, <2>1, <3>2
      <4> QED BY <3>4, <3>6, <4>1 DEF Covered
    <3> QED BY <3>3, <3>7 DEF Sound
  <2> QED BY <2>5, <2>6, <2>7
<1> QED BY <1>1, <1>2, <1>3 DEF Funds

LEMMA RestType ==
  ASSUME Funds
  PROVE  /\ IsFiniteSet(DOMAIN dividends)
         /\ \A id \in DOMAIN dividends :
              Rest[id] \in Nat /\ Rest[id] = dividends[id].amount - dividends[id].claimed
<1>1. DividendsType
  BY DEF Funds
<1>2. ASSUME NEW id \in DOMAIN dividends
      PROVE  Rest[id] \in Nat /\ Rest[id] = dividends[id].amount - dividends[id].claimed
  <2>1. dividends[id].claimed <= dividends[id].amount
    BY DEF Funds, Sound, Standing
  <2>2. dividends[id].claimed \in Nat /\ dividends[id].amount \in Nat
    BY <1>1, DividendTypes
  <2> QED BY <2>1, <2>2 DEF Rest
<1> QED BY <1>1, <1>2, DividendTypes

LEMMA SetDividendFunds ==
  ASSUME Pages, Funds, PastKept, NEW record \in Nat, NEW execution \in Nat, NEW amount \in Nat,
         SetDividend(record, execution, amount)
  PROVE  Funds'
<1>n. PICK n : n = Len(dividends)
  OBVIOUS
<1>d. PICK d : d = [recordDate |-> record, executionDate |-> execution,
                    amount |-> amount, claimed |-> 0]
  OBVIOUS
<1>1. /\ n < MaxDividends /\ amount # 0 /\ record > now
      /\ usdc[Issuer] >= amount
      /\ dividends' = Append(dividends, d)
      /\ usdc' = [usdc EXCEPT ![Issuer] = @ - amount, ![Self] = @ + amount]
      /\ UNCHANGED <<now, supplyHistory, balanceHistory, claimedBy>>
  BY <1>n, <1>d DEF SetDividend, shareVars
<1>2. /\ DividendsType /\ now \in Nat /\ MaxDividends \in Nat
      /\ dividends \in Seq(Dividend) /\ n \in Nat /\ DOMAIN dividends = 1 .. n
      /\ usdc \in [Accounts \cup {Issuer, Self} -> Nat] /\ Issuer # Self
  BY <1>n, SharesAssumption, DividendTypes DEF Funds, DividendsType, Pages, RegisterType
<1>3. d \in Dividend /\ d.recordDate = record /\ d.amount = amount /\ d.claimed = 0
  BY <1>d DEF Dividend
<1>4. /\ dividends' \in Seq(Dividend) /\ Len(dividends') = n + 1
      /\ DOMAIN dividends' = 1 .. n + 1
      /\ \A id \in 1 .. n : dividends'[id] = dividends[id]
      /\ dividends'[n + 1] = d
  <2>1. PICK q \in Seq(Dividend) : q = dividends /\ Len(q) = n
    BY <1>n, <1>2
  <2>2. PICK r : r = Append(q, d)
    OBVIOUS
  <2>3. /\ r \in Seq(Dividend) /\ Len(r) = n + 1 /\ r[n + 1] = d
        /\ \A id \in 1 .. n : r[id] = q[id]
    BY <1>3, <2>1, <2>2
  <2> QED BY <1>1, <2>1, <2>2, <2>3
<1>5. /\ usdc' \in [Accounts \cup {Issuer, Self} -> Nat]
      /\ usdc'[Self] = usdc[Self] + amount
  <2>1. usdc[Issuer] \in Nat /\ usdc[Self] \in Nat /\ usdc[Issuer] - amount \in Nat
    BY <1>1, <1>2
  <2> QED BY <1>1, <1>2, <2>1
<1>6. DividendsType'
  <2>1. n + 1 <= MaxDividends /\ claimedBy' \in [DividendIds -> SUBSET Accounts]
    BY <1>n, <1>1, <1>2 DEF DividendsType
  <2> QED BY <1>4, <1>5, <2>1 DEF DividendsType
<1>7. ASSUME NEW id \in 1 .. n PROVE Sound(id)'
  <2>1. Sound(id) /\ id \in DOMAIN dividends
    BY <1>2 DEF Funds
  <2>2. dividends'[id] = dividends[id] /\ claimedBy'[id] = claimedBy[id]
    BY <1>1, <1>4
  <2> QED BY <1>1, <1>2, <2>1, <2>2, SoundKept
<1>8. Sound(n + 1)'
  <2>1. claimedBy[n + 1] = {}
    <3>1. n + 1 \in DividendIds /\ n + 1 \notin DOMAIN dividends
      BY <1>1, <1>2 DEF DividendIds
    <3> QED BY <3>1 DEF Funds
  <2>2. ~ Reached(n + 1)'
    BY <1>1, <1>2, <1>3, <1>4 DEF Reached
  <2>3. PICK part : part = Unclaimed(n + 1)'
    OBVIOUS
  <2>4. \A a \in Accounts : part[a] = 0
    BY <2>2, <2>3 DEF Unclaimed, Owed
  <2>5. SumFunctionOnSet(part, Accounts) = 0
    BY ONLY <2>4, SumZero, AccountsFinite
  <2>6. Covered(n + 1)'
    BY <1>3, <1>4, <2>3, <2>5 DEF Covered
  <2>7. Standing(n + 1)'
    BY <1>1, <1>3, <1>4, <2>1, <2>2 DEF Standing
  <2> QED BY <2>6, <2>7 DEF Sound
<1>9. usdc'[Self] = SumFunctionOnSet(Rest', DOMAIN dividends')
  <2>1. PICK rest : rest = Rest'
    OBVIOUS
  <2>2. /\ \A id \in 1 .. n : rest[id] = Rest[id] /\ Rest[id] \in Int /\ rest[id] \in Int
        /\ rest[n + 1] = amount
    <3>1. \A id \in DOMAIN dividends' :
             rest[id] = dividends'[id].amount - dividends'[id].claimed
      BY <2>1 DEF Rest
    <3>2. \A id \in 1 .. n : Rest[id] = dividends[id].amount - dividends[id].claimed /\ Rest[id] \in Nat
      BY <1>2, RestType
    <3>3. rest[n + 1] = amount
      <4>1. n + 1 \in DOMAIN dividends'
        BY <1>2, <1>4
      <4>2. rest[n + 1] = dividends'[n + 1].amount - dividends'[n + 1].claimed
        BY <3>1, <4>1
      <4> QED BY <1>3, <1>4, <4>2
    <3>4. ASSUME NEW id \in 1 .. n PROVE rest[id] = Rest[id]
      <4>1. id \in DOMAIN dividends' /\ dividends'[id] = dividends[id]
        BY <1>2, <1>4
      <4> QED BY <3>1, <3>2, <4>1
    <3> QED BY <3>2, <3>3, <3>4
  <2>3. PICK S : S = 1 .. n + 1 /\ IsFiniteSet(S) /\ S \ {n + 1} = 1 .. n /\ n + 1 \in S
    <3>1. IsFiniteSet(1 .. n + 1)
      <4>1. 1 \in Int /\ n + 1 \in Int
        BY <1>2
      <4> QED BY <4>1, FS_Interval
    <3>2. (1 .. n + 1) \ {n + 1} = 1 .. n /\ n + 1 \in 1 .. n + 1
      BY <1>2
    <3> QED BY <3>1, <3>2
  <2>4. \A id \in S : rest[id] \in Int
    BY <1>2, <2>2, <2>3
  <2>5. SumFunctionOnSet(rest, S) = rest[n + 1] + SumFunctionOnSet(rest, S \ {n + 1})
    BY ONLY <2>3, <2>4, SumRemove
  <2>6. SumFunctionOnSet(rest, 1 .. n) = SumFunctionOnSet(Rest, 1 .. n)
    <3>1. IsFiniteSet(1 .. n) /\ \A id \in 1 .. n : Rest[id] \in Int /\ rest[id] = Rest[id]
      BY <1>2, <2>2, RestType
    <3>2. PICK old : old = Rest
      OBVIOUS
    <3> QED BY <3>1, <3>2, SumSame
  <2>7. usdc[Self] = SumFunctionOnSet(Rest, 1 .. n)
    BY <1>2 DEF Funds
  <2>8. SumFunctionOnSet(rest, S) = amount + usdc[Self] /\ usdc[Self] \in Nat
    BY <1>2, <2>2, <2>3, <2>5, <2>6, <2>7
  <2>9. DOMAIN dividends' = S
    BY <1>4, <2>3
  <2> QED BY <1>5, <2>1, <2>8, <2>9
<1>10. \A id \in DividendIds : id \notin DOMAIN dividends' => claimedBy'[id] = {}
  BY <1>1, <1>2, <1>4 DEF Funds
<1>11. \A id \in DOMAIN dividends' : Sound(id)'
  <2>1. \A id \in 1 .. n + 1 : id \in 1 .. n \/ id = n + 1
    BY <1>2
  <2> QED BY <1>4, <1>7, <1>8, <2>1
<1> QED BY <1>6, <1>9, <1>10, <1>11 DEF Funds

(* One dividend pays part of its dollars out: the others stand.            *)
LEMMA PaidOutFunds ==
  ASSUME Pages, Funds, PastKept, now' = now, NEW id \in DOMAIN dividends, NEW part \in Nat,
         NEW to \in Accounts \cup {Issuer},
         dividends' = [dividends EXCEPT ![id].claimed = @ + part],
         usdc' = [usdc EXCEPT ![Self] = @ - part, ![to] = @ + part],
         part <= dividends[id].amount - dividends[id].claimed,
         claimedBy' \in [DividendIds -> SUBSET Accounts],
         \A other \in DividendIds \ {id} : claimedBy'[other] = claimedBy[other],
         Sound(id)'
  PROVE  Funds'
<1>1. /\ DividendsType /\ dividends \in Seq(Dividend) /\ now \in Nat
      /\ id \in DividendIds /\ DOMAIN dividends \subseteq DividendIds
      /\ DOMAIN dividends = 1 .. Len(dividends)
      /\ usdc \in [Accounts \cup {Issuer, Self} -> Nat] /\ to # Self
      /\ dividends[id] \in Dividend /\ dividends[id].claimed \in Nat /\ dividends[id].amount \in Nat
  BY SharesAssumption, DividendTypes DEF Funds, DividendsType, Pages, RegisterType
<1>2. PICK d \in Dividend : /\ d = [dividends[id] EXCEPT !.claimed = @ + part]
                            /\ d.claimed = dividends[id].claimed + part
                            /\ d.amount = dividends[id].amount
                            /\ d.recordDate = dividends[id].recordDate
  <2>1. dividends[id].claimed + part \in Nat
    BY <1>1
  <2>2. PICK e \in Dividend : e = dividends[id]
    BY <1>1
  <2>3. [e EXCEPT !.claimed = dividends[id].claimed + part] \in Dividend
    BY <2>1, <2>2 DEF Dividend
  <2>4. PICK d : d = [e EXCEPT !.claimed = dividends[id].claimed + part]
    OBVIOUS
  <2>5. /\ d.claimed = dividends[id].claimed + part
        /\ d.amount = e.amount /\ d.recordDate = e.recordDate
    BY <2>2, <2>4 DEF Dividend
  <2> QED BY <2>2, <2>3, <2>4, <2>5
<1>3. /\ dividends' = [dividends EXCEPT ![id] = d]
      /\ dividends' \in Seq(Dividend) /\ DOMAIN dividends' = DOMAIN dividends
      /\ Len(dividends') = Len(dividends)
      /\ dividends'[id] = d
      /\ \A other \in DOMAIN dividends \ {id} : dividends'[other] = dividends[other]
  BY <1>1, <1>2
<1>4. PICK rest : rest = Rest'
  OBVIOUS
<1>5. /\ rest[id] = Rest[id] - part
      /\ \A other \in DOMAIN dividends : Rest[other] \in Nat /\ rest[other] \in Int
      /\ \A other \in DOMAIN dividends \ {id} : rest[other] = Rest[other]
  <2>1. \A other \in DOMAIN dividends : rest[other] = dividends'[other].amount - dividends'[other].claimed
    BY <1>3, <1>4 DEF Rest
  <2>2. \A other \in DOMAIN dividends :
           Rest[other] \in Nat /\ Rest[other] = dividends[other].amount - dividends[other].claimed
    BY RestType
  <2>3. rest[id] = Rest[id] - part
    <3>1. rest[id] = d.amount - d.claimed
      BY <1>1, <1>3, <2>1
    <3>2. Rest[id] = dividends[id].amount - dividends[id].claimed
      BY <1>1, <2>2
    <3>3. part \in Nat /\ dividends[id].claimed \in Nat /\ dividends[id].amount \in Nat
      BY <1>1
    <3> QED BY ONLY <1>2, <3>1, <3>2, <3>3
  <2> QED BY <1>3, <2>1, <2>2, <2>3
<1>6. SumFunctionOnSet(rest, DOMAIN dividends)
        = SumFunctionOnSet(Rest, DOMAIN dividends) + (rest[id] - Rest[id])
  <2>1. /\ \A other \in DOMAIN dividends : Rest[other] \in Int /\ rest[other] \in Int
        /\ IsFiniteSet(DOMAIN dividends)
    BY <1>5, RestType
  <2> QED BY ONLY <1>5, <2>1, id \in DOMAIN dividends, SumChange
<1>7. part <= usdc[Self] /\ usdc[Self] = SumFunctionOnSet(Rest, DOMAIN dividends)
  <2>1. Rest[id] <= SumFunctionOnSet(Rest, DOMAIN dividends)
    <3>1. \A other \in DOMAIN dividends : Rest[other] \in Nat
      BY <1>5
    <3> QED BY <3>1, RestType, SumMember
  <2>2. part <= Rest[id]
    BY RestType
  <2>3. usdc[Self] = SumFunctionOnSet(Rest, DOMAIN dividends) /\ usdc[Self] \in Nat /\ Rest[id] \in Nat
    BY <1>1, <1>5 DEF Funds
  <2> QED BY <2>1, <2>2, <2>3
<1>8. usdc' \in [Accounts \cup {Issuer, Self} -> Nat] /\ usdc'[Self] = usdc[Self] - part
  <2>1. usdc[Self] - part \in Nat /\ usdc[to] + part \in Nat
    BY <1>1, <1>7
  <2> QED BY <1>1, <2>1
<1>9. usdc'[Self] = SumFunctionOnSet(Rest', DOMAIN dividends')
  <2>1. Rest[id] \in Nat /\ usdc[Self] \in Nat
    BY <1>1, <1>5
  <2> QED BY <1>3, <1>4, <1>5, <1>6, <1>7, <1>8, <2>1
<1>10. DividendsType'
  BY <1>1, <1>3, <1>8 DEF DividendsType
<1>11. ASSUME NEW other \in DOMAIN dividends' PROVE Sound(other)'
  <2>1. CASE other = id
    BY <2>1
  <2>2. CASE other # id
    <3>1. /\ other \in DOMAIN dividends /\ dividends'[other] = dividends[other]
          /\ claimedBy'[other] = claimedBy[other] /\ Sound(other)
      BY <1>1, <1>3, <2>2 DEF Funds
    <3> QED BY <1>1, <3>1, SoundKept
  <2> QED BY <2>1, <2>2
<1>12. \A other \in DividendIds : other \notin DOMAIN dividends' => claimedBy'[other] = {}
  BY <1>3 DEF Funds
<1> QED BY <1>9, <1>10, <1>11, <1>12 DEF Funds

LEMMA StillPages ==
  ASSUME Pages, UNCHANGED <<now, shareVars>>
  PROVE  Pages' /\ PastKept
<1>1. UNCHANGED <<now, balanceOf, totalSupply, balanceHistory, supplyHistory>>
  BY DEF shareVars
<1>2. PastKept
  BY <1>1 DEF PastKept, TotalSupplyAt, BalanceOfAt
<1>3. \A t : TotalSupplyAt(t)' = TotalSupplyAt(t) /\ \A a : BalanceOfAt(a, t)' = BalanceOfAt(a, t)
  BY <1>1 DEF TotalSupplyAt, BalanceOfAt
<1>4. SnapshotsAddUp'
  BY <1>1, <1>3 DEF Pages, SnapshotsAddUp
<1> QED BY <1>1, <1>2, <1>4 DEF Pages, RegisterType, InTime

(* An account not paid yet has its part among the dividend's dollars.      *)
LEMMA ClaimFunds ==
  ASSUME Pages, Funds, PastKept, NEW id \in DOMAIN dividends, NEW a \in Accounts,
         ClaimDividend(id, a)
  PROVE  Funds'
<1>1. PICK part : part = Owed(id, a)
  OBVIOUS
<1>2. /\ a \notin claimedBy[id] /\ part # 0 /\ now' = now
      /\ claimedBy' = [claimedBy EXCEPT ![id] = @ \cup {a}]
      /\ dividends' = [dividends EXCEPT ![id].claimed = @ + part]
      /\ usdc' = [usdc EXCEPT ![Self] = @ - part, ![a] = @ + part]
  BY <1>1 DEF ClaimDividend
<1>3. /\ DividendsType /\ now \in Nat /\ part \in Nat /\ id \in DividendIds
      /\ claimedBy \in [DividendIds -> SUBSET Accounts]
      /\ dividends \in Seq(Dividend) /\ dividends[id] \in Dividend
      /\ dividends[id].claimed \in Nat /\ dividends[id].amount \in Nat
  BY <1>1, OwedType, DividendTypes DEF Funds, DividendsType, Pages, RegisterType
<1>4. /\ claimedBy' \in [DividendIds -> SUBSET Accounts] /\ claimedBy'[id] = claimedBy[id] \cup {a}
      /\ \A other \in DividendIds \ {id} : claimedBy'[other] = claimedBy[other]
  BY <1>2, <1>3
<1>5. PICK old, new : old = Unclaimed(id) /\ new = Unclaimed(id)'
  OBVIOUS
<1>6. /\ dividends'[id].amount = dividends[id].amount
      /\ dividends'[id].recordDate = dividends[id].recordDate
      /\ dividends'[id].claimed = dividends[id].claimed + part
  <2>1. PICK d : d = [dividends[id] EXCEPT !.claimed = dividends[id].claimed + part]
    OBVIOUS
  <2>2. /\ d.claimed = dividends[id].claimed + part
        /\ d.amount = dividends[id].amount /\ d.recordDate = dividends[id].recordDate
    BY <1>3, <2>1 DEF Dividend
  <2>3. dividends'[id] = d
    BY <1>2, <1>3, <2>1
  <2> QED BY <2>2, <2>3
<1>7. /\ Reached(id)' <=> Reached(id)
      /\ Reached(id) => SupplyFor(id)' = SupplyFor(id)
      /\ \A x \in Accounts : Owed(id, x)' = Owed(id, x)
  BY <1>2, <1>3, <1>6, OwedKept
<1>8. /\ \A x \in Accounts : old[x] \in Nat /\ new[x] \in Int
      /\ old[a] = part /\ new[a] = 0
      /\ \A x \in Accounts \ {a} : new[x] = old[x]
  <2>1. \A x \in Accounts : /\ old[x] = IF x \in claimedBy[id] THEN 0 ELSE Owed(id, x)
                            /\ new[x] = IF x \in claimedBy'[id] THEN 0 ELSE Owed(id, x)
    BY <1>5, <1>7 DEF Unclaimed
  <2>2. \A x \in Accounts : Owed(id, x) \in Nat
    BY <1>3, OwedType
  <2>3. old[a] = part /\ new[a] = 0
    BY <1>1, <1>2, <1>4, <2>1
  <2> QED BY <1>4, <2>1, <2>2, <2>3
<1>9. SumFunctionOnSet(new, Accounts) = SumFunctionOnSet(old, Accounts) + (new[a] - old[a])
  <2>1. \A x \in Accounts : old[x] \in Int /\ new[x] \in Int
    BY <1>8
  <2> QED BY ONLY <1>8, <2>1, a \in Accounts, SumChange, AccountsFinite
<1>10. part <= SumFunctionOnSet(old, Accounts) /\ SumFunctionOnSet(old, Accounts) \in Nat
  <2>1. old[a] <= SumFunctionOnSet(old, Accounts)
    BY ONLY <1>8, a \in Accounts, SumMember, AccountsFinite
  <2>2. SumFunctionOnSet(old, Accounts) \in Nat
    BY ONLY <1>8, SumNat, AccountsFinite
  <2> QED BY <1>8, <2>1, <2>2
<1>11. SumFunctionOnSet(old, Accounts) <= dividends[id].amount - dividends[id].claimed
  BY <1>5 DEF Funds, Sound, Covered
<1>12. part <= dividends[id].amount - dividends[id].claimed
  BY <1>3, <1>10, <1>11
<1>13. Covered(id)'
  <2>1. SumFunctionOnSet(new, Accounts) <= dividends'[id].amount - dividends'[id].claimed
    <3>1. PICK s \in Nat : s = SumFunctionOnSet(old, Accounts)
      BY <1>10
    <3>2. SumFunctionOnSet(new, Accounts) = s - part
      BY <1>3, <1>8, <1>9, <3>1
    <3>3. s <= dividends[id].amount - dividends[id].claimed
      BY <1>11, <3>1
    <3> QED BY <1>3, <1>6, <3>2, <3>3
  <2> QED BY <1>5, <2>1 DEF Covered
<1>14. Standing(id)'
  <2>1. Reached(id) /\ SupplyFor(id) # 0
    BY <1>1, <1>2 DEF Owed, SupplyFor
  <2>2. dividends[id].amount # 0
    BY DEF Funds, Sound, Standing
  <2>3. dividends'[id].claimed <= dividends'[id].amount
    BY <1>3, <1>6, <1>12
  <2> QED BY <1>4, <1>6, <1>7, <2>1, <2>2, <2>3 DEF Standing
<1>15. Sound(id)'
  BY <1>13, <1>14 DEF Sound
<1> QED BY <1>2, <1>3, <1>4, <1>12, <1>15, PaidOutFunds

LEMMA ReclaimFunds ==
  ASSUME Pages, Funds, PastKept, NEW id \in DOMAIN dividends, ReclaimDividend(id)
  PROVE  Funds'
<1>1. PICK part : part = dividends[id].amount - dividends[id].claimed
  OBVIOUS
<1>2. /\ Reached(id) /\ SupplyFor(id) = 0 /\ part # 0
      /\ dividends' = [dividends EXCEPT ![id].claimed = dividends[id].amount]
      /\ usdc' = [usdc EXCEPT ![Self] = @ - part, ![Issuer] = @ + part]
      /\ now' = now /\ claimedBy' = claimedBy
  BY <1>1 DEF ReclaimDividend, SupplyFor
<1>3. /\ DividendsType /\ now \in Nat /\ id \in DividendIds
      /\ claimedBy \in [DividendIds -> SUBSET Accounts]
      /\ dividends \in Seq(Dividend) /\ dividends[id] \in Dividend
      /\ dividends[id].claimed \in Nat /\ dividends[id].amount \in Nat
  BY DividendTypes DEF Funds, DividendsType, Pages, RegisterType
<1>4. /\ part \in Nat /\ dividends[id].claimed + part = dividends[id].amount
      /\ dividends[id].amount # 0 /\ claimedBy[id] = {}
  <2>1. dividends[id].claimed <= dividends[id].amount
    BY DEF Funds, Sound, Standing
  <2>2. dividends[id].amount # 0 /\ claimedBy[id] = {}
    BY <1>2 DEF Funds, Sound, Standing
  <2> QED BY <1>1, <1>3, <2>1, <2>2
<1>5. dividends' = [dividends EXCEPT ![id].claimed = @ + part]
  BY <1>2, <1>4
<1>6. /\ dividends'[id].amount = dividends[id].amount
      /\ dividends'[id].recordDate = dividends[id].recordDate
      /\ dividends'[id].claimed = dividends[id].amount
  <2>1. PICK d : d = [dividends[id] EXCEPT !.claimed = dividends[id].amount]
    OBVIOUS
  <2>2. /\ d.claimed = dividends[id].amount
        /\ d.amount = dividends[id].amount /\ d.recordDate = dividends[id].recordDate
    BY <1>3, <2>1 DEF Dividend
  <2>3. dividends'[id] = d
    BY <1>2, <1>3, <2>1
  <2> QED BY <2>2, <2>3
<1>7. /\ Reached(id)' <=> Reached(id)
      /\ Reached(id) => SupplyFor(id)' = SupplyFor(id)
      /\ \A x \in Accounts : Owed(id, x)' = Owed(id, x)
  BY <1>2, <1>3, <1>6, OwedKept
<1>8. Covered(id)'
  <2>1. PICK new : new = Unclaimed(id)'
    OBVIOUS
  <2>2. \A x \in Accounts : new[x] = 0
    BY <1>2, <1>7, <2>1 DEF Unclaimed, Owed, SupplyFor
  <2>3. SumFunctionOnSet(new, Accounts) = 0
    BY ONLY <2>2, SumZero, AccountsFinite
  <2> QED BY <1>3, <1>6, <2>1, <2>3 DEF Covered
<1>9. Standing(id)'
  BY <1>2, <1>3, <1>4, <1>6, <1>7 DEF Standing
<1>10. Sound(id)'
  BY <1>8, <1>9 DEF Sound
<1>11. part <= dividends[id].amount - dividends[id].claimed
  BY <1>1, <1>4
<1>12. /\ claimedBy' \in [DividendIds -> SUBSET Accounts]
       /\ \A other \in DividendIds \ {id} : claimedBy'[other] = claimedBy[other]
  BY <1>2, <1>3
<1>13. Issuer \in Accounts \cup {Issuer} /\ part \in Nat /\ now' = now
  BY <1>2, <1>4
<1> QED BY <1>2, <1>5, <1>10, <1>11, <1>12, <1>13, PaidOutFunds

-----------------------------------------------------------------------------
(* The invariant                                                           *)

Membership == listed \subseteq Accounts /\ allowance \in [Accounts -> [Spenders -> Nat]]

IInv == Pages /\ Funds /\ Membership

LEMMA InitIInv == Init => IInv
<1> SUFFICES ASSUME Init PROVE IInv
  OBVIOUS
<1>1. /\ now = 0 /\ totalSupply = 0 /\ supplyHistory = <<>> /\ dividends = <<>>
      /\ balanceOf = [a \in Accounts |-> 0] /\ balanceHistory = [a \in Accounts |-> <<>>]
      /\ claimedBy = [id \in DividendIds |-> {}]
      /\ usdc = [h \in Accounts \cup {Issuer, Self} |-> IF h = Issuer THEN IssuerDollars ELSE 0]
  BY DEF Init
<1>2. PICK none \in Checkpoints : none = <<>> /\ Len(none) = 0
  <2>1. <<>> \in Checkpoints /\ Len(<<>>) = 0
    BY DEF Checkpoints
  <2> QED BY <2>1
<1>3. Ordered(none, 0) /\ ValueAt(none, 0) = 0
  <2>1. Ordered(none, 0)
    BY <1>2 DEF Ordered
  <2>2. 0 \in Nat /\ 0 >= 0
    OBVIOUS
  <2>3. ValueAt(none, 0) = IF Len(none) = 0 THEN 0 ELSE none[Len(none)].value
    BY <2>1, <2>2, ValueStands
  <2> QED BY <1>2, <2>1, <2>3
<1>4. TotalSupplyAt(0) = 0 /\ \A a \in Accounts : BalanceOfAt(a, 0) = 0
  BY <1>1, <1>2, <1>3 DEF TotalSupplyAt, BalanceOfAt
<1>5. RegisterType /\ InTime
  BY <1>1, <1>2, <1>3 DEF RegisterType, InTime
<1>6. SnapshotsAddUp
  <2>1. SumFunctionOnSet([a \in Accounts |-> BalanceOfAt(a, 0)], Accounts) = 0
    <3>1. PICK f : f = [a \in Accounts |-> BalanceOfAt(a, 0)]
      OBVIOUS
    <3>2. \A a \in Accounts : f[a] = 0
      BY <1>4, <3>1
    <3> QED BY <3>1, <3>2, SumZero, AccountsFinite
  <2>2. \A t \in 0 .. now : t = 0
    BY <1>1
  <2> QED BY <1>1, <1>4, <2>1, <2>2 DEF SnapshotsAddUp
<1>7. DividendsType
  <2>1. <<>> \in Seq(Dividend) /\ Len(<<>>) = 0 /\ 0 <= MaxDividends
    BY SharesAssumption
  <2> QED BY <1>1, <2>1, SharesAssumption DEF DividendsType
<1>8. usdc[Self] = SumFunctionOnSet(Rest, DOMAIN dividends)
  <2>1. usdc[Self] = 0
    BY <1>1, SharesAssumption
  <2>2. DOMAIN dividends = {}
    BY <1>1
  <2> QED BY <2>1, <2>2, SumEmpty
<1>9. Funds
  BY <1>1, <1>7, <1>8 DEF Funds
<1>10. Membership
  BY DEF Init, Membership
<1> QED BY <1>5, <1>6, <1>9, <1>10 DEF IInv, Pages

(* Every transaction keeps the pages, the dollars and the lists.           *)
LEMMA StepIInv ==
  ASSUME IInv, [Next]_vars
  PROVE  IInv' /\ PastKept
<1>1. Pages /\ Funds /\ Membership
  BY DEF IInv
<1>2. Issues \subseteq Nat /\ Transfers \subseteq Nat /\ Allowances \subseteq Nat
      /\ Amounts \subseteq Nat /\ Times \subseteq Nat
  BY SharesAssumption DEF Times
<1>3. CASE Tick
  <2>1. Membership'
    BY <1>1, <1>3 DEF Tick, Membership
  <2> QED BY <1>1, <1>3, <2>1, TickPages, TickFunds DEF IInv
<1>4. ASSUME NEW a \in Accounts, AddToControlList(a) PROVE IInv' /\ PastKept
  <2>1. UNCHANGED <<now, shareVars>> /\ UNCHANGED dividendVars /\ now' = now
    BY <1>4 DEF AddToControlList
  <2>2. Membership'
    BY <1>1, <1>4 DEF AddToControlList, Membership
  <2>3. Pages' /\ PastKept
    BY <1>1, <2>1, StillPages
  <2> QED BY <1>1, <2>1, <2>2, <2>3, FundsKept DEF IInv
<1>5. ASSUME NEW a \in Accounts, NEW x \in Issues, Issue(a, x) PROVE IInv' /\ PastKept
  <2>1. UNCHANGED <<now, listed, allowance, dividendVars>> /\ x \in Nat
    BY <1>2, <1>5 DEF Issue
  <2>2. Membership'
    BY <1>1, <2>1 DEF Membership
  <2>3. Pages' /\ PastKept
    BY <1>1, <1>5, <2>1, IssuePages
  <2> QED BY <1>1, <2>1, <2>2, <2>3, FundsKept DEF IInv
<1>6. ASSUME NEW a \in Accounts, NEW b \in Accounts, NEW x \in Transfers, Move(a, b, x)
      PROVE  Pages' /\ Funds' /\ PastKept
  <2>1. UNCHANGED <<now, listed, dividendVars>> /\ x \in Nat
    BY <1>2, <1>6 DEF Move
  <2>2. Pages' /\ PastKept
    BY <1>1, <1>6, <2>1, MovePages
  <2> QED BY <1>1, <2>1, <2>2, FundsKept
<1>7. ASSUME NEW a \in Accounts, NEW b \in Accounts, NEW x \in Transfers, Transfer(a, b, x)
      PROVE  IInv' /\ PastKept
  <2>1. Membership'
    BY <1>1, <1>7 DEF Transfer, Move, Membership
  <2>2. Move(a, b, x)
    BY <1>7 DEF Transfer
  <2> QED BY <1>6, <2>1, <2>2 DEF IInv
<1>8. ASSUME NEW a \in Accounts, NEW s \in Spenders, NEW x \in Allowances, Approve(a, s, x)
      PROVE  IInv' /\ PastKept
  <2>1. UNCHANGED <<now, shareVars>> /\ UNCHANGED dividendVars /\ now' = now /\ listed' = listed
    BY <1>8 DEF Approve
  <2>2. Membership'
    <3>1. PICK row \in [Spenders -> Nat] : row = [allowance[a] EXCEPT ![s] = x]
      BY <1>1, <1>2 DEF Membership
    <3>2. allowance' = [allowance EXCEPT ![a] = row]
      BY <1>8, <3>1 DEF Approve
    <3> QED BY <1>1, <2>1, <3>1, <3>2 DEF Membership
  <2>3. Pages' /\ PastKept
    BY <1>1, <2>1, StillPages
  <2> QED BY <1>1, <2>1, <2>2, <2>3, FundsKept DEF IInv
<1>9. ASSUME NEW s \in Spenders, NEW a \in Accounts, NEW b \in Accounts, NEW x \in Transfers,
             TransferFrom(s, a, b, x)
      PROVE  IInv' /\ PastKept
  <2>1. Move(a, b, x) /\ listed' = listed
    BY <1>9 DEF TransferFrom, Move
  <2>2. allowance' \in [Accounts -> [Spenders -> Nat]]
    <3>1. CASE allowance' = allowance
      BY <1>1, <3>1 DEF Membership
    <3>2. CASE /\ x <= allowance[a][s]
               /\ allowance' = [allowance EXCEPT ![a][s] = @ - x]
      <4>1. allowance[a] \in [Spenders -> Nat] /\ allowance[a][s] \in Nat
        BY <1>1 DEF Membership
      <4>2. allowance[a][s] - x \in Nat
        BY <1>2, <3>2, <4>1
      <4>3. PICK row \in [Spenders -> Nat] : row = [allowance[a] EXCEPT ![s] = @ - x]
        BY <4>1, <4>2
      <4>4. allowance' = [allowance EXCEPT ![a] = row]
        BY <3>2, <4>3
      <4> QED BY <1>1, <4>3, <4>4 DEF Membership
    <3> QED BY <1>9, <3>1, <3>2 DEF TransferFrom
  <2> QED BY <1>1, <1>6, <2>1, <2>2 DEF IInv, Membership
<1>10. ASSUME NEW r \in Times, NEW e \in Times, NEW x \in Amounts, SetDividend(r, e, x)
       PROVE  IInv' /\ PastKept
  <2>1. /\ UNCHANGED <<now, shareVars>> /\ r \in Nat /\ e \in Nat /\ x \in Nat
        /\ UNCHANGED <<listed, allowance>>
    BY <1>2, <1>10 DEF SetDividend
  <2>2. Pages' /\ PastKept
    BY <1>1, <2>1, StillPages
  <2>3. Funds'
    BY <1>1, <1>10, <2>1, <2>2, SetDividendFunds
  <2> QED BY <1>1, <2>1, <2>2, <2>3 DEF IInv, Membership
<1>11. ASSUME NEW id \in DOMAIN dividends, NEW a \in Accounts, ClaimDividend(id, a)
       PROVE  IInv' /\ PastKept
  <2>1. UNCHANGED <<now, shareVars>> /\ UNCHANGED <<listed, allowance>>
    BY <1>11 DEF ClaimDividend
  <2>2. Pages' /\ PastKept
    BY <1>1, <2>1, StillPages
  <2>3. Funds'
    BY <1>1, <1>11, <2>2, ClaimFunds
  <2> QED BY <1>1, <2>1, <2>2, <2>3 DEF IInv, Membership
<1>12. ASSUME NEW id \in DOMAIN dividends, ReclaimDividend(id)
       PROVE  IInv' /\ PastKept
  <2>1. UNCHANGED <<now, shareVars>> /\ UNCHANGED <<listed, allowance>>
    BY <1>12 DEF ReclaimDividend
  <2>2. Pages' /\ PastKept
    BY <1>1, <2>1, StillPages
  <2>3. Funds'
    BY <1>1, <1>12, <2>2, ReclaimFunds
  <2> QED BY <1>1, <2>1, <2>2, <2>3 DEF IInv, Membership
<1>13. CASE UNCHANGED vars
  <2>1. UNCHANGED <<now, shareVars>> /\ UNCHANGED <<listed, allowance>>
        /\ now' = now /\ UNCHANGED dividendVars
    BY <1>13 DEF vars
  <2>2. Pages' /\ PastKept
    BY <1>1, <2>1, StillPages
  <2>3. Funds'
    BY <1>1, <2>1, <2>2, FundsKept
  <2> QED BY <1>1, <2>1, <2>2, <2>3 DEF IInv, Membership
<1> QED BY <1>3, <1>4, <1>5, <1>7, <1>8, <1>9, <1>10, <1>11, <1>12, <1>13 DEF Next

LEMMA IInvHolds == Spec => []IInv
<1>1. IInv /\ [Next]_vars => IInv'
  BY StepIInv
<1> QED BY InitIInv, <1>1, PTL DEF Spec

LEMMA CoversIInv == IInv => TypeOK /\ SnapshotsAddUp /\ ClaimsCovered
<1> SUFFICES ASSUME IInv PROVE TypeOK /\ SnapshotsAddUp /\ ClaimsCovered
  OBVIOUS
<1>1. TypeOK
  BY DEF IInv, Pages, RegisterType, Funds, DividendsType, Membership, TypeOK
<1>2. SnapshotsAddUp
  BY DEF IInv, Pages
<1>3. ClaimsCovered
  BY DEF IInv, Funds, Sound, Covered, Rest, ClaimsCovered
<1> QED BY <1>1, <1>2, <1>3

(* The types of everything the contract stores.                            *)
THEOREM SpecTypeOK == Spec => []TypeOK
BY IInvHolds, CoversIInv, PTL

(* However many shares are issued or moved within a second, and in however *)
(* many steps, the search over the holders' checkpoints and the search over *)
(* the supply's agree for every second there was.                          *)
THEOREM SpecSnapshotsAddUp == Spec => []SnapshotsAddUp
BY IInvHolds, CoversIInv, PTL

(* Whoever has claimed and in whatever order, the dollars of a dividend    *)
(* cover all who have not, and the contract holds the dollars of each.     *)
THEOREM SpecClaimsCovered == Spec => []ClaimsCovered
BY IInvHolds, CoversIInv, PTL

-----------------------------------------------------------------------------
(* What a dividend owes                                                    *)

SameTerms(id) ==
  /\ id \in DOMAIN dividends'
  /\ dividends'[id].recordDate = dividends[id].recordDate
  /\ dividends'[id].executionDate = dividends[id].executionDate
  /\ dividends'[id].amount = dividends[id].amount

LEMMA TermsKept ==
  ASSUME IInv, [Next]_vars, NEW id \in DOMAIN dividends
  PROVE  SameTerms(id) /\ now' \in Nat /\ now' >= now
<1>1. /\ DividendsType /\ dividends \in Seq(Dividend) /\ DOMAIN dividends = 1 .. Len(dividends)
      /\ now \in Nat /\ now + 1 \in Nat
  BY DividendTypes DEF IInv, Funds, DividendsType, Pages, RegisterType
<1>2. CASE dividends' = dividends /\ (now' = now \/ now' = now + 1)
  BY <1>1, <1>2 DEF SameTerms
<1>3. ASSUME NEW other \in DOMAIN dividends, NEW v, now' = now,
             dividends' = [dividends EXCEPT ![other].claimed = v]
      PROVE  SameTerms(id) /\ now' >= now
  <2>1. PICK d : d = [dividends[other] EXCEPT !.claimed = v]
    OBVIOUS
  <2>2. /\ d.recordDate = dividends[other].recordDate
        /\ d.executionDate = dividends[other].executionDate
        /\ d.amount = dividends[other].amount
    <3>1. dividends[other] \in Dividend
      BY <1>1, DividendTypes
    <3> QED BY <2>1, <3>1 DEF Dividend
  <2>3. dividends' = [dividends EXCEPT ![other] = d]
    BY <1>3, <2>1
  <2>4. DOMAIN dividends' = DOMAIN dividends /\ dividends'[id] = IF id = other THEN d ELSE dividends[id]
    BY <1>1, <2>3
  <2> QED BY <1>1, <1>3, <2>2, <2>4 DEF SameTerms
<1>4. ASSUME NEW r, NEW e, NEW x, SetDividend(r, e, x)
      PROVE  SameTerms(id) /\ now' >= now /\ now' = now
  <2>1. PICK d : dividends' = Append(dividends, d) /\ now' = now
    BY <1>4 DEF SetDividend
  <2>2. PICK q \in Seq(Dividend) : q = dividends /\ id \in 1 .. Len(q)
    BY <1>1
  <2>3. Append(q, d)[id] = q[id] /\ id \in DOMAIN Append(q, d)
    BY <2>2
  <2> QED BY <1>1, <2>1, <2>2, <2>3 DEF SameTerms
<1>5. CASE Tick
  BY <1>1, <1>2, <1>5 DEF Tick, dividendVars
<1>6. CASE UNCHANGED vars
  BY <1>1, <1>2, <1>6 DEF vars, dividendVars
<1>7. ASSUME NEW a, AddToControlList(a) PROVE SameTerms(id) /\ now' \in Nat /\ now' >= now
  BY <1>1, <1>2, <1>7 DEF AddToControlList, dividendVars
<1>8. ASSUME NEW a, NEW x, Issue(a, x) PROVE SameTerms(id) /\ now' \in Nat /\ now' >= now
  BY <1>1, <1>2, <1>8 DEF Issue, dividendVars
<1>9. ASSUME NEW a, NEW b, NEW x, Move(a, b, x) PROVE SameTerms(id) /\ now' \in Nat /\ now' >= now
  BY <1>1, <1>2, <1>9 DEF Move, dividendVars
<1>10. ASSUME NEW a, NEW s, NEW x, Approve(a, s, x) PROVE SameTerms(id) /\ now' \in Nat /\ now' >= now
  BY <1>1, <1>2, <1>10 DEF Approve, dividendVars
<1>11. ASSUME NEW other \in DOMAIN dividends, NEW a, ClaimDividend(other, a)
       PROVE  SameTerms(id) /\ now' \in Nat /\ now' >= now
  <2>1. now' = now
    BY <1>11 DEF ClaimDividend
  <2>2. PICK v : v = dividends[other].claimed + Owed(other, a)
    OBVIOUS
  <2>3. dividends' = [dividends EXCEPT ![other].claimed = v]
    BY <1>11, <2>2 DEF ClaimDividend
  <2> QED BY <1>1, <1>3, <2>1, <2>3
<1>12. ASSUME NEW other \in DOMAIN dividends, ReclaimDividend(other)
       PROVE  SameTerms(id) /\ now' \in Nat /\ now' >= now
  <2>1. now' = now
    BY <1>12 DEF ReclaimDividend
  <2>2. PICK v : v = dividends[other].amount
    OBVIOUS
  <2>3. dividends' = [dividends EXCEPT ![other].claimed = v]
    BY <1>12, <2>2 DEF ReclaimDividend
  <2> QED BY <1>1, <1>3, <2>1, <2>3
<1> QED
  BY <1>1, <1>4, <1>5, <1>6, <1>7, <1>8, <1>9, <1>10, <1>11, <1>12 DEF Next, Transfer, TransferFrom

LEMMA OwedStands ==
  ASSUME IInv, [Next]_vars, NEW id \in DOMAIN dividends, Reached(id), NEW a \in Accounts
  PROVE  Owed(id, a)' = Owed(id, a)
<1>1. SameTerms(id) /\ now' \in Nat /\ now' >= now /\ PastKept /\ now \in Nat
  BY TermsKept, StepIInv DEF IInv, Pages, RegisterType
<1>2. PICK d \in Nat : d = dividends[id].recordDate /\ d = dividends'[id].recordDate /\ d < now
  <2>1. dividends[id].recordDate \in Nat
    BY DividendTypes DEF IInv, Funds
  <2> QED BY <1>1, <2>1 DEF SameTerms, Reached
<1>3. /\ TotalSupplyAt(d)' = TotalSupplyAt(d)
      /\ BalanceOfAt(a, d)' = BalanceOfAt(a, d)
  BY <1>1, <1>2 DEF PastKept
<1>4. /\ TotalSupplyAt(dividends[id].recordDate)' = TotalSupplyAt(d)
      /\ BalanceOfAt(a, dividends[id].recordDate)' = BalanceOfAt(a, d)
  BY <1>2, <1>3 DEF TotalSupplyAt, BalanceOfAt
<1>5. Reached(id)'
  BY <1>1, <1>2 DEF Reached
<1> QED BY <1>1, <1>2, <1>4, <1>5 DEF Owed, SameTerms

(* Once the record second of a dividend has ended, no transaction and no   *)
(* passing of time changes what it owes to anybody.                        *)
THEOREM SpecOwedIsSettled == Spec => OwedIsSettled
<1>1. IInv /\ [Next]_vars =>
        [\A id \in DOMAIN dividends :
           Reached(id) => \A a \in Accounts : Owed(id, a)' = Owed(id, a)]_vars
  BY OwedStands
<1> QED BY IInvHolds, <1>1, PTL DEF Spec, OwedIsSettled

-----------------------------------------------------------------------------
(* The register                                                            *)

PageAt(t) == [a \in Accounts |-> BalanceOfAt(a, t)]
PagesSoFar == [t \in 0 .. now - 1 |-> PageAt(t)]
Terms == [id \in DOMAIN dividends |-> [recordDate |-> dividends[id].recordDate,
                                       executionDate |-> dividends[id].executionDate,
                                       amount |-> dividends[id].amount]]
PaidOut == {p \in DividendIds \X Accounts : p[2] \in claimedBy[p[1]]}
TakenBack == {id \in DOMAIN dividends :
                claimedBy[id] = {} /\ dividends[id].claimed = dividends[id].amount}
Earnings == [a \in Accounts |-> usdc[a]]

registerView == <<now, listed, balanceOf, PagesSoFar, Terms, PaidOut, TakenBack, usdc[Self],
                  Earnings>>

LEMMA SameRegister ==
  ASSUME UNCHANGED registerView
  PROVE  UNCHANGED Register!registerVars
BY DEF registerView, Register!registerVars, PagesSoFar, PageAt, Terms, PaidOut, TakenBack, Earnings

LEMMA PagesStand ==
  ASSUME now' = now, now \in Nat, PastKept
  PROVE  PagesSoFar' = PagesSoFar
<1>1. \A t \in 0 .. now - 1 : t \in Nat /\ t < now
  BY DEF PastKept
<1>2. \A t \in 0 .. now - 1 : [a \in Accounts |-> BalanceOfAt(a, t)'] = [a \in Accounts |-> BalanceOfAt(a, t)]
  BY <1>1 DEF PastKept
<1>3. [t \in 0 .. now - 1 |-> [a \in Accounts |-> BalanceOfAt(a, t)']]
        = [t \in 0 .. now - 1 |-> [a \in Accounts |-> BalanceOfAt(a, t)]]
  BY <1>2
<1>4. PagesSoFar' = [t \in 0 .. now - 1 |-> [a \in Accounts |-> BalanceOfAt(a, t)']]
  BY DEF PagesSoFar, PageAt
<1> QED BY <1>3, <1>4 DEF PagesSoFar, PageAt

(* No dollar moves and no second ends: the rest of the register stands.    *)
LEMMA StillRegister ==
  ASSUME IInv, PastKept, UNCHANGED <<now, dividendVars>>
  PROVE  UNCHANGED <<now, PagesSoFar, Terms, PaidOut, TakenBack, usdc[Self], Earnings>>
<1>1. UNCHANGED <<dividends, claimedBy, usdc>> /\ now' = now /\ now \in Nat
  BY DEF dividendVars, IInv, Pages, RegisterType
<1>2. PagesSoFar' = PagesSoFar
  BY <1>1, PagesStand
<1> QED BY <1>1, <1>2 DEF Terms, PaidOut, TakenBack, Earnings

LEMMA TickRegister ==
  ASSUME IInv, Tick
  PROVE  Register!Next
<1>1. /\ now' = now + 1 /\ now \in Nat /\ balanceOf \in [Accounts -> Nat]
      /\ UNCHANGED <<listed, balanceOf, dividends, claimedBy, usdc, balanceHistory>>
      /\ \A a \in Accounts : balanceOf[a] = BalanceOfAt(a, now)
  BY DEF Tick, shareVars, dividendVars, IInv, Pages, RegisterType, SnapshotsAddUp
<1>2. UNCHANGED <<listed, balanceOf, Terms, PaidOut, TakenBack, usdc[Self], Earnings>>
  BY <1>1 DEF Terms, PaidOut, TakenBack, Earnings
<1>3. PagesSoFar' = [t \in 0 .. now |-> IF t = now THEN balanceOf ELSE PagesSoFar[t]]
  <2>1. PagesSoFar' = [t \in 0 .. now' - 1 |-> PageAt(t)]
    BY <1>1 DEF PagesSoFar, PageAt, BalanceOfAt
  <2>2. now' - 1 = now
    BY <1>1
  <2>3. PageAt(now) = balanceOf
    BY <1>1 DEF PageAt
  <2>4. \A t \in 0 .. now : t # now => PagesSoFar[t] = PageAt(t)
    <3>1. \A t \in 0 .. now : t # now => t \in 0 .. now - 1
      BY <1>1
    <3> QED BY <3>1 DEF PagesSoFar
  <2>5. [t \in 0 .. now |-> PageAt(t)]
          = [t \in 0 .. now |-> IF t = now THEN balanceOf ELSE PagesSoFar[t]]
    BY <2>3, <2>4
  <2> QED BY <2>1, <2>2, <2>5
<1>4. Register!Close
  BY <1>1, <1>2, <1>3 DEF Register!Close, PagesSoFar, PageAt, Terms, PaidOut, TakenBack, Earnings
<1> QED BY <1>4 DEF Register!Next

LEMMA ShareRegisterSteps ==
  ASSUME IInv, PastKept, UNCHANGED <<now, dividendVars>>
  PROVE  /\ \A a \in Accounts : AddToControlList(a) => Register!Next
         /\ \A a \in Accounts, x \in Issues : Issue(a, x) => Register!Next
         /\ \A a, b \in Accounts, x \in Transfers : Move(a, b, x) => Register!Next
<1>1. /\ UNCHANGED <<now, PagesSoFar, Terms, PaidOut, TakenBack, usdc[Self], Earnings>>
      /\ balanceOf \in [Accounts -> Nat]
      /\ Issues \subseteq Nat /\ Transfers \subseteq Nat
  BY StillRegister, SharesAssumption DEF IInv, Pages, RegisterType
<1>2. ASSUME NEW a \in Accounts, AddToControlList(a) PROVE Register!Next
  <2>1. listed' = listed \cup {a} /\ balanceOf' = balanceOf
    BY <1>2 DEF AddToControlList, shareVars
  <2>2. Register!Admit(a)
    BY <1>1, <2>1 DEF Register!Admit, PagesSoFar, PageAt, Terms, PaidOut, TakenBack, Earnings
  <2> QED BY <2>2 DEF Register!Next
<1>3. ASSUME NEW a \in Accounts, NEW x \in Issues, Issue(a, x) PROVE Register!Next
  <2>1. /\ x > 0 /\ a \in listed /\ listed' = listed
        /\ balanceOf' = [balanceOf EXCEPT ![a] = @ + x]
    BY <1>1, <1>3 DEF Issue
  <2>2. Register!Issue(a, x)
    BY <1>1, <2>1 DEF Register!Issue, PagesSoFar, PageAt, Terms, PaidOut, TakenBack, Earnings
  <2> QED BY <2>2 DEF Register!Next
<1>4. ASSUME NEW a \in Accounts, NEW b \in Accounts, NEW x \in Transfers, Move(a, b, x)
      PROVE  Register!Next
  <2>1. /\ {a, b} \subseteq listed /\ x <= balanceOf[a] /\ listed' = listed /\ x \in Nat
        /\ balanceOf' = [[balanceOf EXCEPT ![a] = @ - x] EXCEPT ![b] = @ + x]
    BY <1>1, <1>4 DEF Move
  <2>2. balanceOf' = [c \in Accounts |-> balanceOf[c] - (IF c = a THEN x ELSE 0)
                                                       + (IF c = b THEN x ELSE 0)]
    <3>1. PICK sent : sent = [balanceOf EXCEPT ![a] = @ - x]
      OBVIOUS
    <3>2. \A c \in Accounts : balanceOf[c] \in Int /\ x \in Int
      BY <1>1, <2>1
    <3>3. /\ DOMAIN sent = Accounts
          /\ \A c \in Accounts : sent[c] = balanceOf[c] - (IF c = a THEN x ELSE 0)
      BY <1>1, <3>1, <3>2
    <3>4. balanceOf' = [sent EXCEPT ![b] = @ + x]
      BY <2>1, <3>1
    <3>5. \A c \in Accounts : sent[c] \in Int
      BY <3>2, <3>3
    <3>6. balanceOf' = [c \in Accounts |-> sent[c] + (IF c = b THEN x ELSE 0)]
      <4>1. balanceOf' = [c \in Accounts |-> IF c = b THEN sent[b] + x ELSE sent[c]]
        BY <3>3, <3>4
      <4>2. \A c \in Accounts : (IF c = b THEN sent[b] + x ELSE sent[c])
                                  = sent[c] + (IF c = b THEN x ELSE 0)
        BY <3>2, <3>5
      <4> QED BY <4>1, <4>2
    <3> QED BY <3>3, <3>6
  <2>3. Register!HandOver(a, b, x)
    BY <1>1, <2>1, <2>2
    DEF Register!HandOver, PagesSoFar, PageAt, Terms, PaidOut, TakenBack, Earnings
  <2> QED BY <2>3 DEF Register!Next
<1> QED BY <1>2, <1>3, <1>4

LEMMA AnnounceRegister ==
  ASSUME IInv, PastKept, NEW r \in Times, NEW e \in Times, NEW x \in Amounts, SetDividend(r, e, x)
  PROVE  Register!Next
<1>1. PICK d, n : d = [recordDate |-> r, executionDate |-> e, amount |-> x, claimed |-> 0]
                  /\ n = Len(dividends)
  OBVIOUS
<1>2. /\ n < MaxDividends /\ x # 0 /\ x \in Nat /\ r > now /\ e >= r
      /\ r \in Nat /\ e \in Nat
      /\ dividends' = Append(dividends, d)
      /\ usdc' = [usdc EXCEPT ![Issuer] = @ - x, ![Self] = @ + x]
      /\ UNCHANGED <<now, listed, balanceOf, claimedBy>>
  BY <1>1, SharesAssumption DEF SetDividend, shareVars, Times
<1>3. /\ now \in Nat /\ dividends \in Seq(Dividend) /\ n \in Nat /\ DOMAIN dividends = 1 .. n
      /\ usdc \in [Accounts \cup {Issuer, Self} -> Nat]
      /\ Issuer # Self /\ {Issuer, Self} \cap Accounts = {}
  BY <1>1, SharesAssumption, DividendTypes DEF IInv, Funds, DividendsType, Pages, RegisterType
<1>4. /\ d.recordDate = r /\ d.executionDate = e /\ d.amount = x /\ d.claimed = 0
  BY <1>1
<1>5. /\ DOMAIN dividends' = 1 .. n + 1
      /\ \A id \in 1 .. n : dividends'[id] = dividends[id]
      /\ dividends'[n + 1] = d
  <2>1. PICK q \in Seq(Dividend) : q = dividends /\ Len(q) = n
    BY <1>1, <1>3
  <2>2. PICK s : s = Append(q, d)
    OBVIOUS
  <2>3. /\ DOMAIN s = 1 .. n + 1 /\ s[n + 1] = d
        /\ \A id \in 1 .. n : s[id] = q[id]
    BY <1>3, <2>1, <2>2
  <2> QED BY <1>2, <2>1, <2>2, <2>3
<1>6. PagesSoFar' = PagesSoFar
  BY <1>2, <1>3, PagesStand
<1>7. /\ usdc'[Self] = usdc[Self] + x
      /\ Earnings' = Earnings
  <2>1. usdc'[Self] = usdc[Self] + x /\ \A a \in Accounts : usdc'[a] = usdc[a]
    BY <1>2, <1>3
  <2> QED BY <2>1 DEF Earnings
<1>8. PaidOut' = PaidOut
  BY <1>2 DEF PaidOut
<1>9. TakenBack' = TakenBack
  <2>1. \A id \in 1 .. n + 1 : id \in 1 .. n \/ id = n + 1
    BY <1>3
  <2>2. 1 .. n \subseteq 1 .. n + 1
    BY <1>3
  <2>3. TakenBack' = {id \in 1 .. n + 1 : claimedBy[id] = {} /\ dividends'[id].claimed = dividends'[id].amount}
    BY <1>2, <1>5 DEF TakenBack
  <2>4. dividends'[n + 1].claimed # dividends'[n + 1].amount
    BY <1>2, <1>4, <1>5
  <2>5. TakenBack = {id \in 1 .. n : claimedBy[id] = {} /\ dividends[id].claimed = dividends[id].amount}
    BY <1>3 DEF TakenBack
  <2> QED BY <1>5, <2>1, <2>2, <2>3, <2>4, <2>5
<1>10. Terms' = Append(Terms, [recordDate |-> r, executionDate |-> e, amount |-> x])
  <2> DEFINE term(p) == [recordDate |-> p.recordDate, executionDate |-> p.executionDate,
                         amount |-> p.amount]
  <2>1. Terms = [id \in 1 .. n |-> term(dividends[id])]
    BY <1>3 DEF Terms
  <2>2. Terms' = [id \in 1 .. n + 1 |-> term(dividends'[id])]
    BY <1>5 DEF Terms
  <2>3. term(dividends'[n + 1]) = [recordDate |-> r, executionDate |-> e, amount |-> x]
    BY <1>4, <1>5
  <2>4. \A id \in 1 .. n : term(dividends'[id]) = term(dividends[id])
    BY <1>5
  <2>5. PICK u : u = [recordDate |-> r, executionDate |-> e, amount |-> x]
    OBVIOUS
  <2>6. PICK f, g : f = Terms /\ g = Terms'
    OBVIOUS
  <2> HIDE DEF term
  <2>7. /\ f = [id \in 1 .. n |-> f[id]] /\ g = [id \in 1 .. n + 1 |-> g[id]]
        /\ g[n + 1] = u /\ \A id \in 1 .. n : g[id] = f[id]
    <3>1. \A id \in 1 .. n : id \in 1 .. n + 1
      BY <1>3
    <3>2. n + 1 \in 1 .. n + 1
      BY <1>3
    <3>3. DOMAIN f = 1 .. n /\ \A id \in 1 .. n : f[id] = term(dividends[id])
      BY <2>1, <2>6
    <3>4. DOMAIN g = 1 .. n + 1 /\ \A id \in 1 .. n + 1 : g[id] = term(dividends'[id])
      BY <2>2, <2>6
    <3> QED BY <2>1, <2>2, <2>3, <2>4, <2>5, <2>6, <3>1, <3>2, <3>3, <3>4
  <2>8. g = Append(f, u)
    <3>1. PICK S : S = {f[id] : id \in 1 .. n}
      OBVIOUS
    <3>2. f \in [1 .. n -> S]
      BY <2>7, <3>1
    <3>3. f \in Seq(S)
      BY <1>3, <3>2
    <3>4. Len(f) = n
      BY <1>3, <3>2, <3>3
    <3>5. Append(f, u) = [id \in 1 .. n + 1 |-> IF id = n + 1 THEN u ELSE f[id]]
      <4>1. PICK T : S \subseteq T /\ u \in T /\ f \in Seq(T)
        <5>1. PICK T : T = S \cup {u}
          OBVIOUS
        <5>2. f \in [1 .. n -> T]
          BY <3>2, <5>1
        <5>3. f \in Seq(T)
          BY <1>3, <5>2
        <5> QED BY <5>1, <5>3
      <4>2. PICK h : h = Append(f, u)
        OBVIOUS
      <4>3. h \in Seq(T) /\ Len(h) = n + 1
        BY <3>4, <4>1, <4>2
      <4>4. h[n + 1] = u /\ \A id \in 1 .. n : h[id] = f[id]
        BY <1>3, <3>4, <4>1, <4>2
      <4>5. h = [id \in 1 .. n + 1 |-> h[id]]
        BY ONLY <1>3, <4>3
      <4>6. \A id \in 1 .. n + 1 : h[id] = IF id = n + 1 THEN u ELSE f[id]
        BY <1>3, <4>4
      <4> QED BY <4>2, <4>5, <4>6
    <3>6. \A id \in 1 .. n + 1 : id = n + 1 \/ id \in 1 .. n
      BY <1>3
    <3>7. \A id \in 1 .. n + 1 : g[id] = IF id = n + 1 THEN u ELSE f[id]
      BY <2>7, <3>6
    <3> QED BY <2>7, <3>5, <3>7
  <2> QED BY <2>5, <2>6, <2>8
<1>11. Register!Announce(r, e, x)
  BY <1>2, <1>3, <1>6, <1>7, <1>8, <1>9, <1>10
  DEF Register!Announce, PagesSoFar, PageAt, Terms, PaidOut, TakenBack, Earnings
<1> QED BY <1>11 DEF Register!Next

(* Paying or taking back leaves the terms as announced.                    *)
LEMMA TermsStand ==
  ASSUME IInv, NEW id \in DOMAIN dividends, NEW v,
         dividends' = [dividends EXCEPT ![id].claimed = v]
  PROVE  /\ Terms' = Terms /\ DOMAIN dividends' = DOMAIN dividends
         /\ dividends'[id].amount = dividends[id].amount /\ dividends'[id].claimed = v
         /\ \A other \in DOMAIN dividends \ {id} : dividends'[other] = dividends[other]
<1>1. dividends \in Seq(Dividend) /\ DOMAIN dividends = 1 .. Len(dividends)
      /\ dividends[id] \in Dividend
  BY DividendTypes DEF IInv, Funds, DividendsType
<1>2. PICK d : d = [dividends[id] EXCEPT !.claimed = v]
  OBVIOUS
<1>3. /\ d.recordDate = dividends[id].recordDate
      /\ d.executionDate = dividends[id].executionDate
      /\ d.amount = dividends[id].amount /\ d.claimed = v
  BY <1>1, <1>2 DEF Dividend
<1>4. dividends' = [dividends EXCEPT ![id] = d]
  BY <1>2
<1>5. /\ DOMAIN dividends' = DOMAIN dividends /\ dividends'[id] = d
      /\ \A other \in DOMAIN dividends \ {id} : dividends'[other] = dividends[other]
  BY <1>1, <1>4
<1>6. \A other \in DOMAIN dividends :
         /\ dividends'[other].recordDate = dividends[other].recordDate
         /\ dividends'[other].executionDate = dividends[other].executionDate
         /\ dividends'[other].amount = dividends[other].amount
  BY <1>3, <1>5
<1>7. Terms' = Terms
  BY <1>5, <1>6 DEF Terms
<1> QED BY <1>3, <1>5, <1>7

LEMMA RegisterSum ==
  ASSUME NEW f, NEW S
  PROVE  Register!SumFunctionOnSet(f, S) = SumFunctionOnSet(f, S)
BY DEF Register!SumFunctionOnSet, Register!FoldFunctionOnSet, Register!MapThenFoldSet,
       SumFunctionOnSet, FoldFunctionOnSet, MapThenFoldSet

LEMMA HeldAndSupply ==
  ASSUME IInv, NEW id \in DOMAIN dividends, Reached(id)
  PROVE  /\ Register!Recorded(id)
         /\ Register!HeldByAll(id) = SupplyFor(id)
         /\ \A a \in Accounts : Register!HeldBy(id, a) = BalanceOfAt(a, dividends[id].recordDate)
<1>1. PICK record \in Nat : record = dividends[id].recordDate /\ record < now
  <2>1. dividends[id].recordDate \in Nat
    BY DividendTypes DEF IInv, Funds
  <2> QED BY <2>1 DEF Reached
<1>2. now \in Nat /\ record \in 0 .. now /\ record \in 0 .. now - 1
  BY <1>1 DEF IInv, Pages, RegisterType
<1>3. Terms[id].recordDate = record
  BY <1>1 DEF Terms
<1>4. PagesSoFar[record] = PageAt(record)
  BY <1>2 DEF PagesSoFar
<1>5. TotalSupplyAt(record) = SumFunctionOnSet(PageAt(record), Accounts)
  BY <1>2 DEF IInv, Pages, SnapshotsAddUp, PageAt
<1>6. Register!Recorded(id)
  BY <1>1, <1>3 DEF Register!Recorded, Terms
<1>7. Register!HeldByAll(id) = SupplyFor(id)
  <2>1. Register!HeldByAll(id) = SumFunctionOnSet(PagesSoFar[Terms[id].recordDate], Accounts)
    BY RegisterSum, Zenon DEF Register!HeldByAll, Terms, PagesSoFar, PageAt
  <2>2. PagesSoFar[Terms[id].recordDate] = PageAt(record)
    BY <1>3, <1>4
  <2> QED BY <1>1, <1>5, <2>1, <2>2, Zenon DEF SupplyFor
<1>8. \A a \in Accounts : Register!HeldBy(id, a) = BalanceOfAt(a, record)
  BY <1>3, <1>4 DEF Register!HeldBy, Terms, PagesSoFar, PageAt
<1> QED BY <1>1, <1>6, <1>7, <1>8

LEMMA ClaimRegister ==
  ASSUME IInv, PastKept, NEW id \in DOMAIN dividends, NEW a \in Accounts, ClaimDividend(id, a)
  PROVE  Register!Next
<1>1. PICK part \in Nat : part = Owed(id, a)
  BY OwedType DEF IInv, Funds
<1>2. /\ now >= dividends[id].executionDate /\ a \notin claimedBy[id] /\ part # 0
      /\ claimedBy' = [claimedBy EXCEPT ![id] = @ \cup {a}]
      /\ dividends' = [dividends EXCEPT ![id].claimed = @ + part]
      /\ usdc' = [usdc EXCEPT ![Self] = @ - part, ![a] = @ + part]
      /\ UNCHANGED <<now, listed, balanceOf>>
  BY <1>1 DEF ClaimDividend, shareVars
<1>3. /\ now \in Nat /\ id \in DividendIds /\ DOMAIN dividends \subseteq DividendIds
      /\ claimedBy \in [DividendIds -> SUBSET Accounts]
      /\ usdc \in [Accounts \cup {Issuer, Self} -> Nat]
      /\ {Issuer, Self} \cap Accounts = {}
      /\ dividends[id].executionDate \in Nat
  BY SharesAssumption, DividendTypes DEF IInv, Funds, DividendsType, Pages, RegisterType
<1>4. Reached(id) /\ SupplyFor(id) # 0
      /\ part = (dividends[id].amount * BalanceOfAt(a, dividends[id].recordDate)) \div SupplyFor(id)
  BY <1>1, <1>2 DEF Owed, SupplyFor
<1>5. PagesSoFar' = PagesSoFar
  BY <1>2, <1>3, PagesStand
<1>6. /\ Terms' = Terms /\ DOMAIN dividends' = DOMAIN dividends
      /\ \A other \in DOMAIN dividends \ {id} : dividends'[other] = dividends[other]
  <2>1. PICK v : dividends' = [dividends EXCEPT ![id].claimed = v]
    BY <1>2
  <2> QED BY <2>1, TermsStand
<1>7. /\ claimedBy'[id] = claimedBy[id] \cup {a}
      /\ \A other \in DividendIds \ {id} : claimedBy'[other] = claimedBy[other]
  BY <1>2, <1>3
<1>8. <<id, a>> \notin PaidOut /\ PaidOut' = PaidOut \cup {<<id, a>>}
  BY <1>2, <1>3, <1>7 DEF PaidOut
<1>9. TakenBack' = TakenBack
  <2>1. id \notin TakenBack
    <3>1. Standing(id)
      BY DEF IInv, Funds, Sound
    <3> QED BY <1>4, <3>1 DEF Standing, TakenBack
  <2>2. id \notin TakenBack'
    BY <1>7 DEF TakenBack
  <2>3. \A other \in DOMAIN dividends \ {id} : other \in TakenBack' <=> other \in TakenBack
    BY <1>3, <1>6, <1>7 DEF TakenBack
  <2>4. TakenBack \subseteq DOMAIN dividends /\ TakenBack' \subseteq DOMAIN dividends
    BY <1>6 DEF TakenBack
  <2> QED BY <2>1, <2>2, <2>3, <2>4
<1>10. usdc'[Self] = usdc[Self] - part /\ Earnings' = [Earnings EXCEPT ![a] = @ + part]
  <2>1. usdc'[Self] = usdc[Self] - part
    BY <1>2, <1>3
  <2>2. \A b \in Accounts : usdc'[b] = IF b = a THEN usdc[a] + part ELSE usdc[b]
    BY <1>2, <1>3
  <2> QED BY <2>1, <2>2 DEF Earnings
<1>11. /\ Register!Recorded(id) /\ Register!HeldByAll(id) # 0
       /\ Register!Portion(id, a) = part
  <2>1. Terms[id].amount = dividends[id].amount
    BY DEF Terms
  <2>2. /\ Register!HeldByAll(id) = SupplyFor(id)
        /\ Register!HeldBy(id, a) = BalanceOfAt(a, dividends[id].recordDate)
        /\ Register!Recorded(id)
    BY <1>4, HeldAndSupply
  <2> QED BY <1>4, <2>1, <2>2 DEF Register!Portion, Terms
<1>12. Terms[id].executionDate <= now
  <2>1. Terms[id].executionDate = dividends[id].executionDate
    BY DEF Terms
  <2> QED BY <1>2, <1>3, <2>1
<1>13. Register!Pay(id, a)
  BY <1>2, <1>5, <1>6, <1>8, <1>9, <1>10, <1>11, <1>12
  DEF Register!Pay, PagesSoFar, PageAt, Terms, PaidOut, TakenBack, Earnings
<1>14. id \in DOMAIN Terms
  BY DEF Terms
<1> QED BY <1>13, <1>14 DEF Register!Next, Terms

LEMMA ReclaimRegister ==
  ASSUME IInv, PastKept, NEW id \in DOMAIN dividends, ReclaimDividend(id)
  PROVE  Register!Next
<1>1. PICK amount \in Nat : amount = dividends[id].amount
  BY DividendTypes DEF IInv, Funds
<1>2. /\ now \in Nat /\ id \in DividendIds
      /\ usdc \in [Accounts \cup {Issuer, Self} -> Nat]
      /\ Issuer # Self /\ {Issuer, Self} \cap Accounts = {}
      /\ dividends[id].claimed \in Nat
  BY SharesAssumption, DividendTypes DEF IInv, Funds, DividendsType, Pages, RegisterType
<1>3. /\ Reached(id) /\ SupplyFor(id) = 0 /\ amount - dividends[id].claimed # 0
      /\ dividends' = [dividends EXCEPT ![id].claimed = amount]
      /\ UNCHANGED <<now, listed, balanceOf, claimedBy>>
      /\ usdc' = [usdc EXCEPT ![Self] = @ - (amount - dividends[id].claimed),
                              ![Issuer] = @ + (amount - dividends[id].claimed)]
  BY <1>1 DEF ReclaimDividend, SupplyFor, shareVars
<1>4. claimedBy[id] = {} /\ dividends[id].claimed = 0
  <2>1. Standing(id)
    BY DEF IInv, Funds, Sound
  <2> QED BY <1>1, <1>2, <1>3, <2>1 DEF Standing
<1>5. PagesSoFar' = PagesSoFar
  BY <1>2, <1>3, PagesStand
<1>6. /\ Terms' = Terms /\ DOMAIN dividends' = DOMAIN dividends
      /\ dividends'[id].amount = amount /\ dividends'[id].claimed = amount
      /\ \A other \in DOMAIN dividends \ {id} : dividends'[other] = dividends[other]
  BY <1>1, <1>3, TermsStand
<1>7. id \notin TakenBack /\ TakenBack' = TakenBack \cup {id}
  <2>1. id \notin TakenBack
    BY <1>1, <1>2, <1>3 DEF TakenBack
  <2>2. id \in TakenBack'
    BY <1>3, <1>4, <1>6 DEF TakenBack
  <2>3. \A other \in DOMAIN dividends \ {id} : other \in TakenBack' <=> other \in TakenBack
    BY <1>3, <1>6 DEF TakenBack
  <2>4. TakenBack \subseteq DOMAIN dividends /\ TakenBack' \subseteq DOMAIN dividends
    BY <1>6 DEF TakenBack
  <2> QED BY <2>1, <2>2, <2>3, <2>4
<1>8. usdc'[Self] = usdc[Self] - amount /\ Earnings' = Earnings
  <2>1. usdc' = [usdc EXCEPT ![Self] = @ - amount, ![Issuer] = @ + amount]
    <3>1. amount - dividends[id].claimed = amount
      BY <1>4
    <3> QED BY <1>3, <3>1
  <2>2. usdc'[Self] = usdc[Self] - amount /\ \A a \in Accounts : usdc'[a] = usdc[a]
    BY <1>2, <2>1
  <2> QED BY <2>2 DEF Earnings
<1>9. PaidOut' = PaidOut
  BY <1>3 DEF PaidOut
<1>10. /\ Register!Recorded(id) /\ Register!HeldByAll(id) = 0
       /\ Terms[id].amount = amount /\ id \in DOMAIN Terms
  BY <1>1, <1>3, HeldAndSupply DEF Terms
<1>11. Register!TakeBack(id)
  BY <1>3, <1>5, <1>6, <1>7, <1>8, <1>9, <1>10
  DEF Register!TakeBack, PagesSoFar, PageAt, Terms, PaidOut, TakenBack, Earnings
<1> QED BY <1>10, <1>11 DEF Register!Next, Terms

LEMMA InitRegister == Init => Register!Init
<1> SUFFICES ASSUME Init PROVE Register!Init
  OBVIOUS
<1>1. /\ now = 0 /\ listed = {} /\ dividends = <<>>
      /\ balanceOf = [a \in Accounts |-> 0]
      /\ claimedBy = [id \in DividendIds |-> {}]
      /\ usdc = [h \in Accounts \cup {Issuer, Self} |-> IF h = Issuer THEN IssuerDollars ELSE 0]
      /\ Issuer # Self /\ {Issuer, Self} \cap Accounts = {}
  BY SharesAssumption DEF Init
<1>2. 0 .. now - 1 = {} /\ DOMAIN dividends = {}
  BY <1>1
<1>3. PagesSoFar = [t \in {} |-> balanceOf]
  BY <1>2 DEF PagesSoFar
<1>4. Terms = <<>>
  BY <1>2 DEF Terms
<1>5. PaidOut = {}
  BY <1>1 DEF PaidOut
<1>6. TakenBack = {}
  BY <1>2 DEF TakenBack
<1>7. usdc[Self] = 0 /\ Earnings = [a \in Accounts |-> 0]
  BY <1>1 DEF Earnings
<1> QED BY <1>1, <1>3, <1>4, <1>5, <1>6, <1>7
        DEF Register!Init, PagesSoFar, PageAt, Terms, PaidOut, TakenBack, Earnings

LEMMA StepRegister ==
  ASSUME IInv, [Next]_vars
  PROVE  [Register!Next]_(Register!registerVars)
<1>1. PastKept
  BY StepIInv
<1>2. CASE Tick
  BY <1>2, TickRegister
<1>3. ASSUME NEW a \in Accounts, AddToControlList(a) PROVE Register!Next
  <2>1. UNCHANGED <<now, dividendVars>>
    BY <1>3 DEF AddToControlList
  <2> QED BY <1>1, <1>3, <2>1, ShareRegisterSteps
<1>4. ASSUME NEW a \in Accounts, NEW x \in Issues, Issue(a, x) PROVE Register!Next
  <2>1. UNCHANGED <<now, dividendVars>>
    BY <1>4 DEF Issue
  <2> QED BY <1>1, <1>4, <2>1, ShareRegisterSteps
<1>5. ASSUME NEW a \in Accounts, NEW b \in Accounts, NEW x \in Transfers, Move(a, b, x)
      PROVE  Register!Next
  <2>1. UNCHANGED <<now, dividendVars>>
    BY <1>5 DEF Move
  <2> QED BY <1>1, <1>5, <2>1, ShareRegisterSteps
<1>6. ASSUME NEW a, NEW s, NEW x, Approve(a, s, x) PROVE UNCHANGED Register!registerVars
  <2>1. UNCHANGED <<now, dividendVars>> /\ UNCHANGED <<listed, balanceOf>>
    BY <1>6 DEF Approve, shareVars
  <2>2. UNCHANGED registerView
    BY <1>1, <2>1, StillRegister DEF registerView
  <2> QED BY <2>2, SameRegister
<1>7. CASE UNCHANGED vars
  <2>1. UNCHANGED <<now, dividendVars>> /\ UNCHANGED <<listed, balanceOf>>
    BY <1>7 DEF vars, shareVars
  <2>2. UNCHANGED registerView
    BY <1>1, <2>1, StillRegister DEF registerView
  <2> QED BY <2>2, SameRegister
<1> QED BY <1>1, <1>2, <1>3, <1>4, <1>5, <1>6, <1>7,
           AnnounceRegister, ClaimRegister, ReclaimRegister
        DEF Next, Transfer, TransferFrom

(* The contract keeps the promise of ShareRegister: every step of it is one *)
(* of the register's or leaves the register as it is.                      *)
THEOREM SpecImplementsShareRegister == Spec => ImplementsShareRegister
<1>1. Init => Register!Init
  BY InitRegister
<1>2. IInv /\ [Next]_vars => [Register!Next]_(Register!registerVars)
  BY StepRegister
<1> QED BY IInvHolds, <1>1, <1>2, PTL DEF Spec, ImplementsShareRegister, Register!Spec
=============================================================================
