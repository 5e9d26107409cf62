------------------------ MODULE BlockDownload_proofs ------------------------
(***************************************************************************)
(* Proofs about BlockDownload.  Filter and MarkedBlocks are recursive       *)
(* functions: for each, a first lemma shows that it satisfies its defining  *)
(* equation, and a second one what it computes, both by NatSetInduction.    *)
(***************************************************************************)
EXTENDS BlockDownload, FiniteSetTheorems, Induction

(***************************************************************************)
(* Sequences.                                                              *)
(***************************************************************************)

\* What appending an element does to the elements and to their distinctness.
LEMMA AppendFacts ==
  ASSUME NEW T, NEW s \in Seq(T), NEW x \in T
  PROVE  /\ Append(s, x) \in Seq(T)
         /\ Range(Append(s, x)) = Range(s) \cup {x}
         /\ IsInjective(s) /\ x \notin Range(s) => IsInjective(Append(s, x))
<1>1. Append(s, x) \in Seq(T)  OBVIOUS
<1>2. /\ Len(Append(s, x)) = Len(s) + 1
      /\ \A i \in 1..Len(s) : Append(s, x)[i] = s[i]
      /\ Append(s, x)[Len(s) + 1] = x
  OBVIOUS
<1>3. Range(Append(s, x)) = Range(s) \cup {x}
  BY <1>1, <1>2 DEF Range
<1>4. ASSUME IsInjective(s), x \notin Range(s)  PROVE IsInjective(Append(s, x))
  <2> SUFFICES ASSUME NEW i \in 1..Len(s) + 1, NEW j \in 1..Len(s) + 1,
                      Append(s, x)[i] = Append(s, x)[j]
               PROVE  i = j
    BY <1>1, <1>2 DEF IsInjective
  <2>1. \A k \in 1..Len(s) : s[k] # x  BY <1>4 DEF Range
  <2>2. CASE i \in 1..Len(s) /\ j \in 1..Len(s)  BY <2>2, <1>2, <1>4 DEF IsInjective
  <2>3. CASE i = Len(s) + 1 \/ j = Len(s) + 1  BY <2>1, <2>3, <1>2
  <2> QED  BY <2>2, <2>3
<1> QED  BY <1>1, <1>3, <1>4

\* Filtered satisfies its equation.
LEMMA FilteredDef ==
  ASSUME NEW T, NEW s \in Seq(T), NEW S
  PROVE  \A i \in 0..Len(s) :
           Filtered(s, S)[i] =
             IF i = 0 THEN <<>>
             ELSE IF s[i] \in S THEN Append(Filtered(s, S)[i - 1], s[i])
                                ELSE Filtered(s, S)[i - 1]
<1> DEFINE G(g, n) == [i \in 0..n |->
                         IF i = 0 THEN <<>>
                         ELSE IF s[i] \in S THEN Append(g[i - 1], s[i]) ELSE g[i - 1]]
           D == {n \in Nat : \E g : g = G(g, n)}
<1>1. 0 \in D
  <2> DEFINE g == [i \in 0..0 |-> <<>>]
  <2>1. g = G(g, 0)  OBVIOUS
  <2> QED  BY <2>1
<1>2. ASSUME NEW n \in Nat, n \in D  PROVE n + 1 \in D
  <2>1. PICK g : g = G(g, n)  BY <1>2
  <2> DEFINE x == IF s[n + 1] \in S THEN Append(g[n], s[n + 1]) ELSE g[n]
             h == [i \in 0..n + 1 |-> IF i = n + 1 THEN x ELSE g[i]]
  <2>2. \A i \in 0..n : h[i] = g[i]  OBVIOUS
  <2>3. h = G(h, n + 1)
    <3> SUFFICES ASSUME NEW i \in 0..n + 1  PROVE h[i] = G(h, n + 1)[i]  OBVIOUS
    <3>1. CASE i = n + 1  BY <3>1, <2>2
    <3>2. CASE i \in 0..n
      <4>1. h[i] = g[i]  BY <3>2, <2>2
      <4>2. g[i] = G(g, n)[i]  BY <2>1
      <4>3. i # 0 => h[i - 1] = g[i - 1]  BY <3>2, <2>2
      <4> QED  BY <4>1, <4>2, <4>3, <3>2
    <3> QED  BY <3>1, <3>2
  <2> HIDE DEF h
  <2> QED  BY <2>3
<1>3. \A n \in Nat : n \in D
  <2> HIDE DEF D
  <2> QED  BY <1>1, <1>2, NatSetInduction
<1>4. PICK g : g = G(g, Len(s))  BY <1>3
<1>5. Filtered(s, S) = CHOOSE f : f = G(f, Len(s))  BY Zenon DEF Filtered
<1>6. \A f : \A i \in 0..Len(s) :
        G(f, Len(s))[i] = IF i = 0 THEN <<>>
                          ELSE IF s[i] \in S THEN Append(f[i - 1], s[i]) ELSE f[i - 1]
  OBVIOUS
<1> HIDE DEF G
<1>7. Filtered(s, S) = G(Filtered(s, S), Len(s))  BY <1>4, <1>5, Zenon
<1> QED  BY <1>6, <1>7, Zenon

\* Filter keeps the elements that are in S, and no two of different ones.
LEMMA FilterFacts ==
  ASSUME NEW T, NEW s \in Seq(T), NEW S
  PROVE  /\ Filter(s, S) \in Seq(T)
         /\ Range(Filter(s, S)) = Range(s) \cap S
         /\ IsInjective(s) => IsInjective(Filter(s, S))
<1> DEFINE F == Filtered(s, S)
           Upto(n) == {s[j] : j \in 1..n}
           P(n) == /\ F[n] \in Seq(T)
                   /\ Range(F[n]) = Upto(n) \cap S
                   /\ IsInjective(s) => IsInjective(F[n])
           D == {n \in Nat : n <= Len(s) => P(n)}
<1>1. /\ F[0] = <<>>
      /\ \A n \in 1..Len(s) : F[n] = IF s[n] \in S THEN Append(F[n - 1], s[n]) ELSE F[n - 1]
  <2> HIDE DEF F
  <2>1. \A i \in 0..Len(s) : F[i] = IF i = 0 THEN <<>>
                                    ELSE IF s[i] \in S THEN Append(F[i - 1], s[i]) ELSE F[i - 1]
    BY FilteredDef DEF F
  <2>2. 0 \in 0..Len(s) /\ \A n \in 1..Len(s) : n \in 0..Len(s) /\ n # 0  OBVIOUS
  <2> QED  BY <2>1, <2>2, Zenon
<1> HIDE DEF F
<1>2. 0 \in D
  <2>1. Range(<<>>) = {} /\ IsInjective(<<>>)  BY DEF Range, IsInjective
  <2>2. Upto(0) = {}  OBVIOUS
  <2>3. <<>> \in Seq(T)  OBVIOUS
  <2> HIDE DEF Upto
  <2>4. P(0)  BY <1>1, <2>1, <2>2, <2>3, Zenon
  <2> QED  BY <2>4
<1>3. ASSUME NEW n \in Nat, n \in D  PROVE n + 1 \in D
  <2> SUFFICES ASSUME n + 1 <= Len(s)  PROVE P(n + 1)  OBVIOUS
  <2>1. P(n)  BY <1>3
  <2>2. n + 1 \in 1..Len(s) /\ s[n + 1] \in T  OBVIOUS
  <2>3. F[n + 1] = IF s[n + 1] \in S THEN Append(F[n], s[n + 1]) ELSE F[n]
    BY <1>1, <2>2
  <2>4. Upto(n + 1) = Upto(n) \cup {s[n + 1]}
    <3>1. 1..n + 1 = 1..n \cup {n + 1}  OBVIOUS
    <3> QED  BY <3>1
  <2>5. IsInjective(s) => s[n + 1] \notin Upto(n)
    BY <2>2 DEF IsInjective
  <2> HIDE DEF Upto
  <2>6. CASE s[n + 1] \in S
    <3>1. F[n + 1] = Append(F[n], s[n + 1])  BY <2>3, <2>6
    <3>2. /\ F[n + 1] \in Seq(T) /\ Range(F[n + 1]) = Range(F[n]) \cup {s[n + 1]}
          /\ IsInjective(F[n]) /\ s[n + 1] \notin Range(F[n]) => IsInjective(F[n + 1])
      BY <2>1, <2>2, <3>1, AppendFacts
    <3> QED  BY <2>1, <2>4, <2>5, <2>6, <3>2
  <2>7. CASE s[n + 1] \notin S  BY <2>1, <2>3, <2>4, <2>7
  <2> QED  BY <2>6, <2>7
<1>4. \A n \in Nat : n \in D
  <2> HIDE DEF D
  <2> QED  BY <1>2, <1>3, NatSetInduction
<1>5. P(Len(s))
  <2> HIDE DEF P
  <2> QED  BY <1>4
<1>6. Upto(Len(s)) = Range(s)  BY DEF Range
<1>7. Filter(s, S) = F[Len(s)]  BY DEF Filter, F
<1> HIDE DEF Upto
<1> QED  BY <1>5, <1>6, <1>7

(***************************************************************************)
(* Blocks in flight.                                                       *)
(***************************************************************************)

\* The map and the lists agree, for the blocks in flight f and the peers C
\* that are connected: InFlightConsistent as a predicate on the record that
\* MarkBlockAsReceived and MarkBlockAsInFlight transform.
FlightOK(f, C) ==
  /\ f.lists \in [Peer -> Seq(Block)]
  /\ f.map \in [Block -> Peer \cup {NoPeer}]
  /\ \A b \in Block : f.map[b] # NoPeer => f.map[b] \in C /\ b \in Range(f.lists[f.map[b]])
  /\ \A q \in Peer : /\ IsInjective(f.lists[q])
                     /\ \A b \in Range(f.lists[q]) : f.map[b] = q

\* MarkBlockAsReceived keeps them in agreement and leaves the block nowhere.
LEMMA ReceivedOK ==
  ASSUME NEW f, NEW C, FlightOK(f, C), NEW b \in Block
  PROVE  /\ FlightOK(MarkBlockAsReceived(f, b), C)
         /\ MarkBlockAsReceived(f, b).map[b] = NoPeer
<1>1. CASE f.map[b] = NoPeer  BY <1>1 DEF MarkBlockAsReceived
<1>2. CASE f.map[b] # NoPeer
  <2> DEFINE o == f.map[b]
             g == MarkBlockAsReceived(f, b)
             left == Filter(f.lists[o], Block \ {b})
  <2>1. o \in Peer /\ o \in C /\ f.lists[o] \in Seq(Block)  BY <1>2 DEF FlightOK
  <2>2. g.lists = [f.lists EXCEPT ![o] = left] /\ g.map = [f.map EXCEPT ![b] = NoPeer]
    BY <1>2 DEF MarkBlockAsReceived
  <2>3. /\ left \in Seq(Block)
        /\ Range(left) = Range(f.lists[o]) \cap (Block \ {b})
        /\ IsInjective(left)
    <3>1. IsInjective(f.lists[o])  BY <2>1 DEF FlightOK
    <3> HIDE DEF o
    <3>2. /\ left \in Seq(Block)
          /\ Range(left) = Range(f.lists[o]) \cap (Block \ {b})
          /\ IsInjective(f.lists[o]) => IsInjective(left)
      BY <2>1, FilterFacts
    <3> QED  BY <3>1, <3>2
  <2> HIDE DEF left, g
  <2>4. g.lists \in [Peer -> Seq(Block)] /\ g.map \in [Block -> Peer \cup {NoPeer}]
    <3>1. f.lists \in [Peer -> Seq(Block)] /\ f.map \in [Block -> Peer \cup {NoPeer}]
      BY DEF FlightOK
    <3> HIDE DEF o
    <3> QED  BY <2>2, <2>3, <3>1
  <2>5. \A q \in Peer : g.lists[q] = IF q = o THEN left ELSE f.lists[q]
    BY <2>2 DEF FlightOK
  <2>6. \A c \in Block : g.map[c] = IF c = b THEN NoPeer ELSE f.map[c]
    BY <2>2 DEF FlightOK
  <2>7. ASSUME NEW c \in Block, g.map[c] # NoPeer
        PROVE  g.map[c] \in C /\ c \in Range(g.lists[g.map[c]])
    <3>1. c # b /\ g.map[c] = f.map[c]  BY <2>6, <2>7
    <3>2. f.map[c] \in C /\ c \in Range(f.lists[f.map[c]]) /\ f.map[c] \in Peer
      BY <2>7, <3>1 DEF FlightOK
    <3> QED  BY <2>3, <2>5, <3>1, <3>2
  <2>8. ASSUME NEW q \in Peer  PROVE IsInjective(g.lists[q])
    BY <2>3, <2>5 DEF FlightOK
  <2>9. ASSUME NEW q \in Peer, NEW c \in Range(g.lists[q])  PROVE g.map[c] = q
    <3>1. c \in Range(f.lists[q]) /\ (q = o => c # b)
      BY <2>3, <2>5, <2>9
    <3>2. f.map[c] = q  BY <3>1 DEF FlightOK
    <3>3. c # b  BY <3>1, <3>2
    <3>4. c \in Block
      <4>1. f.lists[q] \in Seq(Block)  BY DEF FlightOK
      <4> QED  BY <3>1, <4>1 DEF Range
    <3> QED  BY <2>6, <3>2, <3>3, <3>4
  <2>10. FlightOK(g, C)  BY <2>4, <2>7, <2>8, <2>9 DEF FlightOK
  <2> QED  BY <2>6, <2>10 DEF g
<1> QED  BY <1>1, <1>2

\* MarkBlockAsInFlight keeps them in agreement: the block leaves its old list
\* before it enters the new one.
LEMMA InFlightOK ==
  ASSUME NEW f, NEW C, FlightOK(f, C), NEW p \in Peer, p \in C, NEW b \in Block
  PROVE  FlightOK(MarkBlockAsInFlight(f, p, b), C)
<1> DEFINE g == MarkBlockAsReceived(f, b)
           h == MarkBlockAsInFlight(f, p, b)
           longer == Append(g.lists[p], b)
<1>1. FlightOK(g, C) /\ g.map[b] = NoPeer  BY ReceivedOK
<1>2. h.lists = [g.lists EXCEPT ![p] = longer] /\ h.map = [g.map EXCEPT ![b] = p]
  BY DEF MarkBlockAsInFlight
<1> HIDE DEF g, h
<1>3. g.lists[p] \in Seq(Block) /\ IsInjective(g.lists[p])  BY <1>1 DEF FlightOK
<1>4. b \notin Range(g.lists[p])
  BY <1>1, DownloadAssumption DEF FlightOK, DownloadAssumption
<1>5. /\ longer \in Seq(Block) /\ Range(longer) = Range(g.lists[p]) \cup {b}
      /\ IsInjective(longer)
  BY <1>3, <1>4, AppendFacts
<1> HIDE DEF longer
<1>6. /\ h.lists \in [Peer -> Seq(Block)] /\ h.map \in [Block -> Peer \cup {NoPeer}]
      /\ \A q \in Peer : h.lists[q] = IF q = p THEN longer ELSE g.lists[q]
      /\ \A c \in Block : h.map[c] = IF c = b THEN p ELSE g.map[c]
  BY <1>1, <1>2, <1>5 DEF FlightOK
<1>7. ASSUME NEW c \in Block, h.map[c] # NoPeer
      PROVE  h.map[c] \in C /\ c \in Range(h.lists[h.map[c]])
  <2>1. CASE c = b  BY <2>1, <1>5, <1>6
  <2>2. CASE c # b
    <3>1. /\ h.map[c] = g.map[c] /\ g.map[c] \in Peer /\ g.map[c] \in C
          /\ c \in Range(g.lists[g.map[c]])
      BY <1>1, <1>6, <1>7, <2>2 DEF FlightOK
    <3> QED  BY <1>5, <1>6, <3>1
  <2> QED  BY <2>1, <2>2
<1>8. ASSUME NEW q \in Peer  PROVE IsInjective(h.lists[q])
  BY <1>1, <1>5, <1>6 DEF FlightOK
<1>9. ASSUME NEW q \in Peer, NEW c \in Range(h.lists[q])  PROVE h.map[c] = q
  <2>1. CASE c = b
    <3>1. q # p => b \in Range(g.lists[q])  BY <1>6, <1>9, <2>1
    <3>2. q = p
      BY <3>1, <1>1, DownloadAssumption DEF FlightOK, DownloadAssumption
    <3> QED  BY <1>6, <2>1, <3>2
  <2>2. CASE c # b
    <3>1. c \in Range(g.lists[q])  BY <1>5, <1>6, <1>9, <2>2
    <3>2. g.map[c] = q /\ g.lists[q] \in Seq(Block)  BY <1>1, <3>1 DEF FlightOK
    <3>3. c \in Block  BY <3>1, <3>2 DEF Range
    <3> QED  BY <1>6, <2>2, <3>2, <3>3
  <2> QED  BY <2>1, <2>2
<1>10. FlightOK(h, C)  BY <1>6, <1>7, <1>8, <1>9 DEF FlightOK
<1> QED  BY <1>10 DEF h

\* MarkedBlocks satisfies its equation.
LEMMA MarkedBlocksDef ==
  ASSUME NEW f, NEW p, NEW s \in Seq(Block)
  PROVE  \A i \in 0..Len(s) :
           MarkedBlocks(f, p, s)[i] =
             IF i = 0 THEN f ELSE MarkBlockAsInFlight(MarkedBlocks(f, p, s)[i - 1], p, s[i])
<1> DEFINE Op(x, b) == MarkBlockAsInFlight(x, p, b)
           G(g, n) == [i \in 0..n |-> IF i = 0 THEN f ELSE Op(g[i - 1], s[i])]
           D == {n \in Nat : \E g : g = G(g, n)}
<1>1. MarkedBlocks(f, p, s) = CHOOSE g : g = G(g, Len(s))  BY Zenon DEF MarkedBlocks
<1> HIDE DEF Op
<1>2. 0 \in D
  <2> DEFINE g == [i \in 0..0 |-> f]
  <2>1. g = G(g, 0)  OBVIOUS
  <2> QED  BY <2>1
<1>3. ASSUME NEW n \in Nat, n \in D  PROVE n + 1 \in D
  <2>1. PICK g : g = G(g, n)  BY <1>3
  <2> DEFINE x == Op(g[n], s[n + 1])
             h == [i \in 0..n + 1 |-> IF i = n + 1 THEN x ELSE g[i]]
  <2>2. \A i \in 0..n : h[i] = g[i]  OBVIOUS
  <2>3. h = G(h, n + 1)
    <3> SUFFICES ASSUME NEW i \in 0..n + 1  PROVE h[i] = G(h, n + 1)[i]  OBVIOUS
    <3>1. CASE i = n + 1  BY <3>1, <2>2
    <3>2. CASE i \in 0..n
      <4>1. h[i] = g[i]  BY <3>2, <2>2
      <4>2. g[i] = G(g, n)[i]  BY <2>1
      <4>3. i # 0 => h[i - 1] = g[i - 1]  BY <3>2, <2>2
      <4> QED  BY <4>1, <4>2, <4>3, <3>2
    <3> QED  BY <3>1, <3>2
  <2>4. n + 1 \in Nat  OBVIOUS
  <2> HIDE DEF h, G
  <2> QED  BY <2>3, <2>4, Zenon
<1>4. \A n \in Nat : n \in D
  <2> HIDE DEF D
  <2> QED  BY <1>2, <1>3, NatSetInduction
<1>5. PICK g : g = G(g, Len(s))  BY <1>4
<1>6. \A h : \A i \in 0..Len(s) :
        G(h, Len(s))[i] = IF i = 0 THEN f ELSE Op(h[i - 1], s[i])
  OBVIOUS
<1> HIDE DEF G
<1>7. MarkedBlocks(f, p, s) = G(MarkedBlocks(f, p, s), Len(s))  BY <1>1, <1>5, Zenon
<1> QED  BY <1>6, <1>7, Zenon DEF Op

\* The loop of SendMessages keeps the map and the lists in agreement, however
\* many blocks it requests, of whoever they are in flight from.
LEMMA LoopOK ==
  ASSUME NEW f, NEW C, FlightOK(f, C), NEW p \in Peer, p \in C, NEW s \in Seq(Block)
  PROVE  FlightOK(MarkedBlocks(f, p, s)[Len(s)], C)
<1> DEFINE g == MarkedBlocks(f, p, s)
           D == {n \in Nat : n <= Len(s) => FlightOK(g[n], C)}
<1>1. \A i \in 0..Len(s) : g[i] = IF i = 0 THEN f ELSE MarkBlockAsInFlight(g[i - 1], p, s[i])
  BY MarkedBlocksDef
<1> HIDE DEF g
<1>2. 0 \in D
  <2>1. g[0] = f  BY <1>1
  <2> QED  BY <2>1
<1>3. ASSUME NEW n \in Nat, n \in D  PROVE n + 1 \in D
  <2> SUFFICES ASSUME n + 1 <= Len(s)  PROVE FlightOK(g[n + 1], C)  OBVIOUS
  <2>1. FlightOK(g[n], C) /\ s[n + 1] \in Block  BY <1>3
  <2>2. n + 1 \in 0..Len(s) /\ n + 1 # 0 /\ (n + 1) - 1 = n  OBVIOUS
  <2>3. g[n + 1] = MarkBlockAsInFlight(g[n], p, s[n + 1])
    <3>1. g[n + 1] = MarkBlockAsInFlight(g[(n + 1) - 1], p, s[n + 1])
      BY <1>1, <2>2, Zenon
    <3> QED  BY <2>2, <3>1, Zenon
  <2> QED  BY <2>1, <2>3, InFlightOK
<1>4. \A n \in Nat : n \in D
  <2> HIDE DEF D
  <2> QED  BY <1>2, <1>3, NatSetInduction
<1>5. FlightOK(g[Len(s)], C)  BY <1>4
<1> QED  BY <1>5 DEF g

(***************************************************************************)
(* Chains and messages.                                                    *)
(***************************************************************************)

\* A chain ends in its block, and the block at a place has a chain that long.
LEMMA ChainFacts ==
  ASSUME NEW t \in Block
  PROVE  /\ Chain[t] \in Seq(Block) /\ Len(Chain[t]) >= 1
         /\ Chain[t][Len(Chain[t])] = t
         /\ \A i \in 1..Len(Chain[t]) : Len(Chain[Chain[t][i]]) = i
<1> DEFINE P(b) == /\ Chain[b][Len(Chain[b])] = b
                   /\ \A i \in 1..Len(Chain[b]) : Len(Chain[Chain[b][i]]) = i
           D == {n \in Nat : \A b \in Block : Len(Chain[b]) <= n => P(b)}
<1>1. \A b \in Block : Chain[b] \in Seq(Block)  BY DownloadAssumption DEF DownloadAssumption
<1>2. Genesis \in Block /\ Chain[Genesis] = <<Genesis>>
  BY DownloadAssumption DEF DownloadAssumption
<1>3. ASSUME NEW b \in Block, b # Genesis
      PROVE  /\ Len(Chain[b]) > 1 /\ Parent(b) \in Block
             /\ Chain[b] = Append(Chain[Parent(b)], b)
  <2>1. Len(Chain[b]) > 1 /\ Chain[b] = Append(Chain[Parent(b)], b)
    BY <1>3, DownloadAssumption DEF DownloadAssumption
  <2>2. Parent(b) \in Block  BY <1>1, <2>1 DEF Parent, Height
  <2> QED  BY <2>1, <2>2
<1>4. \A b \in Block : Len(Chain[b]) >= 1  BY <1>2, <1>3
<1>5. 0 \in D  BY <1>1, <1>4
<1>6. ASSUME NEW n \in Nat, n \in D  PROVE n + 1 \in D
  <2> SUFFICES ASSUME NEW b \in Block, Len(Chain[b]) <= n + 1  PROVE P(b)  OBVIOUS
  <2>1. CASE b = Genesis
    <3>1. Len(<<Genesis>>) = 1 /\ <<Genesis>>[1] = Genesis  OBVIOUS
    <3>2. Len(Chain[b]) = 1 /\ Chain[b][1] = b  BY <1>2, <2>1, <3>1, Zenon
    <3> QED  BY <3>2
  <2>2. CASE b # Genesis
    <3> DEFINE a == Parent(b)
    <3>1. /\ a \in Block /\ Chain[a] \in Seq(Block) /\ Chain[b] = Append(Chain[a], b)
      BY <1>1, <1>3, <2>2
    <3> HIDE DEF a
    <3>2. /\ Len(Chain[b]) = Len(Chain[a]) + 1
          /\ Chain[b][Len(Chain[b])] = b
          /\ \A i \in 1..Len(Chain[a]) : Chain[b][i] = Chain[a][i]
      BY <3>1
    <3>3. Len(Chain[a]) <= n  BY <3>1, <3>2
    <3>4. P(a)  BY <1>6, <3>1, <3>3
    <3>5. ASSUME NEW i \in 1..Len(Chain[b])  PROVE Len(Chain[Chain[b][i]]) = i
      <4>1. CASE i = Len(Chain[b])  BY <3>2, <4>1
      <4>2. CASE i \in 1..Len(Chain[a])  BY <3>2, <3>4, <4>2
      <4> QED  BY <3>1, <3>2, <4>1, <4>2
    <3> QED  BY <3>2, <3>5
  <2> QED  BY <2>1, <2>2
<1>7. \A n \in Nat : n \in D
  <2> HIDE DEF D
  <2> QED  BY <1>5, <1>6, NatSetInduction
<1>8. Len(Chain[t]) \in Nat  BY <1>1
<1>9. P(t)
  <2> HIDE DEF P
  <2> QED  BY <1>7, <1>8
<1> QED  BY <1>1, <1>4, <1>9

\* The parent of a block, and its chain.
LEMMA ParentFacts ==
  ASSUME NEW b \in Block, b # Genesis
  PROVE  /\ Parent(b) \in Block
         /\ Chain[b] = Append(Chain[Parent(b)], b)
<1>1. Len(Chain[b]) > 1 /\ Chain[b] = Append(Chain[Parent(b)], b) /\ Chain[b] \in Seq(Block)
  BY DownloadAssumption DEF DownloadAssumption
<1>2. Parent(b) \in Block  BY <1>1 DEF Parent, Height
<1> QED  BY <1>1, <1>2

\* Every chain starts with Genesis.
LEMMA GenesisOn ==
  ASSUME NEW t \in Block
  PROVE  On(Genesis, t)
<1> DEFINE g == Chain[t][1]
<1>1. Chain[t] \in Seq(Block) /\ 1 \in 1..Len(Chain[t])  BY ChainFacts
<1>2. g \in Block  BY <1>1
<1>3. Len(Chain[g]) = 1  BY <1>1, ChainFacts, Zenon
<1>4. g = Genesis
  <2>1. g # Genesis => Len(Chain[g]) > 1
    <3> HIDE DEF g
    <3> QED  BY <1>2, DownloadAssumption DEF DownloadAssumption
  <2> QED  BY <1>3, <2>1
<1>5. Genesis \in Range(Chain[t])  BY <1>1, <1>4 DEF Range
<1> QED  BY <1>5 DEF On

\* What the messages carry.
LEMMA MessageArgs ==
  ASSUME NEW m \in Messages
  PROVE  /\ m.cmd \in {"inv", "getdata"} => m.arg \in Seq(Block)
         /\ m.cmd = "block" => m.arg \in Block
         /\ m.cmd = "getblocks" => m.arg.start \in Block /\ m.arg.stop \in Block
         /\ m.cmd = "blockproof" => /\ m.arg.block \in Block
                                    /\ m.arg.masternodes \subseteq Masternode
                                    /\ m.arg.vPrevBlockHash \subseteq Block
BY DEF Messages

LEMMA MakeMessages ==
  /\ \A s \in Seq(Block) : /\ Message("inv", s) \in Messages
                           /\ Message("getdata", s) \in Messages
                           /\ Message("GetData", s) \in Messages
  /\ \A b \in Block : Message("block", b) \in Messages /\ Message("reject", b) \in Messages
  /\ \A a, b \in Block : Message("getblocks", [start |-> a, stop |-> b]) \in Messages
  /\ \A b \in Block, ms \in SUBSET Masternode, bs \in SUBSET Block :
       Message("blockproof", [block |-> b, masternodes |-> ms, vPrevBlockHash |-> bs])
         \in Messages
BY DEF Message, Messages

\* A message that is received is well formed, and so are the ones after it.
LEMMA ReceivedMessage ==
  ASSUME TypeOK, NEW p \in Peer, recv[p] # <<>>
  PROVE  /\ Head(recv[p]) \in Messages
         /\ [recv EXCEPT ![p] = Tail(@)] \in [Peer -> Seq(Messages)]
<1>1. recv \in [Peer -> Seq(Messages)] /\ recv[p] \in Seq(Messages)  BY DEF TypeOK
<1>2. Head(recv[p]) \in Messages /\ Tail(recv[p]) \in Seq(Messages)  BY <1>1
<1> QED  BY <1>1, <1>2

\* The blocks of a chain are blocks.
LEMMA RangeOfBlocks ==
  ASSUME NEW s \in Seq(Block)
  PROVE  Range(s) \subseteq Block
BY DEF Range

(***************************************************************************)
(* The invariant, action by action.                                        *)
(***************************************************************************)

\* Messages travel only over a connection.  (FinalizeNode drops the others.)
Quiet == \A p \in Peer : recv[p] # <<>> \/ sent[p] # <<>> => p \in connected

\* InFlightConsistent is not inductive by itself: a blockproof marks a block as
\* in flight from its sender, who must still be connected.
FInv == TypeOK /\ InFlightConsistent /\ Quiet

LEMMA FlightNow ==
  ASSUME FInv
  PROVE  FlightOK(Flight, connected)
<1>1. Flight.lists = vBlocksInFlight /\ Flight.map = mapBlocksInFlight  BY DEF Flight
<1>2. /\ vBlocksInFlight \in [Peer -> Seq(Block)]
      /\ mapBlocksInFlight \in [Block -> Peer \cup {NoPeer}]
  BY DEF FInv, TypeOK
<1> QED  BY <1>1, <1>2 DEF FInv, InFlightConsistent, FlightOK

LEMMA FlightNext ==
  ASSUME NEW f, SetFlight(f), FlightOK(f, connected')
  PROVE  /\ vBlocksInFlight' \in [Peer -> Seq(Block)]
         /\ mapBlocksInFlight' \in [Block -> Peer \cup {NoPeer}]
         /\ InFlightConsistent'
BY DEF SetFlight, FlightOK, InFlightConsistent

\* While no list changes and no peer leaves.
LEMMA FlightSame ==
  ASSUME InFlightConsistent, UNCHANGED flightVars, connected \subseteq connected'
  PROVE  InFlightConsistent'
BY DEF InFlightConsistent, flightVars

\* A block is processed: what the node and the proof tracker keep.
LEMMA ProcessType ==
  ASSUME TypeOK, NEW p \in Peer, NEW b \in Block, ProcessNewBlock(p, b)
  PROVE  /\ mapBlockIndex' \subseteq Block /\ haveData' \subseteq mapBlockIndex'
         /\ tip' \in haveData' /\ pindexBestHeader' \in mapBlockIndex'
         /\ unapproved' \subseteq haveData'
         /\ m_mapStakes' \in [Stakes -> [nHeight : Int, blocks : SUBSET haveData']]
         /\ m_mapBlockWitness' \in [Block -> SUBSET Masternode]
         /\ sent' \in [Peer -> Seq(Messages)]
         /\ \A q \in Peer : q # p => sent'[q] = sent[q]
<1> USE DEF TypeOK
<1>1. CASE /\ HeaderTooDeep(b) \/ b \in haveData
           /\ UNCHANGED <<nodeVars, proofVars, sent>>
  BY <1>1 DEF nodeVars, proofVars
<1>2. CASE AddToBlockIndex(b) /\ StoreBlock(b) /\ UNCHANGED sent
  <2> DEFINE stakes == AddNewStake(b)
             h == Height(b) - MaxReorganizationDepth
  <2>1. /\ mapBlockIndex' = mapBlockIndex \cup {b} /\ haveData' = haveData \cup {b}
        /\ tip' \in {b, tip} /\ pindexBestHeader' \in {b, pindexBestHeader}
        /\ unapproved' \subseteq unapproved \cup {b}
        /\ m_mapStakes' = EraseStakes(stakes, h)
        /\ m_mapBlockWitness' = EraseWitnesses(stakes, m_mapBlockWitness, h)
    BY <1>2 DEF AddToBlockIndex, StoreBlock
  <2>2. Height(b) \in Int
    BY ChainFacts DEF Height
  <2>3. stakes \in [Stakes -> [nHeight : Int, blocks : SUBSET haveData']]
    BY <2>1, <2>2 DEF AddNewStake
  <2> HIDE DEF stakes, h
  <2>4. EraseStakes(stakes, h) \in [Stakes -> [nHeight : Int, blocks : SUBSET haveData']]
    BY <2>3 DEF EraseStakes
  <2>5. EraseWitnesses(stakes, m_mapBlockWitness, h) \in [Block -> SUBSET Masternode]
    BY DEF EraseWitnesses
  <2> QED  BY <1>2, <2>1, <2>4, <2>5
<1>3. CASE /\ AddToBlockIndex(b)
           /\ IF Suspicious = "MODE_SUSPICIOUS" THEN Push(p, "reject", b) ELSE UNCHANGED sent
           /\ UNCHANGED <<haveData, tip, unapproved, proofVars>>
  <2>1. /\ mapBlockIndex' = mapBlockIndex \cup {b}
        /\ pindexBestHeader' \in {b, pindexBestHeader}
        /\ sent' = sent
    BY <1>3 DEF AddToBlockIndex, Suspicious
  <2> QED  BY <1>3, <2>1 DEF proofVars
<1> QED  BY <1>1, <1>2, <1>3 DEF ProcessNewBlock

\* "inv".
LEMMA InvStep ==
  ASSUME FInv, NEW p \in Peer, Inv(p)
  PROVE  FInv'
<1> DEFINE more == Filter(Arg(p), Block \ AlreadyHave)
<1>1. TypeOK /\ recv[p] # <<>> /\ Head(recv[p]).cmd = "inv"
  BY DEF FInv, Inv, Receives
<1>2. Arg(p) \in Seq(Block)  BY <1>1, ReceivedMessage, MessageArgs DEF Arg
<1>3. more \in Seq(Block)
  <2> HIDE DEF more
  <2> QED  BY <1>2, FilterFacts DEF more
<1>4. /\ listAskForBlocks' = [listAskForBlocks EXCEPT ![p] = @ \o more]
      /\ recv' = [recv EXCEPT ![p] = Tail(@)]
      /\ UNCHANGED <<nodeVars, proofVars, flightVars, linkVars, sent, peerVars>>
  BY DEF Inv, Consume
<1> HIDE DEF more
<1>5. listAskForBlocks' \in [Peer -> Seq(Block)]
  <2>1. listAskForBlocks \in [Peer -> Seq(Block)]  BY <1>1 DEF TypeOK
  <2>2. listAskForBlocks[p] \o more \in Seq(Block)  BY <1>3, <2>1
  <2> QED  BY <1>4, <2>1, <2>2
<1>6. recv' \in [Peer -> Seq(Messages)]  BY <1>1, <1>4, ReceivedMessage
<1>7. TypeOK'
  BY <1>1, <1>4, <1>5, <1>6 DEF TypeOK, nodeVars, proofVars, flightVars, linkVars, peerVars
<1>8. InFlightConsistent'  BY <1>4, FlightSame DEF FInv, linkVars
<1>9. Quiet'  BY <1>1, <1>4 DEF FInv, Quiet, linkVars, TypeOK
<1> QED  BY <1>7, <1>8, <1>9 DEF FInv

\* "block".
LEMMA BlockMessageStep ==
  ASSUME FInv, NEW p \in Peer, BlockMessage(p)
  PROVE  FInv'
<1> DEFINE b == Arg(p)
<1>1. /\ TypeOK /\ recv[p] # <<>> /\ Head(recv[p]).cmd = "block"
      /\ recv' = [recv EXCEPT ![p] = Tail(@)]
      /\ UNCHANGED <<listAskForBlocks, linkVars, peerVars>>
  BY DEF FInv, BlockMessage, Receives, Consume
<1>2. b \in Block  BY <1>1, ReceivedMessage, MessageArgs DEF Arg
<1>3. recv' \in [Peer -> Seq(Messages)]  BY <1>1, ReceivedMessage
<1>4. p \in connected /\ connected' = connected /\ fSyncStarted' = fSyncStarted
  BY <1>1 DEF FInv, Quiet, linkVars
<1>5. CASE ProcessNewBlock(p, b)
  <2>1. SetFlight(MarkBlockAsReceived(Flight, b))  BY <1>5 DEF ProcessNewBlock
  <2>2. FlightOK(MarkBlockAsReceived(Flight, b), connected)
    <3> HIDE DEF b
    <3> QED  BY <1>2, FlightNow, ReceivedOK
  <2>3. /\ vBlocksInFlight' \in [Peer -> Seq(Block)]
        /\ mapBlocksInFlight' \in [Block -> Peer \cup {NoPeer}]
        /\ InFlightConsistent'
    BY <1>4, <2>1, <2>2, FlightNext
  <2> HIDE DEF b
  <2>4. /\ mapBlockIndex' \subseteq Block /\ haveData' \subseteq mapBlockIndex'
        /\ tip' \in haveData' /\ pindexBestHeader' \in mapBlockIndex'
        /\ unapproved' \subseteq haveData'
        /\ m_mapStakes' \in [Stakes -> [nHeight : Int, blocks : SUBSET haveData']]
        /\ m_mapBlockWitness' \in [Block -> SUBSET Masternode]
        /\ sent' \in [Peer -> Seq(Messages)]
        /\ \A q \in Peer : q # p => sent'[q] = sent[q]
    BY <1>1, <1>2, <1>5, ProcessType
  <2>5. TypeOK'  BY <1>1, <1>3, <1>4, <2>3, <2>4 DEF TypeOK, peerVars
  <2>6. Quiet'  BY <1>1, <1>4, <2>4 DEF FInv, Quiet, TypeOK
  <2> QED  BY <2>3, <2>5, <2>6 DEF FInv
<1>6. CASE /\ Push(p, "getblocks", [start |-> tip, stop |-> b])
           /\ UNCHANGED <<nodeVars, proofVars, flightVars>>
  <2> DEFINE m == Message("getblocks", [start |-> tip, stop |-> b])
  <2>1. m \in Messages
    <3>1. tip \in Block  BY <1>1 DEF TypeOK
    <3> HIDE DEF b
    <3> QED  BY <1>2, <3>1, MakeMessages
  <2>2. sent' = [sent EXCEPT ![p] = Append(@, m)]  BY <1>6 DEF Push
  <2> HIDE DEF m, b
  <2>3. sent' \in [Peer -> Seq(Messages)]
    <3>1. sent \in [Peer -> Seq(Messages)]  BY <1>1 DEF TypeOK
    <3>2. Append(sent[p], m) \in Seq(Messages)  BY <2>1, <3>1
    <3> QED  BY <2>2, <3>1, <3>2
  <2>4. TypeOK'
    BY <1>1, <1>3, <1>4, <1>6, <2>3 DEF TypeOK, nodeVars, proofVars, flightVars, peerVars
  <2>5. InFlightConsistent'  BY <1>4, <1>6, FlightSame DEF FInv
  <2>6. Quiet'  BY <1>1, <1>4, <2>2 DEF FInv, Quiet, TypeOK
  <2> QED  BY <2>4, <2>5, <2>6 DEF FInv
<1> QED  BY <1>5, <1>6 DEF BlockMessage

\* "blockproof".
LEMMA BlockProofStep ==
  ASSUME FInv, NEW p \in Peer, BlockProof(p)
  PROVE  FInv'
<1> DEFINE b == Arg(p).block
           w == AddWitness(Arg(p).masternodes, Arg(p).vPrevBlockHash)
<1>1. /\ TypeOK /\ recv[p] # <<>> /\ Head(recv[p]).cmd = "blockproof"
      /\ recv' = [recv EXCEPT ![p] = Tail(@)] /\ m_mapBlockWitness' = w
      /\ UNCHANGED <<nodeVars, m_mapStakes, listAskForBlocks, linkVars, peerVars>>
  BY DEF FInv, BlockProof, Receives, Consume
<1>2. b \in Block /\ Arg(p).masternodes \subseteq Masternode
  BY <1>1, ReceivedMessage, MessageArgs DEF Arg
<1>3. recv' \in [Peer -> Seq(Messages)]  BY <1>1, ReceivedMessage
<1>4. p \in connected /\ connected' = connected /\ fSyncStarted' = fSyncStarted
  BY <1>1 DEF FInv, Quiet, linkVars
<1>5. m_mapBlockWitness' \in [Block -> SUBSET Masternode]
  <2>1. m_mapBlockWitness \in [Block -> SUBSET Masternode]  BY <1>1 DEF TypeOK
  <2> QED  BY <1>1, <1>2, <2>1 DEF AddWitness
<1>6. CASE SetFlight(MarkBlockAsInFlight(Flight, p, b)) /\ Push(p, "GetData", <<b>>)
  <2> DEFINE m == Message("GetData", <<b>>)
  <2>1. m \in Messages
    <3> HIDE DEF b
    <3>1. <<b>> \in Seq(Block)  BY <1>2
    <3> QED  BY <3>1, MakeMessages
  <2>2. sent' = [sent EXCEPT ![p] = Append(@, m)]  BY <1>6 DEF Push
  <2> HIDE DEF m, b, w
  <2>3. sent' \in [Peer -> Seq(Messages)]
    <3>1. sent \in [Peer -> Seq(Messages)]  BY <1>1 DEF TypeOK
    <3>2. Append(sent[p], m) \in Seq(Messages)  BY <2>1, <3>1
    <3> QED  BY <2>2, <3>1, <3>2
  <2>4. FlightOK(MarkBlockAsInFlight(Flight, p, b), connected)
    BY <1>2, <1>4, FlightNow, InFlightOK
  <2>5. /\ vBlocksInFlight' \in [Peer -> Seq(Block)]
        /\ mapBlocksInFlight' \in [Block -> Peer \cup {NoPeer}]
        /\ InFlightConsistent'
    BY <1>4, <1>6, <2>4, FlightNext
  <2>6. TypeOK'  BY <1>1, <1>3, <1>4, <1>5, <2>3, <2>5 DEF TypeOK, nodeVars, peerVars
  <2>7. Quiet'  BY <1>1, <1>4, <2>2 DEF FInv, Quiet, TypeOK
  <2> QED  BY <2>5, <2>6, <2>7 DEF FInv
<1>7. CASE UNCHANGED <<flightVars, sent>>
  <2> HIDE DEF w
  <2>1. TypeOK'
    BY <1>1, <1>3, <1>4, <1>5, <1>7 DEF TypeOK, nodeVars, flightVars, peerVars
  <2>2. InFlightConsistent'  BY <1>4, <1>7, FlightSame DEF FInv
  <2>3. Quiet'  BY <1>1, <1>4, <1>7 DEF FInv, Quiet, TypeOK
  <2> QED  BY <2>1, <2>2, <2>3 DEF FInv
<1> QED  BY <1>6, <1>7 DEF BlockProof

\* A masternode ping, and a peer that comes back.
LEMMA PingStep ==
  ASSUME FInv, NEW m \in Masternode, NEW p \in Peer, MasternodePing(m, p)
  PROVE  FInv'
<1>1. /\ TypeOK /\ m_mapBlockWitness' = AddWitness({m}, PrevBlocks(p))
      /\ UNCHANGED <<nodeVars, m_mapStakes, listAskForBlocks, flightVars, linkVars, recv,
                     sent, peerVars>>
  BY DEF FInv, MasternodePing
<1>2. m_mapBlockWitness' \in [Block -> SUBSET Masternode]
  <2>1. m_mapBlockWitness \in [Block -> SUBSET Masternode]  BY <1>1 DEF TypeOK
  <2> QED  BY <1>1, <2>1 DEF AddWitness
<1>3. TypeOK'  BY <1>1, <1>2 DEF TypeOK, nodeVars, flightVars, linkVars, peerVars
<1>4. InFlightConsistent'  BY <1>1, FlightSame DEF FInv, linkVars
<1>5. Quiet'  BY <1>1 DEF FInv, Quiet, linkVars
<1> QED  BY <1>3, <1>4, <1>5 DEF FInv

LEMMA ReconnectStep ==
  ASSUME FInv, NEW p \in Peer, Reconnect(p)
  PROVE  FInv'
<1>1. /\ TypeOK /\ connected' = connected \cup {p}
      /\ UNCHANGED <<nodeVars, proofVars, listAskForBlocks, flightVars, fSyncStarted, recv,
                     sent, peerVars>>
  BY DEF FInv, Reconnect
<1>2. TypeOK'  BY <1>1 DEF TypeOK, nodeVars, proofVars, flightVars, peerVars
<1>3. InFlightConsistent'  BY <1>1, FlightSame DEF FInv
<1>4. Quiet'  BY <1>1 DEF FInv, Quiet
<1> QED  BY <1>2, <1>3, <1>4 DEF FInv

\* A peer that is lost: its list and the pointers into it go together.
LEMMA DisconnectStep ==
  ASSUME FInv, NEW p \in Peer, Disconnect(p)
  PROVE  FInv'
<1> DEFINE L == vBlocksInFlight
           M == mapBlocksInFlight
<1>1. /\ L \in [Peer -> Seq(Block)] /\ M \in [Block -> Peer \cup {NoPeer}]
      /\ L' = [L EXCEPT ![p] = <<>>]
      /\ M' = [b \in Block |-> IF b \in Range(L[p]) THEN NoPeer ELSE M[b]]
      /\ connected' = connected \ {p}
  BY DEF FInv, TypeOK, Disconnect
<1>2. TypeOK'
  <2>1. <<>> \in Seq(Block) /\ <<>> \in Seq(Messages)  OBVIOUS
  <2> QED  BY <1>1, <2>1 DEF FInv, TypeOK, Disconnect, nodeVars, proofVars
<1>3. Range(L'[p]) = {} /\ IsInjective(L'[p])
  <2>1. L'[p] = <<>>  BY <1>1
  <2> QED  BY <2>1 DEF Range, IsInjective
<1>4. \A q \in Peer : q # p => L'[q] = L[q]  BY <1>1
<1>5. \A b \in Block : M'[b] = IF b \in Range(L[p]) THEN NoPeer ELSE M[b]  BY <1>1
<1>6. /\ \A b \in Block : M[b] # NoPeer => M[b] \in connected /\ b \in Range(L[M[b]])
      /\ \A q \in Peer : IsInjective(L[q]) /\ \A b \in Range(L[q]) : M[b] = q
  BY DEF FInv, InFlightConsistent
<1>7. \A q \in Peer : Range(L[q]) \subseteq Block  BY <1>1, RangeOfBlocks
<1>8. InFlightConsistent'
  <2>1. ASSUME NEW b \in Block, M'[b] # NoPeer
        PROVE  M'[b] \in connected' /\ b \in Range(L'[M'[b]])
    <3>1. M'[b] = M[b] /\ b \notin Range(L[p]) /\ M[b] \in Peer  BY <1>1, <1>5, <2>1
    <3>2. M[b] \in connected /\ b \in Range(L[M[b]])  BY <1>6, <2>1, <3>1
    <3>3. M[b] # p  BY <3>1, <3>2
    <3> QED  BY <1>1, <1>4, <3>1, <3>2, <3>3
  <2>2. ASSUME NEW q \in Peer  PROVE IsInjective(L'[q])  BY <1>3, <1>4, <1>6
  <2>3. ASSUME NEW q \in Peer, NEW b \in Range(L'[q])  PROVE M'[b] = q
    <3>1. q # p /\ b \in Range(L[q])  BY <1>3, <1>4, <2>3
    <3>2. M[b] = q /\ b \in Block /\ b \notin Range(L[p])  BY <1>6, <1>7, <3>1
    <3> QED  BY <1>5, <3>2
  <2> QED  BY <2>1, <2>2, <2>3 DEF InFlightConsistent
<1>9. Quiet'
  BY DEF FInv, Quiet, Disconnect, TypeOK
<1> QED  BY <1>2, <1>8, <1>9 DEF FInv

\* SendMessages: whatever is in the list of blocks to ask for.
LEMMA SendMessagesStep ==
  ASSUME FInv, NEW p \in Peer, SendMessages(p)
  PROVE  FInv'
<1> DEFINE room == Len(vBlocksInFlight[p]) < MAX_BLOCKS_IN_TRANSIT_PER_PEER
           ask == IF room THEN ToRequest(p) ELSE <<>>
           data == IF ask = <<>> THEN <<>> ELSE <<Message("getdata", ask)>>
<1>1. /\ TypeOK /\ p \in connected /\ connected' = connected
      /\ sent' = [sent EXCEPT ![p] = @ \o StartSync(p) \o data]
      /\ fSyncStarted' = fSyncStarted \cup {p}
      /\ SetFlight(MarkedBlocks(Flight, p, ask)[Len(ask)])
      /\ listAskForBlocks' = [listAskForBlocks EXCEPT ![p] = IF room THEN <<>> ELSE @]
      /\ UNCHANGED <<nodeVars, proofVars, recv, peerVars>>
  BY DEF FInv, SendMessages
<1>2. ask \in Seq(Block)
  <2>1. listAskForBlocks[p] \in Seq(Block)  BY <1>1 DEF TypeOK
  <2>2. ToRequest(p) \in Seq(Block)  BY <2>1, FilterFacts DEF ToRequest
  <2> QED  BY <2>2
<1> HIDE DEF ask
<1>3. data \in Seq(Messages)
  <2>1. Message("getdata", ask) \in Messages  BY <1>2, MakeMessages
  <2> QED  BY <2>1
<1>4. StartSync(p) \in Seq(Messages)
  <2> DEFINE start == IF pindexBestHeader = Genesis THEN Genesis ELSE Parent(pindexBestHeader)
             m == Message("getblocks", [start |-> start, stop |-> Genesis])
  <2>1. pindexBestHeader \in Block /\ Genesis \in Block
    BY <1>1, DownloadAssumption DEF TypeOK, DownloadAssumption
  <2>2. pindexBestHeader # Genesis => Parent(pindexBestHeader) \in Block
    BY <2>1, ParentFacts
  <2>3. start \in Block  BY <2>1, <2>2
  <2> HIDE DEF start
  <2>4. m \in Messages  BY <2>1, <2>3, MakeMessages
  <2>5. StartSync(p) \in {<<>>, <<m>>}  BY DEF StartSync, start
  <2> HIDE DEF m
  <2>6. <<>> \in Seq(Messages) /\ <<m>> \in Seq(Messages)  BY <2>4
  <2> QED  BY <2>5, <2>6, Zenon
<1> HIDE DEF data
<1>5. sent' \in [Peer -> Seq(Messages)]
  <2>1. sent \in [Peer -> Seq(Messages)]  BY <1>1 DEF TypeOK
  <2>2. sent[p] \o StartSync(p) \o data \in Seq(Messages)  BY <1>3, <1>4, <2>1
  <2> QED  BY <1>1, <2>1, <2>2
<1>6. FlightOK(MarkedBlocks(Flight, p, ask)[Len(ask)], connected)
  BY <1>1, <1>2, FlightNow, LoopOK
<1>7. /\ vBlocksInFlight' \in [Peer -> Seq(Block)]
      /\ mapBlocksInFlight' \in [Block -> Peer \cup {NoPeer}]
      /\ InFlightConsistent'
  BY <1>1, <1>6, FlightNext
<1>8. TypeOK'
  <2>1. listAskForBlocks' \in [Peer -> Seq(Block)]  BY <1>1 DEF TypeOK
  <2> QED  BY <1>1, <1>5, <1>7, <2>1 DEF TypeOK, nodeVars, proofVars, peerVars
<1>9. Quiet'  BY <1>1 DEF FInv, Quiet, TypeOK
<1> QED  BY <1>7, <1>8, <1>9 DEF FInv

\* What a peer announces.
LEMMA PeerInvFacts ==
  ASSUME TypeOK, NEW p \in Peer, NEW s \in Seq(Block), PeerInv(p, s)
  PROVE  /\ recv' \in [Peer -> Seq(Messages)]
         /\ peerKnown' \in [Peer -> SUBSET Block]
         /\ \A q \in Peer : q # p => recv'[q] = recv[q]
<1> DEFINE new == Filter(s, Block \ peerKnown[p])
<1>1. new \in Seq(Block)  BY FilterFacts
<1>2. /\ recv' = [recv EXCEPT ![p] = IF new = <<>> THEN @ ELSE Append(@, Message("inv", new))]
      /\ peerKnown' = [peerKnown EXCEPT ![p] = @ \cup Range(new)]
  BY DEF PeerInv
<1> HIDE DEF new
<1>3. Message("inv", new) \in Messages  BY <1>1, MakeMessages
<1>4. Range(new) \subseteq Block  BY <1>1, RangeOfBlocks
<1>5. recv \in [Peer -> Seq(Messages)] /\ peerKnown \in [Peer -> SUBSET Block]
  BY DEF TypeOK
<1>6. Append(recv[p], Message("inv", new)) \in Seq(Messages)  BY <1>3, <1>5
<1> QED  BY <1>2, <1>4, <1>5, <1>6

\* A peer's chain grows: its next block is on the chain it grows to.
LEMMA PeerExtendsStep ==
  ASSUME FInv, NEW p \in Peer, PeerExtends(p)
  PROVE  FInv'
<1> DEFINE F == FinalTip[p]
           n == Len(Chain[peerTip[p]])
           b == Chain[F][n + 1]
<1>1. /\ TypeOK /\ peerTip[p] # F /\ peerTip' = [peerTip EXCEPT ![p] = b]
      /\ IF p \in connected THEN PeerInv(p, <<b>>) ELSE UNCHANGED <<recv, peerKnown>>
      /\ UNCHANGED <<nodeVars, proofVars, listAskForBlocks, flightVars, linkVars, sent>>
  BY DEF FInv, PeerExtends
<1>2. F \in Block  BY DownloadAssumption DEF DownloadAssumption
<1>3. n + 1 \in 1..Len(Chain[F])
  <2>1. peerTip[p] \in Range(Chain[F])  BY <1>1 DEF TypeOK, On
  <2>2. Chain[F] \in Seq(Block)  BY <1>2, ChainFacts
  <2>3. PICK i \in 1..Len(Chain[F]) : Chain[F][i] = peerTip[p]  BY <2>1, <2>2 DEF Range
  <2>4. n = i  BY <1>2, <2>3, ChainFacts
  <2>5. i # Len(Chain[F])  BY <1>1, <1>2, <2>3, ChainFacts
  <2> QED  BY <2>2, <2>4, <2>5
<1>4. b \in Block /\ On(b, F)
  <2>1. Chain[F] \in Seq(Block)  BY <1>2, ChainFacts
  <2> HIDE DEF n, F
  <2> QED  BY <1>3, <2>1 DEF On, Range
<1> HIDE DEF b, F
<1>5. /\ recv' \in [Peer -> Seq(Messages)] /\ peerKnown' \in [Peer -> SUBSET Block]
      /\ \A q \in Peer : q # p => recv'[q] = recv[q]
      /\ p \notin connected => recv' = recv
  <2>1. <<b>> \in Seq(Block)  BY <1>4
  <2>2. CASE p \in connected  BY <1>1, <2>1, <2>2, PeerInvFacts
  <2>3. CASE p \notin connected  BY <1>1, <2>3 DEF TypeOK
  <2> QED  BY <2>2, <2>3
<1>6. peerTip' \in [Peer -> Block] /\ \A q \in Peer : On(peerTip'[q], FinalTip[q])
  BY <1>1, <1>4 DEF TypeOK, F
<1>7. (\A q \in Peer : On(peerTip[q], FinalTip[q]))'  BY <1>6 DEF On
<1>8. TypeOK'
  BY <1>1, <1>5, <1>6, <1>7 DEF TypeOK, nodeVars, proofVars, flightVars, linkVars
<1>9. InFlightConsistent'  BY <1>1, FlightSame DEF FInv, linkVars
<1>10. Quiet'  BY <1>1, <1>5 DEF FInv, Quiet, linkVars
<1> QED  BY <1>8, <1>9, <1>10 DEF FInv

\* A peer handles a message.
LEMMA PeerHandlesStep ==
  ASSUME FInv, NEW p \in Peer, PeerHandles(p)
  PROVE  FInv'
<1> DEFINE m == Head(sent[p])
<1>1. /\ TypeOK /\ sent[p] # <<>> /\ sent' = [sent EXCEPT ![p] = Tail(@)]
      /\ UNCHANGED <<nodeVars, proofVars, listAskForBlocks, flightVars, linkVars, peerTip>>
  BY DEF FInv, PeerHandles
<1>2. sent \in [Peer -> Seq(Messages)] /\ recv \in [Peer -> Seq(Messages)]
  BY <1>1 DEF TypeOK
<1>3. m \in Messages /\ Tail(sent[p]) \in Seq(Messages)
  <2>1. sent[p] \in Seq(Messages)  BY <1>2
  <2> QED  BY <1>1, <2>1
<1>4. sent' \in [Peer -> Seq(Messages)]  BY <1>1, <1>2, <1>3
<1>5. p \in connected /\ connected' = connected  BY <1>1 DEF FInv, Quiet, linkVars
<1>6. peerTip[p] \in Block  BY <1>1 DEF TypeOK
<1>7. /\ recv' \in [Peer -> Seq(Messages)] /\ peerKnown' \in [Peer -> SUBSET Block]
      /\ \A q \in Peer : q # p => recv'[q] = recv[q]
  <2>1. CASE m.cmd = "getdata"
    <3> DEFINE known == Filter(m.arg, Range(Chain[peerTip[p]]))
               blocks == [i \in DOMAIN known |-> Message("block", known[i])]
    <3>1. recv' = [recv EXCEPT ![p] = @ \o blocks] /\ peerKnown' = peerKnown
      BY <2>1 DEF PeerHandles
    <3>2. m.arg \in Seq(Block)  BY <1>3, <2>1, MessageArgs
    <3>3. known \in Seq(Block)
      <4> HIDE DEF m
      <4> QED  BY <3>2, FilterFacts
    <3> HIDE DEF known
    <3>4. \A i \in 1..Len(known) : Message("block", known[i]) \in Messages
      BY <3>3, MakeMessages
    <3>5. blocks \in Seq(Messages)
      <4> DEFINE M(i) == Message("block", known[i])
      <4>1. blocks = [i \in 1..Len(known) |-> M(i)] /\ Len(known) \in Nat  BY <3>3
      <4>2. \A i \in 1..Len(known) : M(i) \in Messages  BY <3>4
      <4> HIDE DEF M, blocks
      <4> QED  BY <4>1, <4>2
    <3> HIDE DEF blocks
    <3>6. recv[p] \o blocks \in Seq(Messages)  BY <1>2, <3>5
    <3> QED  BY <1>1, <1>2, <3>1, <3>6 DEF TypeOK
  <2>2. CASE m.cmd = "getblocks"
    <3> DEFINE s == GetBlocks(p, m.arg.start, m.arg.stop)
    <3>1. PeerInv(p, s)  BY <2>2 DEF PeerHandles
    <3>2. Chain[peerTip[p]] \in Seq(Block)  BY <1>6, ChainFacts
    <3>3. ASSUME On(m.arg.stop, peerTip[p])
          PROVE  SubSeq(Chain[peerTip[p]], 1, Height(m.arg.stop)) \in Seq(Block)
      <4> DEFINE c == Chain[peerTip[p]]
      <4> HIDE DEF m
      <4>1. PICK i \in 1..Len(c) : c[i] = m.arg.stop
        <5>1. c \in Seq(Block) /\ m.arg.stop \in Range(c)  BY <3>2, <3>3 DEF On
        <5> HIDE DEF c
        <5> QED  BY <5>1 DEF Range
      <4>2. Height(m.arg.stop) = i - 1  BY <1>6, <4>1, ChainFacts DEF Height
      <4> HIDE DEF c
      <4>3. SubSeq(c, 1, i - 1) \in Seq(Block)
        <5>1. c \in Seq(Block)  BY <3>2 DEF c
        <5>2. 1 \in Nat /\ i - 1 \in Nat /\ i - 1 <= Len(c)  BY <4>1, <5>1
        <5> QED  BY <5>1, <5>2
      <4> QED  BY <4>2, <4>3 DEF c
    <3>4. s \in Seq(Block)
      <4> DEFINE upto == IF On(m.arg.stop, peerTip[p]) /\ ~On(m.arg.stop, m.arg.start)
                           THEN SubSeq(Chain[peerTip[p]], 1, Height(m.arg.stop))
                           ELSE Chain[peerTip[p]]
      <4>1. upto \in Seq(Block)  BY <3>2, <3>3
      <4>2. s = Filter(upto, Block \ Range(Chain[m.arg.start]))  BY DEF GetBlocks
      <4> HIDE DEF upto
      <4> QED  BY <4>1, <4>2, FilterFacts
    <3> HIDE DEF s
    <3> QED  BY <1>1, <3>1, <3>4, PeerInvFacts
  <2>3. CASE UNCHANGED <<recv, peerKnown>>  BY <1>1, <2>3 DEF TypeOK
  <2> QED  BY <2>1, <2>2, <2>3 DEF PeerHandles
<1>8. TypeOK'
  <2>1. (\A q \in Peer : On(peerTip[q], FinalTip[q]))'  BY <1>1 DEF TypeOK, On
  <2> QED  BY <1>1, <1>4, <1>7, <2>1 DEF TypeOK, nodeVars, proofVars, flightVars, linkVars
<1>9. InFlightConsistent'  BY <1>1, FlightSame DEF FInv, linkVars
<1>10. Quiet'  BY <1>1, <1>2, <1>5, <1>7 DEF FInv, Quiet
<1> QED  BY <1>8, <1>9, <1>10 DEF FInv

\* A peer of another version sends a proof.
LEMMA PeerSendsProofStep ==
  ASSUME FInv, NEW p \in Peer, PeerSendsProof(p)
  PROVE  FInv'
<1>1. /\ TypeOK /\ p \in connected
      /\ UNCHANGED <<nodeVars, proofVars, listAskForBlocks, flightVars, linkVars, sent,
                     peerVars>>
  BY DEF FInv, PeerSendsProof
<1>2. PICK b \in PrevBlocks(p), ms \in SUBSET Masternode :
        recv' = [recv EXCEPT ![p] = Append(@, Message("blockproof",
                  [block |-> b, masternodes |-> ms, vPrevBlockHash |-> PrevBlocks(p)]))]
  BY DEF PeerSendsProof
<1> DEFINE bs == PrevBlocks(p)
           m == Message("blockproof", [block |-> b, masternodes |-> ms, vPrevBlockHash |-> bs])
<1>3. bs \subseteq Block
  <2>1. peerTip[p] \in Block  BY <1>1 DEF TypeOK
  <2>2. Chain[peerTip[p]] \in Seq(Block)  BY <2>1, ChainFacts
  <2> QED  BY <2>2, RangeOfBlocks DEF PrevBlocks
<1>4. m \in Messages
  <2>1. b \in Block /\ bs \in SUBSET Block  BY <1>3
  <2> HIDE DEF bs
  <2> QED  BY <2>1, MakeMessages
<1>5. recv' = [recv EXCEPT ![p] = Append(@, m)]  BY <1>2
<1> HIDE DEF m
<1>6. recv' \in [Peer -> Seq(Messages)]
  <2>1. recv \in [Peer -> Seq(Messages)]  BY <1>1 DEF TypeOK
  <2>2. Append(recv[p], m) \in Seq(Messages)  BY <1>4, <2>1
  <2> QED  BY <1>5, <2>1, <2>2
<1>7. TypeOK'
  BY <1>1, <1>6 DEF TypeOK, nodeVars, proofVars, flightVars, linkVars, peerVars
<1>8. InFlightConsistent'  BY <1>1, FlightSame DEF FInv, linkVars
<1>9. Quiet'  BY <1>1, <1>5 DEF FInv, Quiet, linkVars, TypeOK
<1> QED  BY <1>7, <1>8, <1>9 DEF FInv

LEMMA FInvInit ==
  Init => FInv
<1> SUFFICES ASSUME Init  PROVE FInv  OBVIOUS
<1> USE DEF Init
<1>1. /\ Genesis \in Block /\ Chain[Genesis] = <<Genesis>>
      /\ StartTip \in [Peer -> Block] /\ FinalTip \in [Peer -> Block]
  BY DownloadAssumption DEF DownloadAssumption
<1>2. \A p \in Peer : vBlocksInFlight[p] = <<>>  OBVIOUS
<1>3. \A p \in Peer : On(StartTip[p], FinalTip[p])
  BY DownloadAssumption DEF DownloadAssumption
<1>4. TypeOK
  <2>1. /\ listAskForBlocks \in [Peer -> Seq(Block)] /\ vBlocksInFlight \in [Peer -> Seq(Block)]
        /\ recv \in [Peer -> Seq(Messages)] /\ sent \in [Peer -> Seq(Messages)]
    OBVIOUS
  <2>2. m_mapStakes \in [Stakes -> [nHeight : Int, blocks : SUBSET haveData]]  OBVIOUS
  <2>3. \A p \in Peer : On(peerTip[p], FinalTip[p])  BY <1>3
  <2> QED  BY <1>1, <2>1, <2>2, <2>3 DEF TypeOK
<1>5. InFlightConsistent
  <2>1. Range(<<>>) = {} /\ IsInjective(<<>>)  BY DEF Range, IsInjective
  <2> QED  BY <1>2, <2>1 DEF InFlightConsistent
<1> QED  BY <1>4, <1>5 DEF FInv, Quiet

LEMMA FInvStep ==
  FInv /\ [Next]_vars => FInv'
<1> SUFFICES ASSUME FInv, [Next]_vars  PROVE FInv'  OBVIOUS
<1>1. ASSUME NEW p \in Peer, Handle(p)  PROVE FInv'
  BY <1>1, InvStep, BlockMessageStep, BlockProofStep DEF Handle
<1>2. ASSUME NEW p \in Peer, PeerHandles(p)  PROVE FInv'  BY <1>2, PeerHandlesStep
<1>3. ASSUME NEW p \in Peer, SendMessages(p)  PROVE FInv'  BY <1>3, SendMessagesStep
<1>4. ASSUME NEW p \in Peer, TimeoutDownloading(p)  PROVE FInv'
  BY <1>4, DisconnectStep DEF TimeoutDownloading
<1>5. ASSUME NEW p \in Peer, Reconnect(p)  PROVE FInv'  BY <1>5, ReconnectStep
<1>6. ASSUME NEW p \in Peer, PeerExtends(p)  PROVE FInv'  BY <1>6, PeerExtendsStep
<1>7. ASSUME NEW p \in Peer, PeerSendsProof(p)  PROVE FInv'  BY <1>7, PeerSendsProofStep
<1>8. ASSUME NEW m \in Masternode, NEW p \in Peer, MasternodePing(m, p)  PROVE FInv'
  BY <1>8, PingStep
<1>9. CASE UNCHANGED vars
  <2> USE <1>9 DEF vars, nodeVars, proofVars, flightVars, linkVars, peerVars
  <2>1. TypeOK'  BY DEF FInv, TypeOK, On
  <2>2. InFlightConsistent'  BY FlightSame DEF FInv
  <2>3. Quiet'  BY DEF FInv, Quiet
  <2> QED  BY <2>1, <2>2, <2>3 DEF FInv
<1> QED  BY <1>1, <1>2, <1>3, <1>4, <1>5, <1>6, <1>7, <1>8, <1>9 DEF Next

\* The state of the node, its peers and the messages keeps its shape.
THEOREM DownloadTypeCorrect ==
  Spec => []TypeOK
<1>1. FInv => TypeOK  BY DEF FInv
<1> QED  BY <1>1, FInvInit, FInvStep, PTL DEF Spec

\* MarkBlockAsReceived, MarkBlockAsInFlight and FinalizeNode keep the pointers
\* of mapBlocksInFlight and the lists of the peers in agreement, for any number
\* of peers and blocks, however many blocks SendMessages requests at once.
THEOREM FlightConsistent ==
  Spec => []InFlightConsistent
<1>1. FInv => InFlightConsistent  BY DEF FInv
<1> QED  BY <1>1, FInvInit, FInvStep, PTL DEF Spec

(***************************************************************************)
(* The limit on the blocks of one stake.                                   *)
(***************************************************************************)

\* A block that packages the stake s lies more than MaxReorganizationDepth below
\* some block on disk: the record of s may have been erased.
Expired(s) ==
  \E b \in Packaged(s), c \in haveData : Height(c) - Height(b) > MaxReorganizationDepth

\* RepackageLimited speaks of the blocks on disk, IsSuspicious of the record:
\* until the record may have been erased the two are the same.
StakeRecords ==
  /\ IsFiniteSet(haveData)
  /\ \A s \in Stakes :
       /\ m_mapStakes[s].blocks \subseteq Packaged(s)
       /\ m_mapStakes[s].blocks # {} =>
            \E b \in m_mapStakes[s].blocks : m_mapStakes[s].nHeight = Height(b)
       /\ Expired(s) \/ m_mapStakes[s].blocks = Packaged(s)
       /\ Cardinality(m_mapStakes[s].blocks \cap unapproved) <= STAKE_REPACKAGE_THRESHOLD

SInv == FInv /\ StakeRecords

\* Only a block that is stored changes what StakeRecords is about.
LEMMA StakesSame ==
  ASSUME StakeRecords, UNCHANGED <<haveData, unapproved, m_mapStakes>>
  PROVE  StakeRecords'
<1>1. \A s \in Stakes : Packaged(s)' = Packaged(s) /\ (Expired(s)' <=> Expired(s))
  BY DEF Packaged, Expired
<1> QED  BY <1>1 DEF StakeRecords

\* A block is stored: its stake had room for one more, or masternodes vouch for
\* it; a record is erased only when it may be.
LEMMA StoreStakes ==
  ASSUME FInv, StakeRecords, NEW b \in Block, b # Genesis, b \notin haveData,
         ~IsSuspicious(b), StoreBlock(b)
  PROVE  StakeRecords'
<1> DEFINE z == StakeHash[b]
           T == STAKE_REPACKAGE_THRESHOLD
           stakes == AddNewStake(b)
           h == Height(b) - MaxReorganizationDepth
           B(s) == m_mapStakes[s].blocks
           C(s) == stakes[s].blocks
<1>1. /\ haveData' = haveData \cup {b} /\ m_mapStakes' = EraseStakes(stakes, h)
      /\ unapproved' = IF HasSufficientProof(m_mapBlockWitness, b) THEN unapproved
                                                                 ELSE unapproved \cup {b}
  BY DEF StoreBlock
<1>2. z \in Stakes  BY DEF Stakes
<1>3. \A c \in Block : Height(c) \in Int  BY ChainFacts DEF Height
<1>4. /\ m_mapStakes \in [Stakes -> [nHeight : Int, blocks : SUBSET haveData]]
      /\ unapproved \subseteq haveData /\ haveData \subseteq Block
  BY DEF FInv, TypeOK
<1>5. /\ IsFiniteSet(haveData)
      /\ \A s \in Stakes : /\ B(s) \subseteq Packaged(s)
                           /\ B(s) # {} => \E c \in B(s) : m_mapStakes[s].nHeight = Height(c)
                           /\ Expired(s) \/ B(s) = Packaged(s)
                           /\ Cardinality(B(s) \cap unapproved) <= T
  BY DEF StakeRecords
<1>6. T \in Nat \ {0} /\ MaxReorganizationDepth \in Nat
  BY DownloadAssumption DEF DownloadAssumption
<1>7. /\ DOMAIN stakes = Stakes
      /\ \A s \in Stakes : s # z => stakes[s] = m_mapStakes[s]
      /\ C(z) = B(z) \cup {b}
      /\ stakes[z].nHeight = IF B(z) = {} THEN Height(b) ELSE m_mapStakes[z].nHeight
  BY <1>2, <1>4 DEF AddNewStake
<1>8. /\ Packaged(z)' = Packaged(z) \cup {b}
      /\ \A s \in Stakes : s # z => Packaged(s)' = Packaged(s)
      /\ \A s \in Stakes : Packaged(s) \subseteq Packaged(s)'
  BY <1>1 DEF Packaged
<1>9. \A s \in Stakes : Expired(s) => Expired(s)'
  BY <1>1, <1>8 DEF Expired
<1> HIDE DEF stakes, z
<1>10. ASSUME NEW s \in Stakes
       PROVE  /\ C(s) \subseteq Packaged(s)'
              /\ C(s) # {} => \E c \in C(s) : stakes[s].nHeight = Height(c)
              /\ Expired(s)' \/ C(s) = Packaged(s)'
              /\ Cardinality(C(s) \cap unapproved') <= T
  <2>1. CASE s # z
    <3>1. C(s) = B(s) /\ stakes[s] = m_mapStakes[s] /\ b \notin B(s)
      BY <1>4, <1>7, <2>1
    <3>2. C(s) \cap unapproved' = B(s) \cap unapproved  BY <1>1, <3>1
    <3> QED  BY <1>5, <1>8, <1>9, <2>1, <3>1, <3>2
  <2>2. CASE s = z
    <3>1. C(s) \subseteq Packaged(s)'  BY <1>5, <1>7, <1>8, <2>2
    <3>2. \E c \in C(s) : stakes[s].nHeight = Height(c)
      <4>1. CASE B(z) = {}  BY <1>7, <2>2, <4>1
      <4>2. CASE B(z) # {}
        <5>1. PICK c \in B(z) : m_mapStakes[z].nHeight = Height(c)  BY <1>2, <1>5, <4>2
        <5>2. c \in C(s) /\ stakes[s].nHeight = Height(c)  BY <1>7, <2>2, <4>2, <5>1
        <5> QED  BY <5>2
      <4> QED  BY <4>1, <4>2
    <3>3. Expired(s)' \/ C(s) = Packaged(s)'  BY <1>5, <1>7, <1>8, <1>9, <2>2
    <3>4. B(z) \subseteq haveData /\ IsFiniteSet(B(z)) /\ b \notin B(z)
      BY <1>2, <1>4, <1>5, FS_Subset
    <3>5. Cardinality(C(s) \cap unapproved') <= T
      <4>1. CASE HasSufficientProof(m_mapBlockWitness, b)
        <5>1. C(s) \cap unapproved' = B(z) \cap unapproved
          BY <1>1, <1>4, <1>7, <2>2, <4>1
        <5> QED  BY <1>2, <1>5, <5>1
      <4>2. CASE Cardinality(B(z)) < T
        <5>1. IsFiniteSet(C(s)) /\ Cardinality(C(s)) = Cardinality(B(z)) + 1
          BY <1>7, <2>2, <3>4, FS_AddElement
        <5>2. Cardinality(C(s) \cap unapproved') <= Cardinality(C(s))
          BY <5>1, FS_Subset
        <5>3. /\ Cardinality(B(z)) \in Nat /\ Cardinality(C(s)) \in Nat
              /\ Cardinality(C(s) \cap unapproved') \in Nat
          <6>1. IsFiniteSet(C(s) \cap unapproved')  BY <5>1, FS_Subset
          <6> QED  BY <3>4, <5>1, <6>1, FS_CardinalityType
        <5> QED  BY <1>6, <4>2, <5>1, <5>2, <5>3
      <4>3. Cardinality(B(z)) \in Nat  BY <3>4, FS_CardinalityType
      <4> QED  BY <1>6, <4>1, <4>2, <4>3 DEF IsSuspicious, z
    <3> QED  BY <3>1, <3>2, <3>3, <3>5
  <2> QED  BY <2>1, <2>2
<1>11. ASSUME NEW s \in Stakes
       PROVE  /\ m_mapStakes'[s].blocks \subseteq Packaged(s)'
              /\ m_mapStakes'[s].blocks # {} =>
                   \E c \in m_mapStakes'[s].blocks : m_mapStakes'[s].nHeight = Height(c)
              /\ Expired(s)' \/ m_mapStakes'[s].blocks = Packaged(s)'
              /\ Cardinality(m_mapStakes'[s].blocks \cap unapproved') <= T
  <2>1. CASE s \in StaleStakes(stakes, h)
    <3>1. m_mapStakes'[s] = [nHeight |-> 0, blocks |-> {}]
      BY <1>1, <2>1 DEF EraseStakes
    <3>2. PICK c \in C(s) : stakes[s].nHeight = Height(c)
      BY <1>10, <2>1 DEF StaleStakes
    <3>3. c \in Packaged(s)' /\ c \in Block
      <4>1. c \in Packaged(s)'  BY <1>10, <3>2
      <4>2. Packaged(s)' \subseteq haveData'  BY DEF Packaged
      <4> QED  BY <1>1, <1>4, <4>1, <4>2
    <3>4. Height(c) < Height(b) - MaxReorganizationDepth
      BY <2>1, <3>2 DEF StaleStakes
    <3>5. Height(b) - Height(c) > MaxReorganizationDepth  BY <1>3, <1>6, <3>3, <3>4
    <3>6. Expired(s)'
      <4>1. b \in haveData'  BY <1>1
      <4> QED  BY <3>3, <3>5, <4>1 DEF Expired, Height
    <3>7. Cardinality({} \cap unapproved') = 0
      <4>1. {} \cap unapproved' = {}  OBVIOUS
      <4> QED  BY <4>1, FS_EmptySet
    <3> QED  BY <1>6, <3>1, <3>6, <3>7
  <2>2. CASE s \notin StaleStakes(stakes, h)
    <3>1. m_mapStakes'[s] = stakes[s]  BY <1>1, <2>2 DEF EraseStakes
    <3> QED  BY <1>10, <3>1
  <2> QED  BY <2>1, <2>2
<1>12. IsFiniteSet(haveData')  BY <1>1, <1>5, FS_AddElement
<1> QED  BY <1>11, <1>12 DEF StakeRecords

LEMMA SInvStep ==
  SInv /\ [Next]_vars => SInv'
<1> SUFFICES ASSUME SInv, [Next]_vars  PROVE StakeRecords'  BY FInvStep DEF SInv
<1>1. FInv /\ StakeRecords  BY DEF SInv
<1>2. ASSUME NEW p \in Peer, BlockMessage(p)  PROVE StakeRecords'
  <2> DEFINE b == Arg(p)
  <2>1. CASE UNCHANGED <<nodeVars, proofVars>>
    BY <1>1, <2>1, StakesSame DEF nodeVars, proofVars
  <2>2. CASE ~On(b, tip) /\ ProcessNewBlock(p, b)
    <3>1. CASE ~HeaderTooDeep(b) /\ b \notin haveData /\ ~IsSuspicious(b) /\ StoreBlock(b)
      <4>1. b \in Block
        <5>1. TypeOK /\ recv[p] # <<>> /\ Head(recv[p]).cmd = "block"
          BY <1>1, <1>2 DEF FInv, BlockMessage, Receives
        <5> QED  BY <5>1, ReceivedMessage, MessageArgs DEF Arg
      <4>2. b # Genesis
        <5>1. tip \in Block  BY <1>1 DEF FInv, TypeOK
        <5> QED  BY <2>2, <5>1, GenesisOn
      <4> HIDE DEF b
      <4> QED  BY <1>1, <3>1, <4>1, <4>2, StoreStakes
    <3>2. CASE UNCHANGED <<haveData, unapproved, m_mapStakes>>
      BY <1>1, <3>2, StakesSame
    <3> QED  BY <2>2, <3>1, <3>2 DEF ProcessNewBlock, nodeVars, proofVars
  <2> QED  BY <1>2, <2>1, <2>2 DEF BlockMessage
<1>3. ASSUME UNCHANGED <<haveData, unapproved, m_mapStakes>>  PROVE StakeRecords'
  BY <1>1, <1>3, StakesSame
<1> USE DEF nodeVars, proofVars
<1>4. ASSUME NEW p \in Peer, Handle(p)  PROVE StakeRecords'
  BY <1>2, <1>3, <1>4 DEF Handle, Inv, BlockProof
<1>5. ASSUME NEW p \in Peer,
             PeerHandles(p) \/ SendMessages(p) \/ TimeoutDownloading(p) \/ Reconnect(p)
      PROVE  StakeRecords'
  BY <1>3, <1>5 DEF PeerHandles, SendMessages, TimeoutDownloading, Disconnect, Reconnect
<1>6. ASSUME NEW p \in Peer, PeerExtends(p) \/ PeerSendsProof(p)  PROVE StakeRecords'
  BY <1>3, <1>6 DEF PeerExtends, PeerSendsProof
<1>7. ASSUME NEW m \in Masternode, NEW p \in Peer, MasternodePing(m, p)  PROVE StakeRecords'
  BY <1>3, <1>7 DEF MasternodePing
<1>8. CASE UNCHANGED vars  BY <1>3, <1>8 DEF vars
<1> QED  BY <1>4, <1>5, <1>6, <1>7, <1>8 DEF Next

\* While its blocks are within the depth of a reorganization, at most
\* STAKE_REPACKAGE_THRESHOLD blocks of a stake get past IsSuspicious without
\* masternodes that vouch for them, for any number of peers, blocks, witnesses
\* and any order of the messages.
THEOREM RepackagingLimited ==
  Spec => []RepackageLimited
<1>1. Init => SInv
  <2> SUFFICES ASSUME Init  PROVE StakeRecords  BY FInvInit DEF SInv
  <2>1. haveData = {Genesis} /\ unapproved = {} /\ \A s \in Stakes : m_mapStakes[s].blocks = {}
    BY DEF Init
  <2>2. IsFiniteSet(haveData)  BY <2>1, FS_Singleton
  <2>3. \A s \in Stakes : Packaged(s) = {}  BY <2>1 DEF Packaged
  <2>4. Cardinality({} \cap unapproved) = 0
    <3>1. {} \cap unapproved = {}  OBVIOUS
    <3> QED  BY <3>1, FS_EmptySet
  <2>5. STAKE_REPACKAGE_THRESHOLD \in Nat  BY DownloadAssumption DEF DownloadAssumption
  <2> QED  BY <2>1, <2>2, <2>3, <2>4, <2>5 DEF StakeRecords
<1>2. SInv => RepackageLimited
  <2> SUFFICES ASSUME SInv, NEW s \in Stakes,
                      \A b \in Packaged(s), c \in haveData :
                        Height(c) - Height(b) <= MaxReorganizationDepth
               PROVE  Cardinality(Packaged(s) \cap unapproved) <= STAKE_REPACKAGE_THRESHOLD
    BY DEF RepackageLimited
  <2>1. ~Expired(s)
    <3>1. haveData \subseteq Block /\ Packaged(s) \subseteq Block
      BY DEF SInv, FInv, TypeOK, Packaged
    <3>2. \A c \in Block : Height(c) \in Int  BY ChainFacts DEF Height
    <3>3. MaxReorganizationDepth \in Int  BY DownloadAssumption DEF DownloadAssumption
    <3> QED  BY <3>1, <3>2, <3>3 DEF Expired
  <2> QED  BY <2>1 DEF SInv, StakeRecords
<1> QED  BY <1>1, <1>2, SInvStep, PTL DEF Spec

=============================================================================
