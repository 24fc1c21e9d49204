--------------------------- MODULE FailoverProofs ---------------------------
(***************************************************************************)
(* Theorems about Failover, for any models, providers, policies and        *)
(* requests.                                                               *)
(*                                                                         *)
(* First the list of candidates.  The functions that build it are          *)
(* recursive on the length of a chain and of a fallback order; what they   *)
(* have built so far is characterised by induction (Chained, Defaulted),   *)
(* and from that what fallback_candidates promises follows                 *)
(* (ListedAsDocumented).  Then the loop that tries them, with its          *)
(* inductive invariant IInv.                                               *)
(***************************************************************************)
EXTENDS Failover, SetInduction, SequenceTheorems

Candidates == [provider: Providers, model: Models]

-----------------------------------------------------------------------------
(* Sequences as sets. *)

LEMMA MemberOf ==
    ASSUME NEW S, NEW s \in Seq(S)
    PROVE  /\ ToSet(s) \subseteq S
           /\ \A c : c \in ToSet(s) <=> \E i \in 1 .. Len(s) : s[i] = c
BY DEF ToSet

LEMMA AppendedSet ==
    ASSUME NEW S, NEW s \in Seq(S), NEW c \in S
    PROVE  ToSet(Append(s, c)) = ToSet(s) \cup {c}
<1> DEFINE t == Append(s, c)
<1>1. /\ t \in Seq(S) /\ Len(t) = Len(s) + 1 /\ Len(s) \in Nat
      /\ \A i \in 1 .. Len(s) : t[i] = s[i]
      /\ t[Len(s) + 1] = c
  OBVIOUS
<1>2. /\ DOMAIN t = 1 .. Len(s) + 1
      /\ DOMAIN s = 1 .. Len(s)
  BY <1>1
<1> HIDE DEF t
<1>3. ToSet(t) \subseteq ToSet(s) \cup {c}
  BY <1>1, <1>2 DEF ToSet
<1>4. ToSet(s) \subseteq ToSet(t)
  <2> SUFFICES ASSUME NEW i \in 1 .. Len(s) PROVE s[i] \in ToSet(t)
    BY <1>2 DEF ToSet
  <2>1. s[i] = t[i] /\ i \in DOMAIN t
    BY <1>1, <1>2
  <2> QED BY <2>1 DEF ToSet
<1>5. c \in ToSet(t)
  BY <1>1, <1>2 DEF ToSet
<1> QED BY <1>3, <1>4, <1>5 DEF t

-----------------------------------------------------------------------------
(* The chain.  ChainUpTo(s, n, f) says that f is upto of ChainCandidates   *)
(* on the models s, as far as n.                                           *)

ChainStep(s, n, cs) ==
    LET c == Candidate(s[n]) IN IF c \in ToSet(cs) THEN cs ELSE Append(cs, c)

ChainUpTo(s, n, f) ==
    f = [i \in 0 .. n |-> IF i = 0 THEN <<>> ELSE ChainStep(s, i, f[i - 1])]

LEMMA ChainExists ==
    ASSUME NEW s, NEW N \in Nat
    PROVE  \E f : ChainUpTo(s, N, f)
<1> DEFINE T == {n \in 0 .. N : \E f : ChainUpTo(s, n, f)}
<1>1. 0 \in T
  <2>1. ChainUpTo(s, 0, [i \in 0 .. 0 |-> <<>>])
    BY DEF ChainUpTo
  <2> QED BY <2>1
<1>2. ASSUME NEW n \in 1 .. N, n - 1 \in T PROVE n \in T
  <2>1. PICK f : ChainUpTo(s, n - 1, f)
    BY <1>2
  <2> DEFINE g == [i \in 0 .. n |-> IF i < n THEN f[i] ELSE ChainStep(s, n, f[n - 1])]
  <2>2. ASSUME NEW i \in 0 .. n
        PROVE  g[i] = IF i = 0 THEN <<>> ELSE ChainStep(s, i, g[i - 1])
    <3>1. CASE i = 0
      <4>1. g[0] = f[0] OBVIOUS
      <4>2. f[0] = <<>>
        BY <2>1 DEF ChainUpTo
      <4> QED BY <3>1, <4>1, <4>2
    <3>2. CASE i \in 1 .. n - 1
      <4>1. g[i] = f[i] /\ g[i - 1] = f[i - 1]
        BY <3>2
      <4>2. f[i] = ChainStep(s, i, f[i - 1])
        BY <2>1, <3>2 DEF ChainUpTo
      <4> HIDE DEF g
      <4> QED BY <3>2, <4>1, <4>2
    <3>3. CASE i = n
      <4>1. g[n] = ChainStep(s, n, f[n - 1]) /\ g[n - 1] = f[n - 1]
        OBVIOUS
      <4> HIDE DEF g
      <4> QED BY <3>3, <4>1
    <3> QED BY <3>1, <3>2, <3>3
  <2>3. ChainUpTo(s, n, g)
    <3>1. g = [i \in 0 .. n |-> g[i]]
      OBVIOUS
    <3> HIDE DEF g
    <3>2. g = [i \in 0 .. n |-> IF i = 0 THEN <<>> ELSE ChainStep(s, i, g[i - 1])]
      BY <2>2, <3>1
    <3> QED BY <3>2 DEF ChainUpTo
  <2> QED BY <2>3
<1>3. \A n \in 0 .. N : n \in T
  <2> HIDE DEF T
  <2> QED BY <1>1, <1>2, IntervalInduction
<1> QED BY <1>3

(* So the recursive definition of the chain means what it says.            *)
LEMMA ChainUnfolds ==
    ASSUME NEW p \in RoutingType, NEW m \in Models
    PROVE  LET s == <<m>> \o p.chain[m]
           IN  \E f : /\ ChainCandidates(p, m) = f[Len(s)]
                      /\ f[0] = <<>>
                      /\ \A n \in 1 .. Len(s) : f[n] = ChainStep(s, n, f[n - 1])
<1> DEFINE s == <<m>> \o p.chain[m]
           f == CHOOSE g : ChainUpTo(s, Len(s), g)
<1>1. Len(s) \in Nat
  BY DEF RoutingType
<1>2. ChainCandidates(p, m) = f[Len(s)]
  BY DEF ChainCandidates, ChainUpTo, ChainStep
<1>3. ChainUpTo(s, Len(s), f)
  <2> HIDE DEF s
  <2> QED BY <1>1, ChainExists
<1>4. f[0] = <<>> /\ \A n \in 1 .. Len(s) : f[n] = ChainStep(s, n, f[n - 1])
  <2> HIDE DEF s, f
  <2> QED BY <1>1, <1>3 DEF ChainUpTo
<1> QED BY <1>2, <1>4

-----------------------------------------------------------------------------
(* The ranks CandidatesAsDocumented orders the candidates by. *)

LEMMA FirstOf ==
    ASSUME NEW T \in SUBSET (Nat \ {0}), NEW k \in T
    PROVE  \E i \in T : i <= k /\ \A j \in 1 .. i - 1 : j \notin T
<1>1. PICK i \in T : \A j \in T : i <= j
  BY LeastElement
<1> QED BY <1>1

ModelsOf(p, m) == <<m>> \o p.chain[m]

LEMMA ModelsType ==
    ASSUME NEW p \in RoutingType, NEW m \in Models
    PROVE  /\ ModelsOf(p, m) \in Seq(Models) /\ Len(ModelsOf(p, m)) \in Nat \ {0}
           /\ ModelsOf(p, m)[1] = m
           /\ ToSet(ModelsOf(p, m)) = {m} \cup ToSet(p.chain[m])
<1>1. p.chain[m] \in Seq(Models)
  BY DEF RoutingType
<1> DEFINE c == p.chain[m]  s == <<m>> \o c
<1>2. /\ s \in Seq(Models) /\ Len(s) = Len(c) + 1 /\ Len(c) \in Nat /\ s[1] = m
      /\ \A i \in 1 .. Len(c) : s[i + 1] = c[i]
  BY <1>1
<1>3. /\ DOMAIN s = 1 .. Len(c) + 1
      /\ DOMAIN c = 1 .. Len(c)
  BY <1>1, <1>2
<1> HIDE DEF s, c
<1>4. ToSet(s) = {m} \cup ToSet(c)
  <2>1. ToSet(s) \subseteq {m} \cup ToSet(c)
    <3> SUFFICES ASSUME NEW i \in 1 .. Len(c) + 1 PROVE s[i] \in {m} \cup ToSet(c)
      BY <1>3 DEF ToSet
    <3>1. CASE i = 1
      BY <3>1, <1>2
    <3>2. CASE i # 1
      <4>1. s[i] = c[i - 1] /\ i - 1 \in 1 .. Len(c)
        BY <3>2, <1>2
      <4> QED BY <4>1, <1>3 DEF ToSet
    <3> QED BY <3>1, <3>2
  <2>2. m \in ToSet(s)
    BY <1>2, <1>3 DEF ToSet
  <2>3. ToSet(c) \subseteq ToSet(s)
    <3> SUFFICES ASSUME NEW i \in 1 .. Len(c) PROVE c[i] \in ToSet(s)
      BY <1>3 DEF ToSet
    <3>1. c[i] = s[i + 1] /\ i + 1 \in DOMAIN s
      BY <1>2, <1>3
    <3> QED BY <3>1 DEF ToSet
  <2> QED BY <2>1, <2>2, <2>3
<1> QED BY <1>2, <1>4 DEF ModelsOf, s, c

(* A candidate of the chain has the place of its first model as its rank.  *)
LEMMA ChainRank ==
    ASSUME NEW p \in RoutingType, NEW m \in Models, NEW c,
           NEW i \in 1 .. Len(ModelsOf(p, m)), Candidate(ModelsOf(p, m)[i]) = c
    PROVE  /\ Rank(p, m, c) \in 1 .. i
           /\ Candidate(ModelsOf(p, m)[Rank(p, m, c)]) = c
           /\ (\A j \in 1 .. i - 1 : Candidate(ModelsOf(p, m)[j]) # c) => Rank(p, m, c) = i
<1> DEFINE s == ModelsOf(p, m)
           T == {k \in 1 .. Len(s) : Candidate(s[k]) = c}
           r == CHOOSE k \in DOMAIN s : Candidate(s[k]) = c /\ \A j \in 1 .. k - 1 : Candidate(s[j]) # c
<1>1. s \in Seq(Models) /\ Len(s) \in Nat /\ DOMAIN s = 1 .. Len(s)
  BY ModelsType
<1>2. Rank(p, m, c) = r
  BY <1>1 DEF Rank, ModelsOf
<1> HIDE DEF s
<1>3. PICK k \in T : k <= i /\ \A j \in 1 .. k - 1 : j \notin T
  <2>1. T \in SUBSET (Nat \ {0}) /\ i \in T
    BY <1>1 DEF s
  <2> HIDE DEF T
  <2> QED BY <2>1, FirstOf
<1>4. r \in DOMAIN s /\ Candidate(s[r]) = c /\ \A j \in 1 .. r - 1 : Candidate(s[j]) # c
  BY <1>1, <1>3
<1> HIDE DEF r
<1>5. r = k
  BY <1>1, <1>3, <1>4
<1>6. r <= i
  BY <1>5, <1>3
<1>7. (\A j \in 1 .. i - 1 : Candidate(s[j]) # c) => r = i
  BY <1>1, <1>4, <1>6
<1> QED BY <1>1, <1>2, <1>4, <1>6, <1>7 DEF s

(* Any other, the first place of its provider in the fallback order, after *)
(* all of the chain.                                                       *)
LEMMA OrderRank ==
    ASSUME NEW p \in RoutingType, NEW m \in Models, NEW c,
           \A j \in 1 .. Len(ModelsOf(p, m)) : Candidate(ModelsOf(p, m)[j]) # c,
           NEW i \in 1 .. Len(p.order), p.order[i] = c.provider
    PROVE  /\ Rank(p, m, c) \in Len(ModelsOf(p, m)) + 1 .. Len(ModelsOf(p, m)) + i
           /\ (\A j \in 1 .. i - 1 : p.order[j] # c.provider) =>
                  Rank(p, m, c) = Len(ModelsOf(p, m)) + i
<1> DEFINE s == ModelsOf(p, m)
           o == p.order
           T == {k \in 1 .. Len(o) : o[k] = c.provider}
           r == CHOOSE k \in DOMAIN o : o[k] = c.provider /\ \A j \in 1 .. k - 1 : o[j] # c.provider
<1>1. s \in Seq(Models) /\ Len(s) \in Nat /\ DOMAIN s = 1 .. Len(s)
  BY ModelsType
<1>2. o \in Seq(Providers) /\ Len(o) \in Nat /\ DOMAIN o = 1 .. Len(o)
  BY DEF RoutingType
<1>3. Rank(p, m, c) = Len(s) + r
  BY <1>1 DEF Rank, ModelsOf
<1> HIDE DEF s, o
<1>4. PICK k \in T : k <= i /\ \A j \in 1 .. k - 1 : j \notin T
  <2>1. T \in SUBSET (Nat \ {0}) /\ i \in T
    BY <1>2 DEF o
  <2> HIDE DEF T
  <2> QED BY <2>1, FirstOf
<1>5. r \in DOMAIN o /\ o[r] = c.provider /\ \A j \in 1 .. r - 1 : o[j] # c.provider
  <2>1. k \in DOMAIN o /\ o[k] = c.provider /\ k \in Nat
    BY <1>2
  <2>2. \A j \in 1 .. k - 1 : o[j] # c.provider
    BY <1>2, <1>4, <2>1
  <2> HIDE DEF T
  <2> QED BY <2>1, <2>2
<1> HIDE DEF r
<1>6. r = k
  BY <1>2, <1>4, <1>5
<1>7. r \in 1 .. i
  BY <1>2, <1>4, <1>6
<1>8. (\A j \in 1 .. i - 1 : o[j] # c.provider) => r = i
  BY <1>2, <1>5, <1>7
<1> QED BY <1>1, <1>3, <1>7, <1>8 DEF s, o

-----------------------------------------------------------------------------
(* What ChainCandidates has collected after n models: their candidates,    *)
(* each once, in the order of their first mention.                         *)

Ranked(p, m, cs) ==
    \A i, j \in 1 .. Len(cs) : i < j => Rank(p, m, cs[i]) < Rank(p, m, cs[j])

Chained(p, m, n, cs) ==
    /\ cs \in Seq(Candidates)
    /\ ToSet(cs) = {Candidate(ModelsOf(p, m)[i]) : i \in 1 .. n}
    /\ Ranked(p, m, cs)

LEMMA RankedAppend ==
    ASSUME NEW p, NEW m, NEW S, NEW cs \in Seq(S), NEW c \in S,
           Ranked(p, m, cs), \A d \in ToSet(cs) : Rank(p, m, d) < Rank(p, m, c)
    PROVE  Ranked(p, m, Append(cs, c))
<1> DEFINE t == Append(cs, c)
<1>1. /\ Len(t) = Len(cs) + 1 /\ Len(cs) \in Nat
      /\ \A i \in 1 .. Len(cs) : t[i] = cs[i]
      /\ t[Len(cs) + 1] = c
  OBVIOUS
<1> HIDE DEF t
<1>2. ASSUME NEW i \in 1 .. Len(t), NEW j \in 1 .. Len(t), i < j
      PROVE  Rank(p, m, t[i]) < Rank(p, m, t[j])
  <2>1. i \in 1 .. Len(cs) /\ t[i] = cs[i]
    BY <1>1, <1>2
  <2>2. CASE j \in 1 .. Len(cs)
    BY <1>1, <1>2, <2>1, <2>2 DEF Ranked
  <2>3. CASE j = Len(cs) + 1
    <3>1. cs[i] \in ToSet(cs)
      BY <2>1, MemberOf
    <3> QED BY <1>1, <2>1, <2>3, <3>1
  <2> QED BY <1>1, <2>2, <2>3
<1> QED BY <1>2 DEF Ranked, t

LEMMA CandidateType ==
    ASSUME NEW m \in Models
    PROVE  Candidate(m) \in Candidates
BY FailoverAssumption DEF Candidate, Candidates

LEMMA ChainedStep ==
    ASSUME NEW p \in RoutingType, NEW m \in Models, NEW cs,
           NEW n \in 1 .. Len(ModelsOf(p, m)), Chained(p, m, n - 1, cs)
    PROVE  Chained(p, m, n, ChainStep(ModelsOf(p, m), n, cs))
<1> DEFINE s == ModelsOf(p, m)  c == Candidate(s[n])
<1>1. s \in Seq(Models) /\ Len(s) \in Nat /\ \A i \in 1 .. Len(s) : s[i] \in Models
  BY ModelsType
<1>2. c \in Candidates
  BY <1>1, CandidateType
<1> HIDE DEF s
<1>3. {Candidate(s[i]) : i \in 1 .. n} = {Candidate(s[i]) : i \in 1 .. n - 1} \cup {c}
  <2>1. 1 .. n = (1 .. n - 1) \cup {n}
    OBVIOUS
  <2> QED BY <2>1
<1> HIDE DEF c
<1>4. cs \in Seq(Candidates) /\ ToSet(cs) = {Candidate(s[i]) : i \in 1 .. n - 1} /\ Ranked(p, m, cs)
  BY DEF Chained, s
<1>5. CASE c \in ToSet(cs)
  <2>1. ChainStep(s, n, cs) = cs
    BY <1>5 DEF ChainStep, c
  <2> QED BY <1>3, <1>4, <1>5, <2>1 DEF Chained, s
<1>6. CASE c \notin ToSet(cs)
  <2>1. ChainStep(s, n, cs) = Append(cs, c)
    BY <1>6 DEF ChainStep, c
  <2>2. Rank(p, m, c) = n
    BY <1>4, <1>6, ChainRank DEF s, c
  <2>3. ASSUME NEW d \in ToSet(cs) PROVE Rank(p, m, d) < n
    <3>1. PICK i \in 1 .. n - 1 : d = Candidate(s[i])
      BY <1>4
    <3>2. Rank(p, m, d) \in 1 .. i
      BY <1>1, <3>1, ChainRank DEF s
    <3> QED BY <3>2
  <2>4. Ranked(p, m, Append(cs, c))
    BY <1>2, <1>4, <2>2, <2>3, RankedAppend
  <2>5. ToSet(Append(cs, c)) = ToSet(cs) \cup {c} /\ Append(cs, c) \in Seq(Candidates)
    BY <1>2, <1>4, AppendedSet
  <2> QED BY <1>3, <1>4, <2>1, <2>4, <2>5 DEF Chained, s
<1> QED BY <1>5, <1>6

LEMMA ChainIsChained ==
    ASSUME NEW p \in RoutingType, NEW m \in Models
    PROVE  Chained(p, m, Len(ModelsOf(p, m)), ChainCandidates(p, m))
<1> DEFINE s == ModelsOf(p, m)
<1>1. Len(s) \in Nat
  BY ModelsType
<1>2. PICK f : /\ ChainCandidates(p, m) = f[Len(s)]
               /\ f[0] = <<>>
               /\ \A n \in 1 .. Len(s) : f[n] = ChainStep(s, n, f[n - 1])
  BY ChainUnfolds DEF ModelsOf
<1> HIDE DEF s
<1> DEFINE T == {n \in 0 .. Len(s) : Chained(p, m, n, f[n])}
<1>3. 0 \in T
  <2>1. Chained(p, m, 0, <<>>)
    BY DEF Chained, Ranked, ToSet
  <2> QED BY <1>1, <1>2, <2>1
<1>4. ASSUME NEW n \in 1 .. Len(s), n - 1 \in T PROVE n \in T
  BY <1>1, <1>2, <1>4, ChainedStep DEF s
<1>5. \A n \in 0 .. Len(s) : n \in T
  <2> HIDE DEF T
  <2> QED BY <1>1, <1>3, <1>4, IntervalInduction
<1> QED BY <1>1, <1>2, <1>5 DEF s

-----------------------------------------------------------------------------
(* The defaults.  OrderUpTo(p, chain, n, f) says that f is upto of         *)
(* WithDefaults, as far as n.                                              *)

Default(p, v) == [provider |-> v, model |-> p.default[v]]

OrderStep(p, n, cs) ==
    LET v == p.order[n]
    IN  IF v \in ProvidersIn(cs) \/ p.default[v] = NoModel THEN cs ELSE Append(cs, Default(p, v))

OrderUpTo(p, chain, n, f) ==
    f = [i \in 0 .. n |-> IF i = 0 THEN chain ELSE OrderStep(p, i, f[i - 1])]

LEMMA OrderExists ==
    ASSUME NEW p, NEW chain, NEW N \in Nat
    PROVE  \E f : OrderUpTo(p, chain, N, f)
<1> DEFINE T == {n \in 0 .. N : \E f : OrderUpTo(p, chain, n, f)}
<1>1. 0 \in T
  <2>1. OrderUpTo(p, chain, 0, [i \in 0 .. 0 |-> chain])
    BY DEF OrderUpTo
  <2> QED BY <2>1
<1>2. ASSUME NEW n \in 1 .. N, n - 1 \in T PROVE n \in T
  <2>1. PICK f : OrderUpTo(p, chain, n - 1, f)
    BY <1>2
  <2> DEFINE g == [i \in 0 .. n |-> IF i < n THEN f[i] ELSE OrderStep(p, n, f[n - 1])]
  <2>2. ASSUME NEW i \in 0 .. n
        PROVE  g[i] = IF i = 0 THEN chain ELSE OrderStep(p, i, g[i - 1])
    <3>1. CASE i = 0
      <4>1. g[0] = f[0] OBVIOUS
      <4>2. f[0] = chain
        BY <2>1 DEF OrderUpTo
      <4> QED BY <3>1, <4>1, <4>2
    <3>2. CASE i \in 1 .. n - 1
      <4>1. g[i] = f[i] /\ g[i - 1] = f[i - 1]
        BY <3>2
      <4>2. f[i] = OrderStep(p, i, f[i - 1])
        BY <2>1, <3>2 DEF OrderUpTo
      <4> HIDE DEF g
      <4> QED BY <3>2, <4>1, <4>2
    <3>3. CASE i = n
      <4>1. g[n] = OrderStep(p, n, f[n - 1]) /\ g[n - 1] = f[n - 1]
        OBVIOUS
      <4> HIDE DEF g
      <4> QED BY <3>3, <4>1
    <3> QED BY <3>1, <3>2, <3>3
  <2>3. OrderUpTo(p, chain, n, g)
    <3>1. g = [i \in 0 .. n |-> g[i]]
      OBVIOUS
    <3> HIDE DEF g
    <3>2. g = [i \in 0 .. n |-> IF i = 0 THEN chain ELSE OrderStep(p, i, g[i - 1])]
      BY <2>2, <3>1
    <3> QED BY <3>2 DEF OrderUpTo
  <2> QED BY <2>3
<1>3. \A n \in 0 .. N : n \in T
  <2> HIDE DEF T
  <2> QED BY <1>1, <1>2, IntervalInduction
<1> QED BY <1>3

LEMMA OrderUnfolds ==
    ASSUME NEW p \in RoutingType, NEW chain
    PROVE  \E f : /\ WithDefaults(p, chain) = f[Len(p.order)]
                  /\ f[0] = chain
                  /\ \A n \in 1 .. Len(p.order) : f[n] = OrderStep(p, n, f[n - 1])
<1> DEFINE N == Len(p.order)
           f == CHOOSE g : OrderUpTo(p, chain, N, g)
<1>1. N \in Nat
  BY DEF RoutingType
<1>2. WithDefaults(p, chain) = f[N]
  BY DEF WithDefaults, OrderUpTo, OrderStep, Default
<1>3. OrderUpTo(p, chain, N, f)
  <2> HIDE DEF N
  <2> QED BY <1>1, OrderExists
<1>4. f[0] = chain /\ \A n \in 1 .. N : f[n] = OrderStep(p, n, f[n - 1])
  <2> HIDE DEF N, f
  <2> QED BY <1>1, <1>3 DEF OrderUpTo
<1> QED BY <1>2, <1>4

(* What WithDefaults has collected after n places of the order: the chain, *)
(* then the defaults of the providers met so far that it does not name.    *)
ChainSet(p, m) == {Candidate(ModelsOf(p, m)[i]) : i \in 1 .. Len(ModelsOf(p, m))}

Missing(p, m, n) ==
    {v \in {p.order[i] : i \in 1 .. n} :
        p.default[v] # NoModel /\ \A c \in ChainSet(p, m) : c.provider # v}

Defaulted(p, m, n, cs) ==
    /\ cs \in Seq(Candidates)
    /\ ToSet(cs) = ChainSet(p, m) \cup {Default(p, v) : v \in Missing(p, m, n)}
    /\ Ranked(p, m, cs)

LEMMA DefaultedStep ==
    ASSUME NEW p \in RoutingType, NEW m \in Models, NEW cs,
           NEW n \in 1 .. Len(p.order), Defaulted(p, m, n - 1, cs)
    PROVE  Defaulted(p, m, n, OrderStep(p, n, cs))
<1> DEFINE v == p.order[n]
           len == Len(ModelsOf(p, m))
           due == p.default[v] # NoModel /\ \A c \in ChainSet(p, m) : c.provider # v
<1>1. /\ p.order \in Seq(Providers) /\ Len(p.order) \in Nat
      /\ p.default \in [Providers -> Models \cup {NoModel}]
  BY DEF RoutingType
<1>2. v \in Providers /\ len \in Nat
  BY <1>1, ModelsType
<1>3. /\ cs \in Seq(Candidates) /\ Ranked(p, m, cs)
      /\ ToSet(cs) = ChainSet(p, m) \cup {Default(p, w) : w \in Missing(p, m, n - 1)}
  BY DEF Defaulted
<1>4. Missing(p, m, n) = Missing(p, m, n - 1) \cup {w \in {v} : due}
  <2>1. {p.order[i] : i \in 1 .. n} = {p.order[i] : i \in 1 .. n - 1} \cup {v}
    <3>1. 1 .. n = (1 .. n - 1) \cup {n}
      OBVIOUS
    <3> QED BY <3>1
  <2> QED BY <2>1 DEF Missing
<1>5. CASE v \in ProvidersIn(cs) \/ p.default[v] = NoModel
  <2>1. OrderStep(p, n, cs) = cs
    BY <1>5 DEF OrderStep
  <2>2. ASSUME due PROVE v \in Missing(p, m, n - 1)
    <3>1. PICK c \in ToSet(cs) : c.provider = v
      BY <1>5, <2>2 DEF ProvidersIn
    <3>2. c \notin ChainSet(p, m)
      BY <2>2, <3>1
    <3>3. PICK w \in Missing(p, m, n - 1) : c = Default(p, w)
      BY <1>3, <3>1, <3>2
    <3> QED BY <3>1, <3>3 DEF Default
  <2>3. Missing(p, m, n) = Missing(p, m, n - 1)
    <3> HIDE DEF due
    <3> QED BY <1>4, <2>2
  <2> QED BY <1>3, <2>1, <2>3 DEF Defaulted
<1>6. CASE v \notin ProvidersIn(cs) /\ p.default[v] # NoModel
  <2> DEFINE c == Default(p, v)
  <2>1. OrderStep(p, n, cs) = Append(cs, c)
    BY <1>6 DEF OrderStep
  <2>2. c \in Candidates
    BY <1>1, <1>2, <1>6 DEF Default, Candidates
  <2>3. due
    BY <1>3, <1>6 DEF ProvidersIn
  <2>4. v \notin Missing(p, m, n - 1)
    <3>1. v \in Missing(p, m, n - 1) => c \in ToSet(cs)
      BY <1>3
    <3>2. c.provider = v
      BY DEF Default
    <3> QED BY <1>6, <3>1, <3>2 DEF ProvidersIn
  <2>5. \A j \in 1 .. n - 1 : p.order[j] # v
    BY <2>3, <2>4 DEF Missing
  <2>6. Rank(p, m, c) = len + n
    <3>1. \A j \in 1 .. len : Candidate(ModelsOf(p, m)[j]) # c
      BY <2>3 DEF ChainSet, Default
    <3>2. c.provider = p.order[n]
      BY DEF Default
    <3> QED BY <2>5, <3>1, <3>2, OrderRank
  <2>7. ASSUME NEW d \in ToSet(cs) PROVE Rank(p, m, d) < Rank(p, m, c)
    <3>1. CASE d \in ChainSet(p, m)
      <4>1. PICK i \in 1 .. len : d = Candidate(ModelsOf(p, m)[i])
        BY <3>1 DEF ChainSet
      <4>2. Rank(p, m, d) \in 1 .. i
        BY <4>1, ChainRank
      <4> HIDE DEF c, len
      <4> QED BY <1>2, <2>6, <4>2
    <3>2. CASE d \notin ChainSet(p, m)
      <4>1. PICK w \in Missing(p, m, n - 1) : d = Default(p, w)
        BY <1>3, <3>2
      <4>2. PICK i \in 1 .. n - 1 : w = p.order[i]
        BY <4>1 DEF Missing
      <4>3. i \in 1 .. Len(p.order) /\ w \in Missing(p, m, i) 
        BY <1>1, <4>1, <4>2 DEF Missing
      <4>4. \A j \in 1 .. len : Candidate(ModelsOf(p, m)[j]) # d
        BY <3>2 DEF ChainSet
      <4>5. d.provider = p.order[i]
        BY <4>1, <4>2 DEF Default
      <4>6. Rank(p, m, d) \in len + 1 .. len + i
        BY <4>3, <4>4, <4>5, OrderRank
      <4> HIDE DEF c, len
      <4> QED BY <1>2, <2>6, <4>6
    <3> QED BY <3>1, <3>2
  <2>8. Ranked(p, m, Append(cs, c))
    BY <1>3, <2>2, <2>7, RankedAppend
  <2>9. ToSet(Append(cs, c)) = ToSet(cs) \cup {c} /\ Append(cs, c) \in Seq(Candidates)
    BY <1>3, <2>2, AppendedSet
  <2>10. Missing(p, m, n) = Missing(p, m, n - 1) \cup {v}
    BY <1>4, <2>3
  <2>11. {Default(p, w) : w \in Missing(p, m, n)} =
             {Default(p, w) : w \in Missing(p, m, n - 1)} \cup {c}
    BY <2>10
  <2> HIDE DEF c
  <2> QED BY <1>3, <2>1, <2>8, <2>9, <2>11 DEF Defaulted
<1> QED BY <1>5, <1>6

LEMMA AllIsDefaulted ==
    ASSUME NEW p \in RoutingType, NEW m \in Models
    PROVE  Defaulted(p, m, Len(p.order), WithDefaults(p, ChainCandidates(p, m)))
<1> DEFINE chain == ChainCandidates(p, m)
           N == Len(p.order)
<1>1. N \in Nat
  BY DEF RoutingType
<1>2. PICK f : /\ WithDefaults(p, chain) = f[N]
               /\ f[0] = chain
               /\ \A n \in 1 .. N : f[n] = OrderStep(p, n, f[n - 1])
  <2> HIDE DEF chain
  <2> QED BY OrderUnfolds
<1> DEFINE T == {n \in 0 .. N : Defaulted(p, m, n, f[n])}
<1>3. 0 \in T
  <2>1. Missing(p, m, 0) = {}
    BY DEF Missing
  <2>2. Chained(p, m, Len(ModelsOf(p, m)), chain)
    BY ChainIsChained
  <2> HIDE DEF chain
  <2>3. Defaulted(p, m, 0, chain)
    BY <2>1, <2>2 DEF Defaulted, Chained, ChainSet
  <2> HIDE DEF N
  <2> QED BY <1>1, <1>2, <2>3
<1>4. ASSUME NEW n \in 1 .. N, n - 1 \in T PROVE n \in T
  <2>1. Defaulted(p, m, n, OrderStep(p, n, f[n - 1]))
    BY <1>4, DefaultedStep
  <2> HIDE DEF N, chain
  <2> QED BY <1>1, <1>2, <2>1
<1>5. \A n \in 0 .. N : n \in T
  <2> HIDE DEF T, N
  <2> QED BY <1>1, <1>3, <1>4, IntervalInduction
<1> HIDE DEF N, chain
<1>6. Defaulted(p, m, N, f[N])
  BY <1>1, <1>5
<1> QED BY <1>2, <1>6 DEF N, chain

-----------------------------------------------------------------------------
(* The list as a whole: CandidatesAsDocumented says this of it. *)

Documented(p, m, cs) ==
    LET listed == IF p.enabled THEN Listed(p, m) ELSE {Candidate(m)}
        rank(c) == Rank(p, m, c)
    IN  /\ IsInjective(cs) /\ ToSet(cs) \subseteq listed
        /\ \A i, j \in DOMAIN cs : i < j => rank(cs[i]) < rank(cs[j])
        /\ \A c \in ToSet(cs), d \in listed : rank(d) < rank(c) => d \in ToSet(cs)
        /\ Len(cs) < Cardinality(listed) => Len(cs) = p.maxAttempts /\ p.enabled

LEMMA ChainSetIsChain ==
    ASSUME NEW p \in RoutingType, NEW m \in Models
    PROVE  ChainSet(p, m) = {Candidate(n) : n \in {m} \cup ToSet(p.chain[m])}
<1>1. ModelsOf(p, m) \in Seq(Models)
  BY ModelsType
<1>2. ToSet(ModelsOf(p, m)) = {ModelsOf(p, m)[i] : i \in 1 .. Len(ModelsOf(p, m))}
  BY <1>1 DEF ToSet
<1>3. ChainSet(p, m) = {Candidate(n) : n \in ToSet(ModelsOf(p, m))}
  BY <1>2 DEF ChainSet
<1> QED BY <1>3, ModelsType

LEMMA ListedIsDefaulted ==
    ASSUME NEW p \in RoutingType, NEW m \in Models
    PROVE  Listed(p, m) = ChainSet(p, m) \cup {Default(p, v) : v \in Missing(p, m, Len(p.order))}
<1>1. p.order \in Seq(Providers)
  BY DEF RoutingType
<1>2. ToSet(p.order) = {p.order[i] : i \in 1 .. Len(p.order)}
  BY <1>1 DEF ToSet
<1> QED BY <1>2, ChainSetIsChain DEF Listed, Missing, Default

(* Ranks are numbers, so a ranked sequence repeats nothing. *)
LEMMA RankedIsInjective ==
    ASSUME NEW p, NEW m, NEW S, NEW cs \in Seq(S), Ranked(p, m, cs),
           \A c \in ToSet(cs) : Rank(p, m, c) \in Nat
    PROVE  IsInjective(cs)
<1> SUFFICES ASSUME NEW i \in DOMAIN cs, NEW j \in DOMAIN cs, cs[i] = cs[j], i # j PROVE FALSE
  BY DEF IsInjective
<1>1. i \in 1 .. Len(cs) /\ j \in 1 .. Len(cs) /\ Rank(p, m, cs[i]) \in Nat
  BY DEF ToSet
<1>2. i < j \/ j < i
  BY <1>1
<1> QED BY <1>1, <1>2 DEF Ranked

LEMMA InjectiveLength ==
    ASSUME NEW S, NEW cs \in Seq(S), IsInjective(cs)
    PROVE  Cardinality(ToSet(cs)) = Len(cs)
<1>1. /\ cs \in [1 .. Len(cs) -> ToSet(cs)] /\ Len(cs) \in Nat
      /\ DOMAIN cs = 1 .. Len(cs)
  BY DEF ToSet
<1>2. cs \in Bijection(1 .. Len(cs), ToSet(cs))
  BY <1>1 DEF Bijection, Injection, Surjection, IsInjective, ToSet
<1>3. ExistsBijection(1 .. Len(cs), ToSet(cs))
  BY <1>2 DEF ExistsBijection
<1>4. \A n \in Nat : IsFiniteSet(1 .. n) /\ Cardinality(1 .. n) = n
  <2> TAKE n \in Nat
  <2>1. /\ IsFiniteSet(1 .. n)
        /\ Cardinality(1 .. n) = IF 1 > n THEN 0 ELSE n - 1 + 1
    BY FS_Interval
  <2> HIDE DEF Cardinality, IsFiniteSet
  <2> QED BY <2>1
<1> QED BY <1>3, <1>4, FS_Bijection

LEMMA RankIsNumber ==
    ASSUME NEW p \in RoutingType, NEW m \in Models, NEW c \in Listed(p, m)
    PROVE  Rank(p, m, c) \in Nat
<1> DEFINE len == Len(ModelsOf(p, m))
<1>1. len \in Nat /\ p.order \in Seq(Providers)
  BY ModelsType DEF RoutingType
<1>2. CASE c \in ChainSet(p, m)
  <2>1. PICK i \in 1 .. len : c = Candidate(ModelsOf(p, m)[i])
    BY <1>2 DEF ChainSet
  <2>2. Rank(p, m, c) \in 1 .. i
    BY <2>1, ChainRank
  <2> HIDE DEF len
  <2> QED BY <1>1, <2>2
<1>3. CASE c \notin ChainSet(p, m)
  <2>1. PICK v \in Missing(p, m, Len(p.order)) : c = Default(p, v)
    BY <1>3, ListedIsDefaulted
  <2>2. PICK i \in 1 .. Len(p.order) : v = p.order[i]
    BY <2>1 DEF Missing
  <2>3. \A j \in 1 .. len : Candidate(ModelsOf(p, m)[j]) # c
    BY <1>3 DEF ChainSet
  <2>4. c.provider = p.order[i]
    BY <2>1, <2>2 DEF Default
  <2>5. Rank(p, m, c) \in len + 1 .. len + i
    BY <2>3, <2>4, OrderRank
  <2> HIDE DEF len
  <2> QED BY <1>1, <2>5
<1> QED BY <1>2, <1>3

(* Without a limit, the list is everything that is listed; cut off, it is  *)
(* the beginning of that.                                                  *)
LEMMA PrefixDocumented ==
    ASSUME NEW p \in RoutingType, NEW m \in Models, p.enabled,
           NEW all, Defaulted(p, m, Len(p.order), all),
           NEW n \in 0 .. Len(all), n < Len(all) => n = p.maxAttempts
    PROVE  Documented(p, m, SubSeq(all, 1, n)) /\ SubSeq(all, 1, n) \in Seq(Candidates)
<1> DEFINE cs == SubSeq(all, 1, n)
<1>1. /\ all \in Seq(Candidates) /\ Ranked(p, m, all) /\ Len(all) \in Nat
      /\ ToSet(all) = Listed(p, m)
  BY ListedIsDefaulted DEF Defaulted
<1>2. /\ cs \in Seq(Candidates) /\ Len(cs) = n /\ DOMAIN cs = 1 .. n
      /\ \A i \in 1 .. n : cs[i] = all[i]
  BY <1>1
<1>3. \A c \in Listed(p, m) : Rank(p, m, c) \in Nat
  BY RankIsNumber
<1>4. IsInjective(all)
  BY <1>1, <1>3, RankedIsInjective
<1>5. Len(all) = Cardinality(Listed(p, m))
  BY <1>1, <1>4, InjectiveLength
<1>6. ToSet(all) = {all[i] : i \in 1 .. Len(all)}
  BY <1>1 DEF ToSet
<1> HIDE DEF cs
<1>7. ToSet(cs) = {all[i] : i \in 1 .. n}
  BY <1>2 DEF ToSet
<1>8. IsInjective(cs) /\ ToSet(cs) \subseteq Listed(p, m)
  BY <1>1, <1>2, <1>4, <1>6, <1>7 DEF IsInjective
<1>9. \A i, j \in DOMAIN cs : i < j => Rank(p, m, cs[i]) < Rank(p, m, cs[j])
  BY <1>1, <1>2 DEF Ranked
<1>10. ASSUME NEW c \in ToSet(cs), NEW d \in Listed(p, m), Rank(p, m, d) < Rank(p, m, c)
       PROVE  d \in ToSet(cs)
  <2>1. PICK i \in 1 .. n : c = all[i]
    BY <1>7
  <2>2. PICK j \in 1 .. Len(all) : d = all[j]
    BY <1>1, <1>6
  <2>3. ~(i < j)
    <3>1. c \in Listed(p, m)
      BY <1>8
    <3>2. Rank(p, m, c) \in Nat /\ Rank(p, m, d) \in Nat
      BY <1>3, <3>1
    <3>3. i < j => Rank(p, m, c) < Rank(p, m, d)
      BY <1>1, <2>1, <2>2 DEF Ranked
    <3> QED BY <1>10, <3>2, <3>3
  <2>4. j \in 1 .. n
    BY <1>1, <2>3
  <2> QED BY <1>7, <2>2, <2>4
<1>11. Len(cs) < Cardinality(Listed(p, m)) => Len(cs) = p.maxAttempts
  BY <1>2, <1>5
<1>12. Documented(p, m, cs)
  BY <1>8, <1>9, <1>10, <1>11 DEF Documented
<1> QED BY <1>2, <1>12 DEF cs

(* What the docstring of fallback_candidates promises, for every policy    *)
(* and model.                                                              *)
LEMMA ListedAsDocumented ==
    ASSUME NEW p \in RoutingType, NEW m \in Models
    PROVE  /\ Documented(p, m, FallbackCandidates(p, m))
           /\ FallbackCandidates(p, m) \in Seq(Candidates)
<1>1. CASE ~p.enabled
  <2> DEFINE c == Candidate(m)
  <2>1. FallbackCandidates(p, m) = <<c>>
    BY <1>1 DEF FallbackCandidates
  <2>2. c \in Candidates
    BY CandidateType
  <2> HIDE DEF c
  <2>3. /\ <<c>> \in Seq(Candidates) /\ Len(<<c>>) = 1 /\ DOMAIN <<c>> = 1 .. 1
        /\ \A i \in 1 .. 1 : <<c>>[i] = c
    BY <2>2
  <2>4. ToSet(<<c>>) = {c} /\ IsInjective(<<c>>)
    BY <2>3 DEF ToSet, IsInjective
  <2>5. Cardinality({c}) = 1
    BY FS_Singleton
  <2>6. \A i, j \in DOMAIN <<c>> : ~(i < j)
    BY <2>3
  <2>7. ASSUME Rank(p, m, c) < Rank(p, m, c) PROVE c \in ToSet(<<c>>)
    BY <2>4
  <2>8. Documented(p, m, <<c>>)
    BY <1>1, <2>3, <2>4, <2>5, <2>6, <2>7 DEF Documented, c
  <2> QED BY <2>1, <2>3, <2>8
<1>2. CASE p.enabled
  <2> DEFINE all == WithDefaults(p, ChainCandidates(p, m))
  <2>1. Defaulted(p, m, Len(p.order), all)
    BY AllIsDefaulted
  <2>2. all \in Seq(Candidates) /\ Len(all) \in Nat
    BY <2>1 DEF Defaulted
  <2>3. FallbackCandidates(p, m) =
            IF p.maxAttempts \in 1 .. Len(all) THEN SubSeq(all, 1, p.maxAttempts) ELSE all
    BY <1>2 DEF FallbackCandidates
  <2> HIDE DEF all
  <2>4. CASE p.maxAttempts \in 1 .. Len(all)
    BY <1>2, <2>1, <2>2, <2>3, <2>4, PrefixDocumented
  <2>5. CASE p.maxAttempts \notin 1 .. Len(all)
    <3>1. SubSeq(all, 1, Len(all)) = all
      BY <2>2
    <3>2. Len(all) \in 0 .. Len(all) /\ ~(Len(all) < Len(all))
      BY <2>2
    <3>3. Documented(p, m, SubSeq(all, 1, Len(all)))
      BY <1>2, <2>1, <3>2, PrefixDocumented
    <3> QED BY <2>2, <2>3, <2>5, <3>1, <3>3
  <2> QED BY <2>4, <2>5
<1> QED BY <1>1, <1>2 DEF RoutingType

-----------------------------------------------------------------------------
(* The inductive invariant. *)

Statuses == {"skipped", "raised", "retryable", "error", "good"}
Silent   == {"skipped", "raised"}    \* no response

Typed ==
    /\ policy \in RoutingType /\ configured \subseteq Providers /\ request \in RequestType
    /\ model \in Models \cup {NoModel} /\ downgraded \in BOOLEAN
    /\ candidates \in Seq(Candidates)
    /\ attempts \in Seq(Statuses) /\ Len(attempts) <= Len(candidates)
    /\ result \in 0 .. Len(attempts) /\ billed \subseteq 1 .. Len(attempts)
    /\ event \in {"none", "block", "provider_error", "fallback", "allow", "allow_with_warning"}
    /\ pc \in {"deciding", "trying", "over", "refused", "answered", "unavailable"}

(* Nothing is tried before the request is routed; once it is, the model is *)
(* the one decide let through, or its substitute, and the list is its list. *)
Routed ==
    /\ pc \in {"deciding", "refused"} => attempts = <<>> /\ result = 0 /\ billed = {}
    /\ pc \notin {"deciding", "refused"} =>
           /\ Verdict # Block /\ model \in Models
           /\ ~downgraded => model = ResolveModel(policy.rules, request)
           /\ candidates = FallbackCandidates(policy, model)

(* The result is the last response there was, and while the loop goes on   *)
(* it is one that is to be retried.                                        *)
Relayed ==
    /\ result # 0 => attempts[result] \notin Silent
    /\ \A i \in 1 .. Len(attempts) : i > result => attempts[i] \in Silent
    /\ pc = "trying" /\ result # 0 => attempts[result] = "retryable"
    /\ pc = "over" => result # 0

(* A candidate is skipped only if its provider is not configured.          *)
Skipped ==
    \A i \in 1 .. Len(attempts) :
        attempts[i] = "skipped" => candidates[i].provider \notin configured

(* Charged for: what raised, and a good response, which is then the last.  *)
Charged ==
    \A i \in billed : attempts[i] = "raised" \/ (i = result /\ attempts[i] = "good")

(* How the request ended.                                                  *)
Ended ==
    /\ pc = "answered" =>
           /\ result # 0
           /\ attempts[result] = "retryable" => Len(attempts) = Len(candidates)
           /\ event # "fallback" => candidates[result] = Candidate(model)
    /\ pc = "over" => attempts[result] # "retryable"
    /\ pc = "unavailable" => result = 0 /\ Len(attempts) = Len(candidates)

IInv == Typed /\ Routed /\ Relayed /\ Skipped /\ Charged /\ Ended

LEMMA ResolvedType ==
    ASSUME NEW p \in PolicyType, NEW q \in RequestType
    PROVE  ResolveModel(p, q) \in Models
<1>1. RequestedModel(p, q) \in Models
  BY DEF RequestedModel, PolicyType, RequestType
<1>2. p.alias[RequestedModel(p, q)] \in Models
  BY <1>1 DEF PolicyType
<1>3. \A t \in {"pii", "review", "summary"} : p.route[t] \in Models \cup {NoModel}
  BY DEF PolicyType, Topics
<1> QED BY <1>2, <1>3 DEF ResolveModel

LEMMA InvInit == Init => IInv
<1> SUFFICES ASSUME Init PROVE IInv
  OBVIOUS
<1> USE DEF Init
<1>1. Typed
  <2>1. policy \in RoutingType /\ request \in RequestType
    BY FailoverAssumption
  <2>2. <<>> \in Seq(Candidates) /\ <<>> \in Seq(Statuses) /\ Len(<<>>) = 0
    OBVIOUS
  <2>3. result \in 0 .. Len(attempts) /\ billed \subseteq 1 .. Len(attempts)
    BY <2>2
  <2>4. model \in Models \cup {NoModel} /\ downgraded \in BOOLEAN
    OBVIOUS
  <2> QED BY <2>1, <2>2, <2>3, <2>4 DEF Typed
<1>2. Routed /\ Relayed /\ Skipped /\ Charged /\ Ended
  BY DEF Routed, Relayed, Skipped, Charged, Ended
<1> QED BY <1>1, <1>2 DEF IInv

(* Stuttering. *)
LEMMA InvStutter ==
    ASSUME IInv, UNCHANGED vars
    PROVE  IInv'
BY DEF IInv, vars, chosen, given, Typed, Routed, Relayed, Skipped, Charged, Ended, Verdict

LEMMA InvRefuse ==
    ASSUME IInv, Refuse
    PROVE  IInv'
<1> USE DEF IInv, Refuse, given
<1>1. Typed'
  BY DEF Typed
<1>2. Routed'
  BY DEF Routed
<1>3. (Relayed /\ Skipped /\ Charged /\ Ended)'
  BY DEF Relayed, Skipped, Charged, Ended
<1> QED BY <1>1, <1>2, <1>3

LEMMA InvRoute ==
    ASSUME IInv, Route
    PROVE  IInv'
<1> DEFINE resolved == ResolveModel(policy.rules, request)
<1>1. policy \in RoutingType /\ request \in RequestType
  BY DEF IInv, Typed
<1>2. resolved \in Models
  BY <1>1, ResolvedType DEF RoutingType
<1>3. policy.downgrade[resolved] \in Models \cup {NoModel}
  BY <1>1, <1>2 DEF RoutingType
<1>4. /\ model' \in Models /\ downgraded' \in BOOLEAN
      /\ ~downgraded' => model' = resolved
  BY <1>2, <1>3 DEF Route
<1>5. candidates' = FallbackCandidates(policy, model')
  BY DEF Route
<1>6. candidates' \in Seq(Candidates)
  BY <1>1, <1>4, <1>5, ListedAsDocumented
<1>7. /\ attempts' = <<>> /\ result' = 0 /\ billed' = {}
      /\ UNCHANGED <<policy, configured, request, event>>
      /\ pc' = "trying" /\ Verdict # Block
  BY DEF Route, IInv, Routed, given
<1>8. Len(<<>>) = 0 /\ Len(candidates') \in Nat
  BY <1>6
<1>9. Typed'
  <2>1. attempts' \in Seq(Statuses) /\ Len(attempts') <= Len(candidates')
    BY <1>6, <1>7, <1>8
  <2>2. result' \in 0 .. Len(attempts') /\ billed' \subseteq 1 .. Len(attempts')
    BY <1>7, <1>8
  <2> QED BY <1>4, <1>6, <1>7, <2>1, <2>2 DEF IInv, Typed
<1>10. Routed'
  BY <1>4, <1>5, <1>7 DEF Routed, Verdict
<1>11. (Relayed /\ Skipped /\ Charged /\ Ended)'
  BY <1>7, <1>8 DEF Relayed, Skipped, Charged, Ended
<1> QED BY <1>9, <1>10, <1>11 DEF IInv

(* The attempts after one more, with status s. *)
LEMMA OneMore ==
    ASSUME IInv, More, NEW s \in Statuses, attempts' = Append(attempts, s), UNCHANGED chosen
    PROVE  /\ attempts' \in Seq(Statuses) /\ Len(attempts') = Index /\ Index \in Nat \ {0}
           /\ Len(attempts) = Index - 1
           /\ Len(attempts') <= Len(candidates')
           /\ attempts'[Index] = s
           /\ \A i \in 1 .. Len(attempts) : attempts'[i] = attempts[i]
<1>1. attempts \in Seq(Statuses) /\ candidates' = candidates
  BY DEF IInv, Typed, chosen
<1> QED BY <1>1 DEF More, Index

LEMMA InvSkip ==
    ASSUME IInv, Skip
    PROVE  IInv'
<1>1. /\ attempts' \in Seq(Statuses) /\ Len(attempts') = Index /\ Index \in Nat \ {0}
      /\ Len(attempts) = Index - 1
      /\ Len(attempts') <= Len(candidates')
      /\ attempts'[Index] = "skipped"
      /\ \A i \in 1 .. Len(attempts) : attempts'[i] = attempts[i]
  BY OneMore DEF Skip, Statuses
<1>2. /\ UNCHANGED <<policy, configured, request, model, downgraded, candidates>>
      /\ UNCHANGED <<result, event, billed, pc>>
      /\ pc = "trying" /\ candidates[Index].provider \notin configured
  BY DEF Skip, More, Current, chosen, given
<1> HIDE DEF Index
<1>3. Typed'
  <2>1. result' \in 0 .. Len(attempts') /\ billed' \subseteq 1 .. Len(attempts')
    BY <1>1, <1>2 DEF IInv, Typed
  <2> QED BY <1>1, <1>2, <2>1 DEF IInv, Typed
<1>4. Routed'
  BY <1>2 DEF IInv, Routed, Verdict
<1>5. result \in 0 .. Len(attempts) /\ billed \subseteq 1 .. Len(attempts)
  BY DEF IInv, Typed
<1>6. Relayed'
  BY <1>1, <1>2, <1>5 DEF IInv, Relayed, Silent
<1>7. Skipped'
  BY <1>1, <1>2 DEF IInv, Skipped
<1>8. Charged'
  BY <1>1, <1>2, <1>5 DEF IInv, Charged
<1>9. Ended'
  BY <1>2 DEF Ended
<1> QED BY <1>3, <1>4, <1>6, <1>7, <1>8, <1>9 DEF IInv

LEMMA InvCallRaises ==
    ASSUME IInv, CallRaises
    PROVE  IInv'
<1>1. /\ attempts' \in Seq(Statuses) /\ Len(attempts') = Index /\ Index \in Nat \ {0}
      /\ Len(attempts) = Index - 1
      /\ Len(attempts') <= Len(candidates')
      /\ attempts'[Index] = "raised"
      /\ \A i \in 1 .. Len(attempts) : attempts'[i] = attempts[i]
  BY OneMore DEF CallRaises, Called, Statuses
<1>2. /\ UNCHANGED <<policy, configured, request, model, downgraded, candidates>>
      /\ UNCHANGED <<result, event, pc>>
      /\ billed' \in {billed, billed \cup {Index}}
      /\ pc = "trying"
  BY DEF CallRaises, Called, More, chosen, given
<1> HIDE DEF Index
<1>3. result \in 0 .. Len(attempts) /\ billed \subseteq 1 .. Len(attempts)
  BY DEF IInv, Typed
<1>4. Typed'
  <2>1. result' \in 0 .. Len(attempts')
    BY <1>1, <1>2, <1>3
  <2>2. billed' \subseteq 1 .. Len(attempts')
    BY <1>1, <1>2, <1>3
  <2> QED BY <1>1, <1>2, <2>1, <2>2 DEF IInv, Typed
<1>5. Routed'
  BY <1>2 DEF IInv, Routed, Verdict
<1>6. Relayed'
  BY <1>1, <1>2, <1>3 DEF IInv, Relayed, Silent
<1>7. Skipped'
  BY <1>1, <1>2 DEF IInv, Skipped
<1>8. Charged'
  BY <1>1, <1>2, <1>3 DEF IInv, Charged
<1>9. Ended'
  BY <1>2 DEF Ended
<1> QED BY <1>4, <1>5, <1>6, <1>7, <1>8, <1>9 DEF IInv

LEMMA InvCallReturns ==
    ASSUME IInv, NEW s \in {"retryable", "error", "good"}, CallReturns(s)
    PROVE  IInv'
<1>1. /\ attempts' \in Seq(Statuses) /\ Len(attempts') = Index /\ Index \in Nat \ {0}
      /\ Len(attempts) = Index - 1
      /\ Len(attempts') <= Len(candidates')
      /\ attempts'[Index] = s
      /\ \A i \in 1 .. Len(attempts) : attempts'[i] = attempts[i]
  BY OneMore DEF CallReturns, Called, Statuses
<1>2. /\ UNCHANGED <<policy, configured, request, model, downgraded, candidates>>
      /\ UNCHANGED event
      /\ result' = Index
      /\ billed' = IF s = "good" THEN billed \cup {Index} ELSE billed
      /\ pc = "trying" /\ pc' = IF s = "retryable" THEN pc ELSE "over"
  BY DEF CallReturns, Called, More, chosen, given
<1> HIDE DEF Index
<1>3. result \in 0 .. Len(attempts) /\ billed \subseteq 1 .. Len(attempts)
  BY DEF IInv, Typed
<1>4. Typed'
  <2>1. result' \in 0 .. Len(attempts')
    BY <1>1, <1>2
  <2>2. billed' \subseteq 1 .. Len(attempts')
    BY <1>1, <1>2, <1>3
  <2> QED BY <1>1, <1>2, <2>1, <2>2 DEF IInv, Typed
<1>5. Routed'
  BY <1>2 DEF IInv, Routed, Verdict
<1>6. Relayed'
  BY <1>1, <1>2 DEF Relayed, Silent
<1>7. Skipped'
  BY <1>1, <1>2 DEF IInv, Skipped
<1>8. Charged'
  <2>1. \A i \in billed : attempts[i] = "raised"
    BY <1>2, <1>3 DEF IInv, Charged, Relayed
  <2> QED BY <1>1, <1>2, <1>3, <2>1 DEF Charged
<1>9. Ended'
  BY <1>1, <1>2 DEF Ended
<1> QED BY <1>4, <1>5, <1>6, <1>7, <1>8, <1>9 DEF IInv

LEMMA InvFinish ==
    ASSUME IInv, Finish
    PROVE  IInv'
<1>1. /\ UNCHANGED <<policy, configured, request, model, downgraded, candidates>>
      /\ UNCHANGED <<attempts, result, billed>>
      /\ pc \in {"over", "trying"}
      /\ pc = "trying" => Index > Len(candidates)
  BY DEF Finish, chosen, given
<1>2. /\ attempts \in Seq(Statuses) /\ Len(attempts) <= Len(candidates)
      /\ candidates \in Seq(Candidates)
      /\ result \in 0 .. Len(attempts)
  BY DEF IInv, Typed
<1>3. pc = "trying" => Len(attempts) = Len(candidates)
  BY <1>1, <1>2 DEF Index
<1>4. \/ result = 0 /\ event' = "provider_error" /\ pc' = "unavailable"
      \/ /\ result # 0 /\ pc' = "answered"
         /\ event' = IF candidates[result] # Candidate(model) THEN "fallback" ELSE Verdict.decision
  BY DEF Finish, Unavailable, Answer
<1>5. Verdict \in {Warn, Allow}
  BY <1>1 DEF IInv, Routed, Verdict, Decide
<1>6. Verdict.decision \in {"allow", "allow_with_warning"}
  BY <1>5 DEF Warn, Allow, Decision
<1>7. Typed'
  BY <1>1, <1>4, <1>6 DEF IInv, Typed
<1>8. Routed'
  BY <1>1, <1>4 DEF IInv, Routed, Verdict
<1>9. (Relayed /\ Skipped /\ Charged)'
  BY <1>1, <1>4 DEF IInv, Relayed, Skipped, Charged
<1>10. Ended'
  <2>1. pc = "over" => result # 0 /\ attempts[result] # "retryable"
    BY DEF IInv, Relayed, Ended
  <2> QED BY <1>1, <1>3, <1>4, <2>1 DEF Ended
<1> QED BY <1>7, <1>8, <1>9, <1>10 DEF IInv

LEMMA InvStep == IInv /\ [Next]_vars => IInv'
<1> SUFFICES ASSUME IInv, [Next]_vars PROVE IInv'
  OBVIOUS
<1>1. CASE Refuse
  BY <1>1, InvRefuse
<1>2. CASE Route
  BY <1>2, InvRoute
<1>3. CASE Skip
  BY <1>3, InvSkip
<1>4. CASE CallRaises
  BY <1>4, InvCallRaises
<1>5. CASE \E status \in {"retryable", "error", "good"} : CallReturns(status)
  BY <1>5, InvCallReturns
<1>6. CASE Finish
  BY <1>6, InvFinish
<1>7. CASE UNCHANGED vars
  BY <1>7, InvStutter
<1> QED BY <1>1, <1>2, <1>3, <1>4, <1>5, <1>6, <1>7 DEF Next

LEMMA Invariant == Spec => []IInv
BY InvInit, InvStep, PTL DEF Spec

-----------------------------------------------------------------------------
(* The theorems. *)

(* Type correctness: every variable has its type, a result is the index of *)
(* an attempt, and no attempt is without its candidate.                    *)
THEOREM TypeCorrect == Spec => []TypeOK
<1>1. IInv => TypeOK
  <2> SUFFICES ASSUME IInv PROVE TypeOK
    OBVIOUS
  <2>1. /\ candidates \in Seq(Candidates) /\ attempts \in Seq(Statuses)
        /\ DOMAIN attempts = 1 .. Len(attempts)
    BY DEF IInv, Typed
  <2>2. \A i \in DOMAIN candidates : candidates[i] \in [provider: Providers, model: Models]
    <3>1. \A i \in 1 .. Len(candidates) : candidates[i] \in Candidates
      BY <2>1
    <3> QED BY <2>1, <3>1 DEF Candidates
  <2>3. ToSet(attempts) \subseteq {"skipped", "raised", "retryable", "error", "good"}
    BY <2>1, MemberOf DEF Statuses
  <2> QED BY <2>1, <2>2, <2>3 DEF IInv, Typed, TypeOK
<1> QED BY <1>1, Invariant, PTL

(* The list the loop goes through is what the docstring of                 *)
(* fallback_candidates says: the model, its chain, then the defaults of    *)
(* the providers that are left, nothing twice, cut off at max_attempts;    *)
(* for chains and orders of any length.                                    *)
THEOREM CandidatesAlwaysAsDocumented == Spec => []CandidatesAsDocumented
<1>1. IInv => CandidatesAsDocumented
  <2> SUFFICES ASSUME IInv, pc = "trying" PROVE Documented(policy, model, candidates)
    BY DEF CandidatesAsDocumented, Documented
  <2>1. policy \in RoutingType /\ model \in Models /\ candidates = FallbackCandidates(policy, model)
    BY DEF IInv, Typed, Routed
  <2> QED BY <2>1, ListedAsDocumented
<1> QED BY <1>1, Invariant, PTL

(* The client gets the latest response; 502 means that every configured    *)
(* candidate was called and raised; and what a provider charges for is the *)
(* answer or an attempt that raised, never a second good response.         *)
THEOREM OutcomeAlwaysExplained == Spec => []OutcomeExplained
<1>1. IInv => OutcomeExplained
  <2> SUFFICES ASSUME IInv PROVE OutcomeExplained
    OBVIOUS
  <2>1. /\ candidates \in Seq(Candidates) /\ DOMAIN candidates = 1 .. Len(candidates)
        /\ attempts \in Seq(Statuses) /\ DOMAIN attempts = 1 .. Len(attempts)
        /\ result \in 0 .. Len(attempts)
        /\ \A i \in 1 .. Len(attempts) : attempts[i] \in Statuses
    BY DEF IInv, Typed
  <2>2. ASSUME pc = "answered"
        PROVE  /\ attempts[result] \in {"retryable", "error", "good"}
               /\ \A i \in result + 1 .. Len(attempts) : attempts[i] \in {"skipped", "raised"}
               /\ attempts[result] = "retryable" => Len(attempts) = Len(candidates)
    <3>1. result \in 1 .. Len(attempts)
      <4>1. result # 0
        BY <2>2 DEF IInv, Ended
      <4> QED BY <2>1, <4>1
    <3>2. attempts[result] \in Statuses \ Silent
      BY <2>1, <3>1 DEF IInv, Relayed
    <3>3. \A i \in result + 1 .. Len(attempts) : attempts[i] \in Silent
      BY <2>1, <3>1 DEF IInv, Relayed
    <3> QED BY <2>2, <3>2, <3>3 DEF IInv, Ended, Silent, Statuses
  <2>3. ASSUME pc = "unavailable", NEW i \in DOMAIN candidates,
               candidates[i].provider \in configured
        PROVE  i \in DOMAIN attempts /\ attempts[i] = "raised"
    <3>1. i \in 1 .. Len(attempts) /\ i > result
      BY <2>1, <2>3 DEF IInv, Ended
    <3> QED BY <2>1, <2>3, <3>1 DEF IInv, Relayed, Skipped, Silent
  <2>4. \A i \in billed : attempts[i] = "raised" \/ i = result
    BY DEF IInv, Charged
  <2> QED BY <2>2, <2>3, <2>4 DEF OutcomeExplained
<1> QED BY <1>1, Invariant, PTL

(* An answer from a blocked model, or with personal data from a model      *)
(* other than the one set for it, is never given without the audit event   *)
(* saying "fallback" or naming a downgrade, whatever the policy.           *)
THEOREM SubstituteAlwaysAudited == Spec => []SubstituteIsAudited
<1>1. IInv => SubstituteIsAudited
  <2> SUFFICES ASSUME IInv, pc = "answered", event # "fallback", ~downgraded
               PROVE  LET m == candidates[result].model
                      IN  /\ m \notin policy.rules.blocked
                          /\ "pii" \in request.findings =>
                                 policy.rules.route["pii"] \in {m, NoModel}
    BY DEF SubstituteIsAudited
  <2> DEFINE m == ResolveModel(policy.rules, request)
  <2>1. candidates[result].model = m
    BY DEF IInv, Routed, Ended, Candidate
  <2>2. Decide(policy.rules, request) # Block
    BY DEF IInv, Routed, Verdict
  <2>3. ~ModelRefused(policy.rules, request)
    BY <2>2 DEF Decide
  <2>4. m \notin policy.rules.blocked
    BY <2>3 DEF ModelRefused
  <2>5. "pii" \in request.findings => policy.rules.route["pii"] \in {m, NoModel}
    BY DEF ResolveModel
  <2> HIDE DEF m
  <2> QED BY <2>1, <2>4, <2>5
<1> QED BY <1>1, Invariant, PTL
=============================================================================
