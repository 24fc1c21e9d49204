------------------------ MODULE EventDeliveryProofs ------------------------
(***************************************************************************)
(* Theorems about EventDelivery: any number of events, of flushing         *)
(* processes and of failures, batches and files of any size.               *)
(*                                                                         *)
(* The inductive invariant IInv has a part that holds in any interleaving  *)
(* (Typed to FilesLeft, Once) and one about a host that runs one process   *)
(* at a time (Solo, Held, DurableAlone, Counted).                          *)
(***************************************************************************)
EXTENDS EventDelivery, FiniteSetTheorems, SequenceTheorems, TLAPS

-----------------------------------------------------------------------------
(* The inductive invariant. *)

Typed ==
    /\ alone \in BOOLEAN /\ faults \in 0 .. MaxFaults
    /\ dir \in [Names -> Files \cup {NoFile}]
    /\ lines \in [Files -> Seq(Line)]
    /\ apc \in [Events -> {"new", "sizing", "opening", "writing", "appended", "raised"}]
    /\ path \in [Events -> Names] /\ out \in [Events -> Files \cup {NoFile}]
    /\ fpc \in [Flushers -> {"idle", "opening", "reading", "finishing", "unlinking"}]
    /\ todo \in [Flushers -> Seq(Names)] /\ in \in [Flushers -> Files \cup {NoFile}]
    /\ offset \in [Flushers -> Nat] /\ batch \in [Flushers -> Seq(Events)]
    /\ late \in Seq(Seq(Events))
    /\ ingested \in [Events -> 0 .. MaxFaults + 2]

(* Which files a process has open, and what a flush has in hand. *)
Controlled ==
    /\ \A e \in Events : apc[e] = "writing" <=> out[e] # NoFile
    /\ \A f \in Flushers :
          /\ fpc[f] \in {"idle", "opening"} => in[f] = NoFile /\ offset[f] = 0
          /\ fpc[f] \in {"reading", "finishing", "unlinking"} => in[f] # NoFile
          /\ fpc[f] \notin {"reading", "finishing"} => batch[f] = <<>>
          /\ fpc[f] # "idle" => todo[f] # <<>>
          /\ Len(batch[f]) <= BatchSize /\ Len(batch[f]) <= offset[f]

(* A whole or a glued line carries one event, a torn one none. *)
Written ==
    \A i \in Files : \A j \in 1 .. Len(lines[i]) :
        IF lines[i][j].kind = "torn" THEN lines[i][j].events = {}
        ELSE \E e \in Events : lines[i][j].events = {e}

(* What a flush has read of its file are whole lines, whose events it has  *)
(* in its batch or delivered.                                              *)
Delivered ==
    \A f \in Flushers :
        in[f] # NoFile =>
            /\ offset[f] <= Len(lines[in[f]])
            /\ \A j \in 1 .. offset[f] :
                  /\ lines[in[f]][j].kind = "whole"
                  /\ \A e \in lines[in[f]][j].events : ingested[e] > 0 \/ e \in ToSet(batch[f])

(* There is a file for each append that opened one, so that one is left    *)
(* for whoever is about to.                                                *)
Used   == {i \in Files : lines[i] # <<>> \/ i \in Range(dir) \cup Range(out) \cup Range(in)}
Opened == {e \in Events : apc[e] \in {"writing", "appended", "raised"}}

FilesLeft == Cardinality(Used) <= Cardinality(Opened)

(* One process at a time; it works on files that have their names. *)
Active(e) == apc[e] \in {"sizing", "opening", "writing"}

Solo ==
    alone =>
        /\ \A e, d \in Events : Active(e) /\ Active(d) => e = d
        /\ \A f, g \in Flushers : fpc[f] # "idle" /\ fpc[g] # "idle" => f = g
        /\ \A e \in Events, f \in Flushers : Active(e) => fpc[f] = "idle"

Held ==
    alone =>
        /\ \A e \in Events : apc[e] = "writing" => dir[path[e]] = out[e]
        /\ \A f \in Flushers :
              /\ in[f] # NoFile => dir[Head(todo[f])] = in[f]
              /\ fpc[f] \in {"finishing", "unlinking"} => offset[f] = Len(lines[in[f]])

(* No event is on two lines, no file has two names, and a batch is read    *)
(* from the file.                                                          *)
IsOn(e, i, j) == j \in 1 .. Len(lines[i]) /\ e \in lines[i][j].events

Once ==
    /\ \A i \in Files : \A j \in Nat : \A e \in Events : IsOn(e, i, j) => apc[e] = "appended"
    /\ \A i, k \in Files : \A j, l \in Nat : \A e \in Events :
           IsOn(e, i, j) /\ IsOn(e, k, l) => i = k /\ j = l
    /\ \A m, n \in Names : dir[m] = dir[n] /\ dir[m] # NoFile => m = n
    /\ \A f \in Flushers : \A e \in ToSet(batch[f]) :
           \E j \in 1 .. offset[f] : e \in lines[in[f]][j].events

(* On such a host: how often an event was and may yet be delivered.        *)
Carrying(s, e) == {k \in DOMAIN s : e \in ToSet(s[k])}

LateOf(e) == Carrying(late, e)
Sent(e)   == \E f \in Flushers : /\ in[f] # NoFile
                                 /\ \E j \in 1 .. offset[f] : e \in lines[in[f]][j].events
                                 /\ e \notin ToSet(batch[f])
IsDue(e)  == apc[e] # "appended" \/ (BufferedAs(e) # {} /\ ~Sent(e))
Due(e)    == IF IsDue(e) THEN 1 ELSE 0

Counted ==
    alone /\ ~PoisonedUpTo(Base) =>
        \A e \in Events : ingested[e] + Cardinality(LateOf(e)) + Due(e) <= 1 + faults

IInv ==
    /\ Typed /\ Controlled /\ Written /\ Delivered /\ FilesLeft
    /\ Solo /\ Held /\ Once /\ DurableAlone /\ Counted

-----------------------------------------------------------------------------
(* The model's operators. *)

LEMMA FilesFacts ==
    /\ IsFiniteSet(Events) /\ Cardinality(Events) \in Nat
    /\ IsFiniteSet(Files) /\ Cardinality(Files) = Cardinality(Events)
    /\ Files \subseteq Nat /\ NoFile \notin Files
<1>1. IsFiniteSet(Events) /\ Cardinality(Events) \in Nat
  BY EventAssumption, FS_CardinalityType
<1> DEFINE n == Cardinality(Events)
<1>2. n \in Nat
  BY <1>1
<1> HIDE DEF n
<1>3. /\ IsFiniteSet(1 .. n)
      /\ Cardinality(1 .. n) = IF 1 > n THEN 0 ELSE n - 1 + 1
  BY <1>2, FS_Interval
<1>4. IF 1 > n THEN 0 = n ELSE n - 1 + 1 = n
  BY <1>2
<1> QED BY <1>1, <1>2, <1>3, <1>4 DEF Files, NoFile, n

LEMMA EmptyIsEmpty ==
    ASSUME NEW S, NEW s \in Seq(S), ToSet(s) = {}
    PROVE  s = <<>>
<1>1. Len(s) \in Nat /\ DOMAIN s = 1 .. Len(s)
  OBVIOUS
<1>2. Len(s) # 0 => s[1] \in ToSet(s)
  BY <1>1 DEF ToSet
<1> QED BY <1>1, <1>2

LEMMA ToSetFacts ==
    ASSUME NEW S, NEW s \in Seq(S)
    PROVE  ToSet(s) = {s[i] : i \in 1 .. Len(s)} /\ ToSet(s) \subseteq S
<1>1. DOMAIN s = 1 .. Len(s) /\ \A i \in 1 .. Len(s) : s[i] \in S
  OBVIOUS
<1> QED BY <1>1 DEF ToSet

LEMMA ToSetShort ==
    ASSUME NEW S, NEW s \in Seq(S)
    PROVE  /\ Len(s) = 0 => ToSet(s) = {}
           /\ Len(s) = 1 => ToSet(s) = {s[1]}
           /\ Len(s) = 2 => ToSet(s) = {s[1], s[2]}
<1>1. 1 .. 0 = {} /\ 1 .. 1 = {1} /\ 1 .. 2 = {1, 2}
  OBVIOUS
<1> QED BY <1>1, ToSetFacts

LEMMA AppendedFacts ==
    ASSUME NEW S, NEW s \in Seq(S), NEW e \in S
    PROVE  ToSet(Append(s, e)) = ToSet(s) \cup {e}
<1> DEFINE n == Len(s)
           t == Append(s, e)
<1>1. /\ n \in Nat /\ t \in Seq(S) /\ Len(t) = n + 1 /\ t[n + 1] = e
      /\ \A j \in 1 .. n : t[j] = s[j]
  OBVIOUS
<1>2. ToSet(s) = {s[j] : j \in 1 .. n}
  BY ToSetFacts
<1>3. ToSet(t) = {t[j] : j \in 1 .. n + 1}
  BY <1>1, ToSetFacts
<1> HIDE DEF n, t
<1>4. \A j : j \in 1 .. n + 1 <=> j \in 1 .. n \/ j = n + 1
  BY <1>1
<1>5. ToSet(t) = ToSet(s) \cup {e}
  BY <1>1, <1>2, <1>3, <1>4
<1> QED BY <1>5 DEF t

LEMMA PrefixFacts ==
    ASSUME NEW S, NEW s \in Seq(S), NEW k \in 0 .. Len(s) - 1
    PROVE  ToSet(SubSeq(s, 1, k)) \subseteq ToSet(s)
<1> DEFINE n == Len(s)
           t == SubSeq(s, 1, k)
<1>1. n \in Nat /\ k \in Nat /\ k <= n /\ ToSet(s) = {s[j] : j \in 1 .. n}
  BY ToSetFacts
<1>2. 1 \in Int /\ k \in Int /\ \A j \in 1 .. k : s[j] \in S
  BY <1>1
<1>3. /\ t \in Seq(S) /\ Len(t) = IF 1 <= k THEN k - 1 + 1 ELSE 0
      /\ \A j \in 1 .. k - 1 + 1 : t[j] = s[1 + j - 1]
  BY <1>2, SubSeqProperties
<1> HIDE DEF n, t
<1>4. Len(t) = k /\ \A j \in 1 .. k : t[j] = s[j] /\ j \in 1 .. n
  BY <1>1, <1>3
<1>5. ToSet(t) = {t[j] : j \in 1 .. Len(t)}
  BY <1>3, ToSetFacts
<1>6. ToSet(t) \subseteq ToSet(s)
  BY <1>1, <1>4, <1>5
<1> QED BY <1>6 DEF t

LEMMA SortedFacts ==
    ASSUME NEW ns \in SUBSET Names
    PROVE  /\ Sorted(ns) \in Seq(Names)
           /\ ns # {} => Sorted(ns) # <<>>
<1>1. /\ ToSet(<<>>) = {} /\ ToSet(<<Rotated>>) = {Rotated} /\ ToSet(<<Base>>) = {Base}
      /\ ToSet(<<Rotated, Base>>) = {Rotated, Base}
  <2>1. /\ <<>> \in Seq(Names) /\ Len(<<>>) = 0
        /\ <<Rotated>> \in Seq(Names) /\ Len(<<Rotated>>) = 1 /\ <<Rotated>>[1] = Rotated
        /\ <<Base>> \in Seq(Names) /\ Len(<<Base>>) = 1 /\ <<Base>>[1] = Base
        /\ <<Rotated, Base>> \in Seq(Names) /\ Len(<<Rotated, Base>>) = 2
        /\ <<Rotated, Base>>[1] = Rotated /\ <<Rotated, Base>>[2] = Base
    BY DEF Names
  <2>2. ToSet(<<>>) = {}
    BY <2>1, ToSetShort
  <2>3. ToSet(<<Rotated>>) = {Rotated}
    BY <2>1, ToSetShort
  <2>4. ToSet(<<Base>>) = {Base}
    BY <2>1, ToSetShort
  <2>5. ToSet(<<Rotated, Base>>) = {Rotated, Base}
    BY <2>1, ToSetShort
  <2> QED BY <2>2, <2>3, <2>4, <2>5
<1>2. \E s \in {<<>>, <<Rotated>>, <<Base>>, <<Rotated, Base>>} : ToSet(s) = ns
  <2>1. ns \in {{}, {Rotated}, {Base}, {Rotated, Base}}
    BY DEF Names
  <2> QED BY <1>1, <2>1
<1>3. Sorted(ns) \in {<<>>, <<Rotated>>, <<Base>>, <<Rotated, Base>>} /\ ToSet(Sorted(ns)) = ns
  BY <1>2 DEF Sorted
<1>4. {<<>>, <<Rotated>>, <<Base>>, <<Rotated, Base>>} \subseteq Seq(Names)
  BY DEF Names
<1> QED BY <1>1, <1>3, <1>4

LEMMA OneElement ==
    ASSUME NEW e \in Events
    PROVE  /\ SetToSeq({e}) \in Seq(Events) /\ Len(SetToSeq({e})) = 1
           /\ SetToSeq({e})[1] = e
<1>1. Cardinality({e}) = 1
  BY FS_Singleton
<1>2. SetToSeq({e}) = CHOOSE f \in [1 .. 1 -> {e}] : IsInjective(f)
  BY <1>1 DEF SetToSeq
<1>3. [i \in 1 .. 1 |-> e] \in [1 .. 1 -> {e}] /\ IsInjective([i \in 1 .. 1 |-> e])
  BY DEF IsInjective
<1>4. SetToSeq({e}) \in [1 .. 1 -> {e}]
  BY <1>2, <1>3
<1> DEFINE s == SetToSeq({e})
<1>5. s \in Seq(Events)
  <2>1. s \in [1 .. 1 -> Events]
    BY <1>4
  <2> HIDE DEF s
  <2>2. \E n \in Nat : s \in [1 .. n -> Events]
    BY <2>1
  <2> QED BY <2>2
<1>6. Len(SetToSeq({e})) = 1
  BY <1>4, <1>5, LenProperties
<1> QED BY <1>4, <1>5, <1>6

(* What a write leaves of the lines s: all but a torn last one; and the    *)
(* events of l are on the last line then.                                  *)
GluesTo(s, l, g) ==
    /\ g \in Seq(Line) /\ Len(g) \in Nat \ {0} /\ Len(s) <= Len(g) /\ Len(g) <= Len(s) + 1
    /\ \A j \in 1 .. Len(g) - 1 : j <= Len(s) /\ g[j] = s[j]
    /\ \A j \in 1 .. Len(s) : s[j].kind # "torn" => g[j] = s[j]
    /\ g[Len(g)].events = l.events
    /\ Len(g) = Len(s) => s[Len(s)].kind = "torn"
    /\ s = <<>> \/ s[Len(s)].kind # "torn" => g = Append(s, l)
    /\ s # <<>> /\ s[Len(s)].kind = "torn" =>
           g[Len(g)].kind = IF l.kind = "torn" THEN "torn" ELSE "glued"

LEMMA GlueFacts ==
    ASSUME NEW s \in Seq(Line), NEW l \in Line
    PROVE  GluesTo(s, l, Glue(s, l))
<1> DEFINE g == Glue(s, l)
<1> SUFFICES GluesTo(s, l, g)
  OBVIOUS
<1>1. CASE s # <<>> /\ s[Len(s)].kind = "torn"
  <2> DEFINE n == Len(s)
             t == SubSeq(s, 1, n - 1)
             m == [l EXCEPT !.kind = IF @ = "torn" THEN "torn" ELSE "glued"]
  <2>1. n \in Nat \ {0}
    BY <1>1
  <2>2. t \in Seq(Line) /\ Len(t) = n - 1 /\ \A j \in 1 .. n - 1 : t[j] = s[j]
    <3>1. n - 1 \in Nat /\ n - 1 <= n
      BY <2>1
    <3>2. t \in Seq(Line) /\ Len(t) = n - 1 /\ \A j \in 1 .. n - 1 : t[j] = s[1 + j - 1]
      <4>1. 1 \in Int /\ n - 1 \in Int /\ \A j \in 1 .. n - 1 : s[j] \in Line
        BY <3>1
      <4>2. /\ t \in Seq(Line) /\ Len(t) = IF 1 <= n - 1 THEN n - 1 - 1 + 1 ELSE 0
            /\ \A j \in 1 .. n - 1 - 1 + 1 : t[j] = s[1 + j - 1]
        BY <4>1, SubSeqProperties
      <4> HIDE DEF t, n
      <4> QED BY <2>1, <4>2
    <3> QED BY <3>1, <3>2
  <2>3. /\ m \in Line /\ m.events = l.events
        /\ m.kind = IF l.kind = "torn" THEN "torn" ELSE "glued"
    BY DEF Line
  <2>4. g = Append(t, m)
    BY <1>1 DEF Glue, Last, Front
  <2> HIDE DEF t, m
  <2>5. /\ g \in Seq(Line) /\ Len(g) = n /\ \A j \in 1 .. n - 1 : g[j] = t[j]
        /\ g[n] = m
    BY <2>1, <2>2, <2>3, <2>4
  <2> HIDE DEF g
  <2>6. Len(s) = n /\ s[n] = s[Len(s)]
    BY DEF n
  <2> HIDE DEF n
  <2>7. \A j \in 1 .. n - 1 : g[j] = s[j]
    BY <2>2, <2>5
  <2> QED BY <1>1, <2>1, <2>3, <2>5, <2>6, <2>7 DEF GluesTo
<1>2. CASE s = <<>> \/ s[Len(s)].kind # "torn"
  <2>1. g = Append(s, l)
    BY <1>2 DEF Glue, Last
  <2>2. /\ g \in Seq(Line) /\ Len(g) = Len(s) + 1 /\ \A j \in 1 .. Len(s) : g[j] = s[j]
        /\ g[Len(s) + 1] = l /\ Len(s) \in Nat
    BY <2>1
  <2> HIDE DEF g
  <2> QED BY <1>2, <2>1, <2>2 DEF GluesTo
<1> QED BY <1>1, <1>2

LEMMA IngestFacts ==
    ASSUME Typed, NEW bs, Ingest(bs)
    PROVE  /\ ingested' \in [Events -> 0 .. MaxFaults + 2]
           /\ \A e \in Events :
                 /\ ingested[e] > 0 => ingested'[e] > 0
                 /\ e \in ToSet(bs) => ingested'[e] > 0 /\ ingested'[e] <= ingested[e] + 1
                 /\ e \notin ToSet(bs) => ingested'[e] = ingested[e]
<1>1. MaxFaults \in Nat
  BY EventAssumption
<1>2. ingested \in [Events -> 0 .. MaxFaults + 2]
  BY DEF Typed
<1> QED BY <1>1, <1>2 DEF Ingest

LEMMA NewFileFacts ==
    ASSUME Typed, FilesLeft, NEW e \in Events, apc[e] = "opening"
    PROVE  /\ NewFile \in Files /\ lines[NewFile] = <<>>
           /\ NewFile \notin Range(dir) \cup Range(out) \cup Range(in)
<1>1. Opened \subseteq Events \ {e}
  BY DEF Opened
<1>2. IsFiniteSet(Events \ {e}) /\ Cardinality(Events \ {e}) = Cardinality(Events) - 1
  BY FilesFacts, FS_RemoveElement
<1>3. Cardinality(Opened) <= Cardinality(Events) - 1 /\ Cardinality(Opened) \in Nat
  BY <1>1, <1>2, FS_Subset, FS_CardinalityType
<1>4. Used # Files
  <2>1. Cardinality(Used) \in Nat
    BY FilesFacts, FS_Subset, FS_CardinalityType DEF Used
  <2> QED BY <1>3, <2>1, FilesFacts DEF FilesLeft
<1>5. \E i \in Files : lines[i] = <<>> /\ i \notin Range(dir) \cup Range(out) \cup Range(in)
  BY <1>4 DEF Used
<1> QED BY <1>5 DEF NewFile

(* The sequence s without its k-th element. *)
LEMMA RemoveAtFacts ==
    ASSUME NEW S, NEW s \in Seq(S), NEW k \in DOMAIN s
    PROVE  /\ RemoveAt(s, k) \in Seq(S) /\ Len(RemoveAt(s, k)) = Len(s) - 1
           /\ \A j \in 1 .. Len(s) - 1 : RemoveAt(s, k)[j] = IF j < k THEN s[j] ELSE s[j + 1]
<1> DEFINE n == Len(s)
           a == SubSeq(s, 1, k - 1)
           b == SubSeq(s, k + 1, n)
<1>1. n \in Nat /\ k \in 1 .. n /\ \A j \in 1 .. n : s[j] \in S
  OBVIOUS
<1>2. RemoveAt(s, k) = a \o b
  BY DEF RemoveAt
<1>3. /\ 1 \in Int /\ k - 1 \in Int /\ k + 1 \in Int /\ n \in Int
      /\ \A j \in 1 .. k - 1 : s[j] \in S
      /\ \A j \in k + 1 .. n : s[j] \in S
  BY <1>1
<1>4. /\ a \in Seq(S) /\ Len(a) = IF 1 <= k - 1 THEN k - 1 - 1 + 1 ELSE 0
      /\ \A j \in 1 .. k - 1 - 1 + 1 : a[j] = s[1 + j - 1]
  BY <1>3, SubSeqProperties
<1>5. /\ b \in Seq(S) /\ Len(b) = IF k + 1 <= n THEN n - (k + 1) + 1 ELSE 0
      /\ \A j \in 1 .. n - (k + 1) + 1 : b[j] = s[k + 1 + j - 1]
  BY <1>3, SubSeqProperties
<1> HIDE DEF a, b
<1>6. /\ a \o b \in Seq(S) /\ Len(a \o b) = Len(a) + Len(b)
      /\ \A j \in 1 .. Len(a) + Len(b) : (a \o b)[j] = IF j <= Len(a) THEN a[j] ELSE b[j - Len(a)]
  BY <1>4, <1>5, ConcatProperties
<1>7. Len(a) = k - 1 /\ Len(b) = n - k
  <2> HIDE DEF n
  <2> QED BY <1>1, <1>4, <1>5
<1>8. \A j \in 1 .. n - 1 : (a \o b)[j] = IF j < k THEN s[j] ELSE s[j + 1]
  <2> HIDE DEF n
  <2> TAKE j \in 1 .. n - 1
  <2>1. CASE j < k
    <3>1. (a \o b)[j] = a[j]
      BY <1>1, <1>6, <1>7, <2>1
    <3>2. a[j] = s[1 + j - 1] /\ 1 + j - 1 = j
      BY <1>1, <1>4, <2>1
    <3> QED BY <2>1, <3>1, <3>2
  <2>2. CASE ~(j < k)
    <3> DEFINE i == j - (k - 1)
    <3>1. j \in 1 .. Len(a) + Len(b) /\ ~(j <= Len(a))
      BY <1>1, <1>7, <2>2
    <3>2. (a \o b)[j] = b[i]
      BY <1>6, <1>7, <3>1
    <3>3. i \in 1 .. n - (k + 1) + 1 /\ k + 1 + i - 1 = j + 1
      BY <1>1, <2>2
    <3> HIDE DEF i
    <3>4. b[i] = s[j + 1]
      BY <1>5, <3>3
    <3> QED BY <2>2, <3>2, <3>4
  <2> QED BY <2>1, <2>2
<1>9. Len(a \o b) = n - 1
  BY <1>1, <1>6, <1>7
<1> QED BY <1>2, <1>6, <1>8, <1>9

-----------------------------------------------------------------------------
(* Each part of the invariant is kept.  First the types. *)

LEMMA LinesTyped ==
    ASSUME Typed
    PROVE  /\ \A e \in Events : [events |-> {e}, kind |-> "whole"] \in Line
           /\ [events |-> {}, kind |-> "torn"] \in Line
           /\ \A i \in Files : lines[i] \in Seq(Line) /\ Len(lines[i]) \in Nat
           /\ \A i \in Files : \A j \in 1 .. Len(lines[i]) : lines[i][j] \in Line
<1>1. /\ \A e \in Events : [events |-> {e}, kind |-> "whole"] \in Line
      /\ [events |-> {}, kind |-> "torn"] \in Line
  BY DEF Line
<1>2. \A i \in Files : lines[i] \in Seq(Line)
  BY DEF Typed
<1>3. \A s \in Seq(Line) : Len(s) \in Nat /\ \A j \in 1 .. Len(s) : s[j] \in Line
  OBVIOUS
<1> QED BY <1>1, <1>2, <1>3

(* What the actions do that write a line, open a file to read it or read a *)
(* line of it.                                                             *)
WritesLine(e, l) ==
    /\ apc[e] = "writing" /\ out[e] \in Files
    /\ lines' = [lines EXCEPT ![out[e]] = Glue(@, l)]
    /\ UNCHANGED <<alone, dir, flusher, late, ingested, faults>>

Whole(e) == [events |-> {e}, kind |-> "whole"]
Torn     == [events |-> {}, kind |-> "torn"]

LEMMA WriteSteps ==
    ASSUME Typed, Controlled, NEW e \in Events, Write(e) \/ WriteFails(e)
    PROVE  \/ WritesLine(e, Whole(e)) /\ Close(e, "appended")
           \/ WritesLine(e, Torn) /\ Close(e, "raised")
           \/ /\ apc[e] = "writing" /\ Close(e, "raised")
              /\ UNCHANGED <<alone, files, flusher, late, ingested, faults>>
<1>1. apc[e] = "writing"
  BY DEF Write, WriteFails
<1>2. out[e] \in Files
  BY <1>1 DEF Typed, Controlled
<1> QED BY <1>1, <1>2 DEF Write, WriteFails, WritesLine, Whole, Torn, files

Stops(f) == Abandon(f) /\ UNCHANGED <<alone, files, appender, late, ingested, faults>>

OpensFile(f) ==
    /\ fpc[f] = "opening" /\ in[f] = NoFile /\ batch[f] = <<>>
    /\ dir[Head(todo[f])] \in Files
    /\ in' = [in EXCEPT ![f] = dir[Head(todo[f])]]
    /\ offset' = [offset EXCEPT ![f] = 0]
    /\ To(f, "reading")
    /\ UNCHANGED <<alone, files, appender, todo, batch, late, ingested, faults>>

LEMMA OpenSteps ==
    ASSUME Typed, Controlled, NEW f \in Flushers, OpenToRead(f)
    PROVE  Stops(f) \/ OpensFile(f)
<1>1. fpc[f] = "opening" /\ in[f] = NoFile /\ batch[f] = <<>> /\ todo[f] # <<>>
  BY DEF OpenToRead, Controlled
<1>2. Head(todo[f]) \in Names
  BY <1>1 DEF Typed
<1>3. CASE dir[Head(todo[f])] = NoFile
  BY <1>1, <1>3 DEF OpenToRead, Stops
<1>4. CASE dir[Head(todo[f])] # NoFile
  <2>1. dir[Head(todo[f])] \in Files
    BY <1>2, <1>4 DEF Typed
  <2> QED BY <1>1, <1>4, <2>1 DEF OpenToRead, OpensFile
<1> QED BY <1>3, <1>4

ReadsLine(f, e) ==
    /\ fpc[f] = "reading" /\ in[f] \in Files /\ Len(batch[f]) < BatchSize
    /\ offset[f] + 1 \in 1 .. Len(lines[in[f]])
    /\ lines[in[f]][offset[f] + 1].kind = "whole"
    /\ lines[in[f]][offset[f] + 1].events = {e}
    /\ batch' = [batch EXCEPT ![f] = Append(@, e)]
    /\ offset' = [offset EXCEPT ![f] = @ + 1]
    /\ UNCHANGED <<alone, files, appender, fpc, todo, in, late, ingested, faults>>

LEMMA ReadSteps ==
    ASSUME Typed, Controlled, Written, NEW f \in Flushers, Read(f)
    PROVE  \/ /\ Stops(f) /\ in[f] \in Files /\ offset[f] + 1 \in 1 .. Len(lines[in[f]])
              /\ lines[in[f]][offset[f] + 1].kind # "whole"
           \/ \E e \in Events : ReadsLine(f, e)
<1> DEFINE l == lines[in[f]][offset[f] + 1]
<1>1. in[f] \in Files /\ offset[f] + 1 \in 1 .. Len(lines[in[f]])
  BY LinesTyped DEF Read, Typed, Controlled
<1>2. CASE l.kind # "whole"
  BY <1>1, <1>2 DEF Read, Stops
<1>3. CASE l.kind = "whole"
  <2>1. PICK e \in Events : l.events = {e}
    BY <1>1, <1>3 DEF Written
  <2>2. batch[f] \o SetToSeq({e}) = Append(batch[f], e)
    <3>1. batch[f] \in Seq(Events)
      BY DEF Typed
    <3> DEFINE s == SetToSeq({e})
    <3>2. s \in Seq(Events) /\ Len(s) = 1 /\ s[1] = e
      BY OneElement
    <3> HIDE DEF s
    <3>3. s = <<e>>
      BY <3>2, SeqEqual
    <3>4. batch[f] \o <<e>> = Append(batch[f], e)
      BY <3>1, AppendIsConcat
    <3> QED BY <3>3, <3>4 DEF s
  <2>3. batch' = [batch EXCEPT ![f] = @ \o SetToSeq({e})]
    BY <1>3, <2>1 DEF Read
  <2>4. batch' = [batch EXCEPT ![f] = Append(@, e)]
    BY <2>2, <2>3
  <2>5. /\ offset' = [offset EXCEPT ![f] = @ + 1]
        /\ UNCHANGED <<alone, files, appender, fpc, todo, in, late, ingested, faults>>
        /\ fpc[f] = "reading" /\ Len(batch[f]) < BatchSize
    BY <1>3 DEF Read
  <2> QED BY <1>1, <1>3, <2>1, <2>4, <2>5 DEF ReadsLine
<1> QED BY <1>2, <1>3

LEMMA TypedKept ==
    ASSUME IInv, [Next]_vars
    PROVE  Typed'
<1> USE DEF vars, appender, flusher, files
<1>0. /\ Typed /\ Controlled /\ Written /\ Delivered /\ FilesLeft /\ MaxFaults \in Nat
      /\ NoFile \notin Files
  BY EventAssumption, FilesFacts DEF IInv
<1>1. ASSUME NEW e \in Events, Exists(e) PROVE Typed'
  BY <1>0, <1>1 DEF Exists, Typed, Names
<1>2. ASSUME NEW e \in Events, Size(e) PROVE Typed'
  BY <1>0, <1>2 DEF Size, Typed, Names
<1>3. ASSUME NEW e \in Events, OpenToAppend(e) PROVE Typed'
  <2>1. NewFile \in Files
    BY <1>0, <1>3, NewFileFacts DEF OpenToAppend
  <2> QED BY <1>0, <1>3, <2>1 DEF OpenToAppend, Typed
<1>4. ASSUME NEW e \in Events, NEW l \in Line, WritesLine(e, l)
      PROVE  lines' \in [Files -> Seq(Line)]
  <2>1. lines \in [Files -> Seq(Line)]
    BY <1>0 DEF Typed
  <2>2. Glue(lines[out[e]], l) \in Seq(Line)
    BY <1>4, <2>1, GlueFacts DEF WritesLine, GluesTo
  <2> QED BY <1>4, <2>1, <2>2 DEF WritesLine
<1>5. ASSUME NEW e \in Events, Write(e) \/ WriteFails(e) PROVE Typed'
  <2>1. CASE WritesLine(e, Whole(e)) /\ Close(e, "appended")
    BY <1>0, <1>4, <2>1, LinesTyped DEF WritesLine, Whole, Close, Typed, Names
  <2>2. CASE WritesLine(e, Torn) /\ Close(e, "raised")
    BY <1>0, <1>4, <2>2, LinesTyped DEF WritesLine, Torn, Close, Typed, Names
  <2>3. CASE /\ Close(e, "raised")
             /\ UNCHANGED <<alone, files, flusher, late, ingested, faults>>
    BY <1>0, <2>3 DEF Close, Typed, Names
  <2> QED BY <1>0, <1>5, <2>1, <2>2, <2>3, WriteSteps
<1>6. ASSUME NEW f \in Flushers, Stops(f) PROVE Typed'
  BY <1>0, <1>6 DEF Stops, Abandon, To, Typed
<1>7. ASSUME NEW f \in Flushers, Glob(f) PROVE Typed'
  <2>1. Sorted({n \in Names : dir[n] # NoFile}) \in Seq(Names)
    BY SortedFacts
  <2> QED BY <1>0, <1>7, <2>1 DEF Glob, To, Typed
<1>8. ASSUME NEW f \in Flushers, OpenToRead(f) PROVE Typed'
  <2>1. CASE OpensFile(f)
    BY <1>0, <2>1 DEF OpensFile, To, Typed
  <2> QED BY <1>0, <1>6, <1>8, <2>1, OpenSteps
<1>9. ASSUME NEW f \in Flushers, Read(f) PROVE Typed'
  <2>1. ASSUME NEW e \in Events, ReadsLine(f, e) PROVE Typed'
    <3>1. batch' \in [Flushers -> Seq(Events)] /\ offset' \in [Flushers -> Nat]
      BY <1>0, <2>1 DEF ReadsLine, Typed
    <3> QED BY <1>0, <2>1, <3>1 DEF ReadsLine, Typed
  <2> QED BY <1>0, <1>6, <1>9, <2>1, ReadSteps
<1>10. ASSUME NEW f \in Flushers, EndOfFile(f) PROVE Typed'
  BY <1>0, <1>10 DEF EndOfFile, To, Typed
<1>11. ASSUME NEW f \in Flushers, Accepted(f) PROVE Typed'
  <2>1. ingested' \in [Events -> 0 .. MaxFaults + 2]
    BY <1>0, <1>11, IngestFacts DEF Accepted
  <2> QED BY <1>0, <1>11, <2>1 DEF Accepted, To, Typed
<1>12. ASSUME NEW f \in Flushers, Refused(f) PROVE Typed'
  <2>1. ingested' \in [Events -> 0 .. MaxFaults + 2]
    BY <1>0, <1>12, IngestFacts DEF Refused
  <2> QED BY <1>0, <1>12, <2>1 DEF Refused, Fault, Abandon, To, Typed
<1>13. ASSUME NEW f \in Flushers, TimedOut(f) PROVE Typed'
  BY <1>0, <1>13 DEF TimedOut, Fault, Abandon, To, Typed
<1>14. ASSUME NEW f \in Flushers, Unlink(f) PROVE Typed'
  <2>1. Tail(todo[f]) \in Seq(Names)
    BY <1>0, <1>14 DEF Unlink, Typed, Controlled
  <2> QED BY <1>0, <1>14, <2>1 DEF Unlink, Done, To, Typed
<1>15. ASSUME NEW f \in Flushers, UnlinkFails(f) PROVE Typed'
  <2>1. Tail(todo[f]) \in Seq(Names)
    BY <1>0, <1>15 DEF UnlinkFails, Typed, Controlled
  <2> QED BY <1>0, <1>15, <2>1 DEF UnlinkFails, Fault, Done, To, Typed
<1>16. ASSUME NEW f \in Flushers, Dies(f) PROVE Typed'
  BY <1>0, <1>16 DEF Dies, Fault, Abandon, To, Typed
<1>17. ASSUME NEW k \in DOMAIN late, Ingest(late[k]), late' = RemoveAt(late, k),
              UNCHANGED <<alone, files, appender, flusher, faults>>
       PROVE  Typed'
  <2>1. ingested' \in [Events -> 0 .. MaxFaults + 2]
    BY <1>0, <1>17, IngestFacts
  <2>2. late' \in Seq(Seq(Events))
    BY <1>0, <1>17, RemoveAtFacts DEF Typed
  <2> QED BY <1>0, <1>17, <2>1, <2>2 DEF Typed
<1>18. ASSUME UNCHANGED vars PROVE Typed'
  BY <1>0, <1>18 DEF Typed
<1> QED
  BY <1>1, <1>2, <1>3, <1>5, <1>6, <1>7, <1>8, <1>9, <1>10, <1>11, <1>12, <1>13, <1>14,
     <1>15, <1>16, <1>17, <1>18 DEF Next, Appending, Flush, Arrives

(* What is in hand. *)
LEMMA ControlledKept ==
    ASSUME IInv, [Next]_vars
    PROVE  Controlled'
<1> USE DEF vars, appender, flusher, files
<1> DEFINE C(f) == /\ fpc[f] \in {"idle", "opening"} => in[f] = NoFile /\ offset[f] = 0
                   /\ fpc[f] \in {"reading", "finishing", "unlinking"} => in[f] # NoFile
                   /\ fpc[f] \notin {"reading", "finishing"} => batch[f] = <<>>
                   /\ fpc[f] # "idle" => todo[f] # <<>>
                   /\ Len(batch[f]) <= BatchSize /\ Len(batch[f]) <= offset[f]
           A(e) == apc[e] = "writing" <=> out[e] # NoFile
           All == \A f \in Flushers : C(f)
           Each == \A e \in Events : A(e)
<1>0. /\ Typed /\ Controlled /\ Written /\ FilesLeft /\ All /\ Each /\ NoFile \notin Files
      /\ BatchSize \in Nat \ {0} /\ <<>> \in Seq(Events) /\ Len(<<>>) = 0
  BY EventAssumption, FilesFacts DEF IInv, Controlled
<1>1. ASSUME NEW e \in Events, Exists(e) PROVE Controlled'
  BY <1>0, <1>1 DEF Exists, Typed, Controlled
<1>2. ASSUME NEW e \in Events, Size(e) PROVE Controlled'
  BY <1>0, <1>2 DEF Size, Typed, Controlled
<1>3. ASSUME NEW e \in Events, OpenToAppend(e) PROVE Controlled'
  <2>1. NewFile \in Files
    BY <1>0, <1>3, NewFileFacts DEF OpenToAppend
  <2>2. \E i \in Files : out' = [out EXCEPT ![e] = i]
    <3>1. dir[path[e]] # NoFile => dir[path[e]] \in Files
      BY DEF Typed, IInv
    <3> QED BY <1>3, <2>1, <3>1 DEF OpenToAppend
  <2> QED BY <1>0, <1>3, <2>2 DEF OpenToAppend, Typed, Controlled
<1>4. ASSUME NEW e \in Events, Write(e) \/ WriteFails(e) PROVE Controlled'
  <2>1. PICK s \in {"appended", "raised"} : Close(e, s) /\ UNCHANGED flusher
    BY <1>0, <1>4, WriteSteps DEF WritesLine
  <2> QED BY <1>0, <2>1 DEF Close, Typed, Controlled
<1>5. ASSUME NEW f \in Flushers, UNCHANGED appender, C(f)',
             \A g \in Flushers \ {f} :
                 /\ fpc'[g] = fpc[g] /\ in'[g] = in[g] /\ offset'[g] = offset[g]
                 /\ batch'[g] = batch[g] /\ todo'[g] = todo[g]
      PROVE  Controlled'
  <2>1. All'
    BY <1>0, <1>5
  <2>2. Each'
    BY <1>0, <1>5
  <2> QED BY <2>1, <2>2 DEF Controlled
<1>6. ASSUME NEW f \in Flushers, Stops(f) PROVE Controlled'
  <2>1. C(f)'
    BY <1>0, <1>6 DEF Stops, Abandon, To, Typed
  <2> QED BY <1>0, <1>5, <1>6, <2>1 DEF Stops, Abandon, To, Typed
<1>7. ASSUME NEW f \in Flushers, Glob(f) PROVE Controlled'
  <2>1. Sorted({n \in Names : dir[n] # NoFile}) # <<>>
    BY <1>7, SortedFacts DEF Glob
  <2>2. C(f)'
    BY <1>0, <1>7, <2>1 DEF Glob, To, Typed
  <2> QED BY <1>0, <1>5, <1>7, <2>2 DEF Glob, To, Typed
<1>8. ASSUME NEW f \in Flushers, OpenToRead(f) PROVE Controlled'
  <2>1. ASSUME OpensFile(f) PROVE Controlled'
    <3>1. C(f)'
      BY <1>0, <2>1 DEF OpensFile, To, Typed
    <3> QED BY <1>0, <1>5, <2>1, <3>1 DEF OpensFile, To, Typed
  <2> QED BY <1>0, <1>6, <1>8, <2>1, OpenSteps
<1>9. ASSUME NEW f \in Flushers, Read(f) PROVE Controlled'
  <2>1. ASSUME NEW e \in Events, ReadsLine(f, e) PROVE Controlled'
    <3>1. batch[f] \in Seq(Events) /\ Len(batch[f]) \in Nat /\ offset[f] \in Nat
      BY <1>0 DEF Typed
    <3>2. Len(Append(batch[f], e)) = Len(batch[f]) + 1
      BY <3>1
    <3>3. batch'[f] = Append(batch[f], e) /\ offset'[f] = offset[f] + 1
      BY <1>0, <2>1 DEF ReadsLine, Typed
    <3>4. C(f)'
      BY <1>0, <2>1, <3>1, <3>2, <3>3 DEF ReadsLine
    <3> QED BY <1>0, <1>5, <2>1, <3>4 DEF ReadsLine, Typed
  <2> QED BY <1>0, <1>6, <1>9, <2>1, ReadSteps
<1>10. ASSUME NEW f \in Flushers, EndOfFile(f) PROVE Controlled'
  <2>1. C(f)'
    BY <1>0, <1>10 DEF EndOfFile, To, Typed
  <2> QED BY <1>0, <1>5, <1>10, <2>1 DEF EndOfFile, To, Typed
<1>11. ASSUME NEW f \in Flushers, Accepted(f) PROVE Controlled'
  <2>1. C(f)'
    BY <1>0, <1>11 DEF Accepted, Sending, To, Typed
  <2> QED BY <1>0, <1>5, <1>11, <2>1 DEF Accepted, To, Typed
<1>12. ASSUME NEW f \in Flushers, Refused(f) \/ TimedOut(f) \/ Dies(f) PROVE Controlled'
  <2>1. Abandon(f) /\ UNCHANGED appender
    BY <1>12 DEF Refused, TimedOut, Dies
  <2>2. C(f)'
    BY <1>0, <2>1 DEF Abandon, To, Typed
  <2> QED BY <1>0, <1>5, <2>1, <2>2 DEF Abandon, To, Typed
<1>13. ASSUME NEW f \in Flushers, Unlink(f) \/ UnlinkFails(f) PROVE Controlled'
  <2>1. Done(f) /\ UNCHANGED appender /\ fpc[f] = "unlinking"
    BY <1>13 DEF Unlink, UnlinkFails
  <2>2. todo[f] \in Seq(Names) /\ todo[f] # <<>> /\ Len(todo[f]) \in Nat
    BY <1>0, <2>1 DEF Typed
  <2>3. Len(Tail(todo[f])) = Len(todo[f]) - 1
    BY <2>2
  <2>4. C(f)'
    <3>1. Len(todo[f]) # 1 => Tail(todo[f]) # <<>>
      <4>1. Len(todo[f]) # 1 => Len(Tail(todo[f])) # 0
        BY <2>2, <2>3
      <4>2. Len(<<>>) = 0
        BY <1>0
      <4> QED BY <4>1, <4>2
    <3>2. /\ todo'[f] = Tail(todo[f]) /\ in'[f] = NoFile /\ offset'[f] = 0
          /\ fpc'[f] = IF Len(todo[f]) = 1 THEN "idle" ELSE "opening"
          /\ batch'[f] = <<>>
      BY <1>0, <2>1 DEF Done, To, Typed
    <3> HIDE DEF appender, flusher, files
    <3> QED BY <1>0, <3>1, <3>2
  <2> QED BY <1>0, <1>5, <2>1, <2>4 DEF Done, To, Typed
<1>14. ASSUME UNCHANGED <<appender, flusher>> PROVE Controlled'
  BY <1>0, <1>14 DEF Controlled
<1> QED
  BY <1>1, <1>2, <1>3, <1>4, <1>7, <1>8, <1>9, <1>10, <1>11, <1>12, <1>13, <1>14
     DEF Next, Appending, Flush, Arrives

(* The lines.  A step leaves them alone or is a write; what a write leaves *)
(* of the lines of each file.                                              *)
LEMMA LinesSteps ==
    ASSUME IInv, [Next]_vars
    PROVE  \/ UNCHANGED lines
           \/ \E e \in Events : WritesLine(e, Whole(e)) /\ Close(e, "appended")
           \/ \E e \in Events : WritesLine(e, Torn) /\ Close(e, "raised")
<1>1. ASSUME NEW e \in Events, Write(e) \/ WriteFails(e)
      PROVE  \/ UNCHANGED lines
             \/ WritesLine(e, Whole(e)) /\ Close(e, "appended")
             \/ WritesLine(e, Torn) /\ Close(e, "raised")
  BY <1>1, WriteSteps DEF IInv, files
<1>2. ASSUME NEW e \in Events, Exists(e) \/ Size(e) \/ OpenToAppend(e) PROVE UNCHANGED lines
  BY <1>2 DEF Exists, Size, OpenToAppend, files
<1>3. ASSUME NEW f \in Flushers, Flush(f) PROVE UNCHANGED lines
  BY <1>3 DEF Flush, Glob, OpenToRead, Read, EndOfFile, Accepted, Refused, TimedOut, Unlink,
              UnlinkFails, Dies, files
<1>4. ASSUME Arrives \/ UNCHANGED vars PROVE UNCHANGED lines
  BY <1>4 DEF Arrives, vars, files
<1> QED BY <1>1, <1>2, <1>3, <1>4 DEF Next, Appending

LEMMA WritesFacts ==
    ASSUME Typed, NEW e \in Events, NEW l \in {Whole(e), Torn}, WritesLine(e, l), NEW i \in Files
    PROVE  /\ Len(lines[i]) \in Nat /\ Len(lines'[i]) \in Nat /\ Len(lines[i]) <= Len(lines'[i])
           /\ \A j \in 1 .. Len(lines[i]) :
                 lines[i][j].kind # "torn" => lines'[i][j] = lines[i][j]
           /\ i # out[e] => lines'[i] = lines[i]
           /\ i = out[e] =>
                 /\ Len(lines'[i]) >= 1
                 /\ \A j \in 1 .. Len(lines'[i]) - 1 :
                       j <= Len(lines[i]) /\ lines'[i][j] = lines[i][j]
                 /\ lines'[i][Len(lines'[i])].events = l.events
                 /\ lines'[i][Len(lines'[i])].kind = "torn" <=> l = Torn
                 /\ Len(lines'[i]) = Len(lines[i]) =>
                       lines[i][Len(lines[i])].kind = "torn"
                       /\ lines'[i][Len(lines[i])].kind # "whole"
<1>1. lines[i] \in Seq(Line) /\ Len(lines[i]) \in Nat /\ l \in Line
  BY LinesTyped DEF Whole, Torn
<1>2. l = Torn <=> l.kind = "torn"
  BY DEF Whole, Torn
<1>3. CASE i # out[e]
  <2>1. lines'[i] = lines[i]
    BY <1>3 DEF WritesLine, Typed
  <2> QED BY <1>1, <1>3, <2>1
<1>4. CASE i = out[e]
  <2> DEFINE s == lines[i]
             g == lines'[i]
  <2>1. g = Glue(s, l)
    BY <1>4 DEF WritesLine, Typed
  <2>2. GluesTo(s, l, g)
    BY <1>1, <2>1, GlueFacts
  <2>3. s = <<>> \/ s[Len(s)].kind # "torn" => g[Len(g)] = l
    BY <1>1, <2>2 DEF GluesTo
  <2>4. Len(g) = Len(s) => s # <<>>
    BY <1>1, <2>2 DEF GluesTo
  <2> HIDE DEF s, g
  <2>5. Len(s) \in Nat
    BY <1>1 DEF s
  <2>6. /\ Len(g) >= 1
        /\ g[Len(g)].kind = "torn" <=> l = Torn
        /\ Len(g) = Len(s) => s[Len(s)].kind = "torn" /\ g[Len(s)].kind # "whole"
    BY <1>2, <2>2, <2>3, <2>4, <2>5 DEF GluesTo
  <2>7. /\ Len(g) \in Nat /\ Len(s) <= Len(g)
        /\ \A j \in 1 .. Len(s) : s[j].kind # "torn" => g[j] = s[j]
        /\ \A j \in 1 .. Len(g) - 1 : j <= Len(s) /\ g[j] = s[j]
        /\ g[Len(g)].events = l.events
    BY <2>2 DEF GluesTo
  <2> QED BY <1>4, <2>5, <2>6, <2>7 DEF s, g
<1> QED BY <1>3, <1>4

LEMMA WrittenKept ==
    ASSUME IInv, [Next]_vars
    PROVE  Written'
<1>0. Typed /\ Written
  BY DEF IInv
<1>1. ASSUME UNCHANGED lines PROVE Written'
  BY <1>0, <1>1 DEF Written
<1>2. ASSUME NEW e \in Events, NEW l \in {Whole(e), Torn}, WritesLine(e, l)
      PROVE  Written'
  <2> SUFFICES ASSUME NEW i \in Files, NEW j \in 1 .. Len(lines'[i])
               PROVE  IF lines'[i][j].kind = "torn" THEN lines'[i][j].events = {}
                      ELSE \E d \in Events : lines'[i][j].events = {d}
    BY DEF Written
  <2>1. /\ Len(lines[i]) \in Nat /\ Len(lines'[i]) \in Nat
        /\ i # out[e] => lines'[i] = lines[i]
        /\ i = out[e] =>
              /\ \A k \in 1 .. Len(lines'[i]) - 1 :
                    k <= Len(lines[i]) /\ lines'[i][k] = lines[i][k]
              /\ lines'[i][Len(lines'[i])].events = l.events
              /\ lines'[i][Len(lines'[i])].kind = "torn" <=> l = Torn
    BY <1>0, <1>2, WritesFacts
  <2>2. CASE i # out[e]
    BY <1>0, <2>1, <2>2 DEF Written
  <2>3. CASE i = out[e] /\ j # Len(lines'[i])
    <3>1. j \in 1 .. Len(lines'[i]) - 1 /\ j \in 1 .. Len(lines[i]) /\ lines'[i][j] = lines[i][j]
      BY <2>1, <2>3
    <3> QED BY <1>0, <3>1 DEF Written
  <2>4. CASE i = out[e] /\ j = Len(lines'[i])
    <3>1. l = Whole(e) => lines'[i][j].events = {e} /\ lines'[i][j].kind # "torn"
      BY <2>1, <2>4 DEF Whole, Torn
    <3>2. l = Torn => lines'[i][j].events = {} /\ lines'[i][j].kind = "torn"
      BY <2>1, <2>4 DEF Torn
    <3> QED BY <3>1, <3>2
  <2> QED BY <2>2, <2>3, <2>4
<1> QED BY <1>1, <1>2, LinesSteps

LEMMA OnFacts ==
    ASSUME Typed, Written,
           NEW e \in Events, NEW l \in {Whole(e), Torn}, WritesLine(e, l),
           NEW d \in Events, NEW i \in Files, NEW j \in Nat
    PROVE  /\ IsOn(d, i, j) => IsOn(d, i, j)'
           /\ IsOn(d, i, j)' =>
                 \/ IsOn(d, i, j)
                 \/ l = Whole(e) /\ d = e /\ i = out[e] /\ j = Len(lines'[i])
<1>1. /\ Len(lines[i]) \in Nat /\ Len(lines'[i]) \in Nat /\ Len(lines[i]) <= Len(lines'[i])
      /\ \A k \in 1 .. Len(lines[i]) : lines[i][k].kind # "torn" => lines'[i][k] = lines[i][k]
      /\ i # out[e] => lines'[i] = lines[i]
      /\ i = out[e] =>
            /\ \A k \in 1 .. Len(lines'[i]) - 1 :
                  k <= Len(lines[i]) /\ lines'[i][k] = lines[i][k]
            /\ lines'[i][Len(lines'[i])].events = l.events
  BY WritesFacts
<1>2. ASSUME IsOn(d, i, j) PROVE IsOn(d, i, j)'
  <2>1. j \in 1 .. Len(lines[i]) /\ d \in lines[i][j].events /\ lines[i][j].kind # "torn"
    BY <1>2 DEF IsOn, Written
  <2>2. j \in 1 .. Len(lines'[i]) /\ lines'[i][j] = lines[i][j]
    BY <1>1, <2>1
  <2> QED BY <2>1, <2>2 DEF IsOn
<1>3. ASSUME IsOn(d, i, j)'
      PROVE  \/ IsOn(d, i, j)
             \/ l = Whole(e) /\ d = e /\ i = out[e] /\ j = Len(lines'[i])
  <2>1. j \in 1 .. Len(lines'[i]) /\ d \in lines'[i][j].events
    BY <1>3 DEF IsOn
  <2>2. CASE i # out[e]
    BY <1>1, <2>1, <2>2 DEF IsOn
  <2>3. CASE i = out[e] /\ j # Len(lines'[i])
    <3>1. j \in 1 .. Len(lines[i]) /\ lines'[i][j] = lines[i][j]
      BY <1>1, <2>1, <2>3
    <3> QED BY <2>1, <3>1 DEF IsOn
  <2>4. CASE i = out[e] /\ j = Len(lines'[i])
    <3>1. d \in l.events
      BY <1>1, <2>1, <2>4
    <3>2. l = Whole(e) /\ d = e
      BY <3>1 DEF Whole, Torn
    <3> QED BY <2>4, <3>2
  <2> QED BY <2>2, <2>3, <2>4
<1> QED BY <1>2, <1>3

(* What is logged stays logged. *)
LEMMA IngestedGrows ==
    ASSUME IInv, [Next]_vars
    PROVE  \A e \in Events : ingested[e] > 0 => ingested'[e] > 0
<1>0. Typed
  BY DEF IInv
<1>1. ASSUME NEW e \in Events, Exists(e) \/ Appending(e) PROVE UNCHANGED ingested
  BY <1>1 DEF Exists, Appending, Size, OpenToAppend, Write, WriteFails
<1>2. ASSUME NEW f \in Flushers, Flush(f)
      PROVE  UNCHANGED ingested \/ \E bs : Ingest(bs)
  BY <1>2 DEF Flush, Glob, OpenToRead, Read, EndOfFile, Accepted, Refused, TimedOut, Unlink,
              UnlinkFails, Dies
<1>3. UNCHANGED ingested \/ \E bs : Ingest(bs)
  BY <1>1, <1>2 DEF Next, Arrives, vars
<1> QED BY <1>0, <1>3, IngestFacts

(* What a flush has read of its file it has in its batch or delivered. *)
LEMMA DeliveredKept ==
    ASSUME IInv, [Next]_vars
    PROVE  Delivered'
<1> DEFINE D(f) == in[f] # NoFile =>
            /\ offset[f] <= Len(lines[in[f]])
            /\ \A j \in 1 .. offset[f] :
                  /\ lines[in[f]][j].kind = "whole"
                  /\ \A e \in lines[in[f]][j].events : ingested[e] > 0 \/ e \in ToSet(batch[f])
<1>0. /\ Typed /\ Controlled /\ Written /\ Delivered
      /\ \A f \in Flushers : D(f)
      /\ \A e \in Events : ingested[e] > 0 => ingested'[e] > 0
  BY IngestedGrows DEF IInv, Delivered
<1>a. Typed /\ Controlled
  BY DEF IInv
<1>1. \A f \in Flushers : in[f] \in Files \cup {NoFile} /\ offset[f] \in Nat
  BY <1>a DEF Typed
<1>2. ASSUME NEW f \in Flushers, D(f), in[f] \in Files
      PROVE  \A j \in 1 .. offset[f] :
                j \in 1 .. Len(lines[in[f]]) /\ lines[in[f]][j].events \subseteq Events
  <2>1. Len(lines[in[f]]) \in Nat
    BY <1>0, <1>2, LinesTyped
  <2>2. \A j \in 1 .. offset[f] :
           j \in 1 .. Len(lines[in[f]]) /\ lines[in[f]][j] \in Line
    <3>1. offset[f] \in Nat /\ offset[f] <= Len(lines[in[f]])
      BY <1>1, <1>2, FilesFacts
    <3>2. \A j \in 1 .. offset[f] : j \in 1 .. Len(lines[in[f]])
      BY <2>1, <3>1
    <3> QED BY <1>0, <1>2, <3>2, LinesTyped
  <2> QED BY <2>2 DEF Line
<1>3. ASSUME UNCHANGED flusher
      PROVE  Delivered'
  <2> SUFFICES ASSUME NEW f \in Flushers, in[f] # NoFile PROVE D(f)'
    BY <1>3 DEF Delivered, flusher
  <2>1. in[f] \in Files /\ D(f) /\ offset[f] \in Nat
    BY <1>0, <1>1
  <2>2. CASE UNCHANGED lines
    BY <1>0, <1>2, <1>3, <2>1, <2>2 DEF flusher
  <2>3. ASSUME NEW e \in Events, NEW l \in {Whole(e), Torn}, WritesLine(e, l) PROVE D(f)'
    <3>1. /\ Len(lines[in[f]]) \in Nat /\ Len(lines'[in[f]]) \in Nat
          /\ Len(lines[in[f]]) <= Len(lines'[in[f]])
          /\ \A j \in 1 .. Len(lines[in[f]]) :
                lines[in[f]][j].kind # "torn" => lines'[in[f]][j] = lines[in[f]][j]
      BY <1>0, <2>1, <2>3, WritesFacts
    <3>2. \A j \in 1 .. offset[f] : lines'[in[f]][j] = lines[in[f]][j]
      BY <1>2, <2>1, <3>1, FilesFacts
    <3>3. offset[f] <= Len(lines'[in[f]])
      BY <2>1, <3>1, FilesFacts
    <3>4. UNCHANGED <<in, offset, batch>>
      BY <1>3 DEF flusher
    <3> QED BY <1>0, <1>2, <2>1, <3>2, <3>3, <3>4, FilesFacts
  <2> QED BY <2>2, <2>3, LinesSteps
<1>4. ASSUME NEW f \in Flushers, D(f)', UNCHANGED lines,
             \A g \in Flushers \ {f} :
                 in'[g] = in[g] /\ offset'[g] = offset[g] /\ batch'[g] = batch[g]
      PROVE  Delivered'
  <2> SUFFICES ASSUME NEW g \in Flushers \ {f}, in[g] # NoFile PROVE D(g)'
    BY <1>4 DEF Delivered
  <2>1. in[g] \in Files /\ D(g)
    BY <1>0, <1>1
  <2> QED BY <1>0, <1>2, <1>4, <2>1
<1>5. ASSUME NEW f \in Flushers, Flush(f) PROVE Delivered'
  <2>1. UNCHANGED lines /\ \A g \in Flushers \ {f} :
            in'[g] = in[g] /\ offset'[g] = offset[g] /\ batch'[g] = batch[g]
    BY <1>0, <1>5 DEF Flush, Glob, OpenToRead, Read, EndOfFile, Accepted, Refused, TimedOut, Unlink,
              UnlinkFails, Dies, Done, Abandon, To, files, Typed
  <2>a. ASSUME D(f)' PROVE Delivered'
    BY <1>4, <2>1, <2>a
  <2>2. ASSUME in'[f] = NoFile \/ (offset'[f] = 0 /\ in'[f] \in Files) PROVE Delivered'
    <3>1. in'[f] \in Files => Len(lines'[in'[f]]) \in Nat
      BY <1>0, <2>1, LinesTyped
    <3> QED BY <2>a, <2>2, <3>1
  <2>3. CASE Glob(f)
    <3>1. in'[f] = NoFile \/ (offset'[f] = 0 /\ in'[f] \in Files)
      BY <1>a, <2>3 DEF Glob, Controlled
    <3> QED BY <2>2, <3>1
  <2>4. CASE OpenToRead(f)
    <3>1. in'[f] = NoFile \/ (offset'[f] = 0 /\ in'[f] \in Files)
      <4>1. CASE Stops(f)
        BY <1>a, <4>1 DEF Stops, Abandon, Typed
      <4>2. CASE OpensFile(f)
        <5>1. in' = [in EXCEPT ![f] = dir[Head(todo[f])]] /\ dir[Head(todo[f])] \in Files
              /\ offset' = [offset EXCEPT ![f] = 0]
          BY <4>2 DEF OpensFile
        <5> QED BY <1>a, <5>1 DEF Typed
      <4> QED BY <1>0, <2>4, <4>1, <4>2, OpenSteps
    <3> QED BY <2>2, <3>1
  <2>5. CASE Stops(f)
    <3>1. in'[f] = NoFile \/ (offset'[f] = 0 /\ in'[f] \in Files)
      BY <1>a, <2>5 DEF Stops, Abandon, Typed
    <3> QED BY <2>2, <3>1
  <2>6. ASSUME NEW e \in Events, ReadsLine(f, e) PROVE D(f)'
    <3>1. /\ in[f] \in Files /\ in'[f] = in[f] /\ offset'[f] = offset[f] + 1
          /\ batch'[f] = Append(batch[f], e)
          /\ offset[f] + 1 \in 1 .. Len(lines[in[f]]) /\ offset[f] \in Nat
          /\ lines[in[f]][offset[f] + 1].kind = "whole"
          /\ lines[in[f]][offset[f] + 1].events = {e}
      BY <1>0, <2>6 DEF ReadsLine, Typed
    <3>2. ToSet(Append(batch[f], e)) = ToSet(batch[f]) \cup {e}
      BY <1>0, AppendedFacts DEF Typed
    <3>3. D(f)
      BY <1>0
    <3>4. \A j \in 1 .. offset[f] + 1 : j \in 1 .. offset[f] \/ j = offset[f] + 1
      BY <3>1
    <3>5. \A j \in 1 .. offset[f] + 1 :
             /\ lines[in[f]][j].kind = "whole"
             /\ \A d \in lines[in[f]][j].events : ingested[d] > 0 \/ d \in ToSet(batch[f]) \cup {e}
      BY <3>1, <3>3, <3>4, FilesFacts
    <3>6. Len(lines[in[f]]) \in Nat /\ offset[f] + 1 <= Len(lines[in[f]])
      BY <1>0, <3>1, LinesTyped
    <3>7. UNCHANGED ingested
      BY <2>6 DEF ReadsLine
    <3> QED BY <2>1, <3>1, <3>2, <3>5, <3>6, <3>7
  <2>7. CASE Read(f)
    BY <1>0, <2>a, <2>5, <2>6, <2>7, ReadSteps
  <2>8. CASE EndOfFile(f)
    <3>1. UNCHANGED <<lines, in, offset, batch, ingested>>
      BY <2>8 DEF EndOfFile, files
    <3> QED BY <1>0, <2>a, <3>1
  <2>9. CASE Accepted(f)
    <3>1. UNCHANGED <<lines, in, offset>> /\ batch'[f] = <<>> /\ Ingest(batch[f])
      BY <1>0, <2>9 DEF Accepted, files, Typed
    <3>2. \A e \in Events : e \in ToSet(batch[f]) => ingested'[e] > 0
      BY <1>0, <3>1, IngestFacts
    <3>3. in[f] # NoFile => in[f] \in Files /\ D(f)
      BY <1>0, <1>1
    <3>4. in[f] # NoFile => \A j \in 1 .. offset[f] : lines[in[f]][j].events \subseteq Events
      BY <1>2, <3>3
    <3>5. in[f] # NoFile =>
             \A j \in 1 .. offset[f] : \A e \in lines[in[f]][j].events : ingested'[e] > 0
      BY <1>0, <3>2, <3>3, <3>4
    <3> HIDE DEF D
    <3>6. in[f] # NoFile =>
             /\ offset[f] <= Len(lines[in[f]])
             /\ \A j \in 1 .. offset[f] : lines[in[f]][j].kind = "whole"
      BY <3>3 DEF D
    <3>7. D(f)'
      BY <3>1, <3>5, <3>6 DEF D
    <3> QED BY <2>a, <3>7
  <2>10. CASE Refused(f) \/ TimedOut(f) \/ Dies(f)
    <3>1. in'[f] = NoFile \/ (offset'[f] = 0 /\ in'[f] \in Files)
      BY <1>a, <2>10 DEF Refused, TimedOut, Dies, Abandon, Typed
    <3> QED BY <2>2, <3>1
  <2>11. CASE Unlink(f) \/ UnlinkFails(f)
    <3>1. in'[f] = NoFile \/ (offset'[f] = 0 /\ in'[f] \in Files)
      BY <1>a, <2>11 DEF Unlink, UnlinkFails, Done, Typed
    <3> QED BY <2>2, <3>1
  <2> QED BY <1>5, <2>3, <2>4, <2>7, <2>8, <2>9, <2>10, <2>11 DEF Flush
<1>6. UNCHANGED flusher \/ \E f \in Flushers : Flush(f)
  BY DEF Next, Exists, Appending, Size, OpenToAppend, Write, WriteFails, Arrives, vars
<1> QED BY <1>3, <1>5, <1>6

(* A file is left for each append that is yet to open one. *)
LEMMA UsedShrinks ==
    ASSUME IInv,
           \A i \in Files : lines'[i] # <<>> => lines[i] # <<>> \/ i \in Range(out),
           \A n \in Names : dir'[n] \in Range(dir) \cup {NoFile},
           \A e \in Events : out'[e] \in Range(out) \cup {NoFile},
           \A f \in Flushers : in'[f] \in Range(dir) \cup Range(in) \cup {NoFile},
           Typed', Opened \subseteq Opened'
    PROVE  FilesLeft'
<1>1. IsFiniteSet(Events) /\ IsFiniteSet(Files) /\ NoFile \notin Files
  BY FilesFacts
<1>2. Used' \subseteq Used
  <2> SUFFICES ASSUME NEW i \in Files, i \in Used' PROVE i \in Used
    BY DEF Used
  <2>1. /\ DOMAIN dir' = Names /\ DOMAIN out' = Events /\ DOMAIN in' = Flushers
    BY DEF Typed
  <2>2. \/ lines'[i] # <<>>
        \/ \E n \in Names : dir'[n] = i
        \/ \E e \in Events : out'[e] = i
        \/ \E f \in Flushers : in'[f] = i
    BY <2>1 DEF Used, Range
  <2>3. lines[i] # <<>> \/ i \in Range(dir) \cup Range(out) \cup Range(in)
    BY <1>1, <2>2
  <2> QED BY <2>3 DEF Used
<1>3. Cardinality(Used') <= Cardinality(Used) /\ Cardinality(Used) \in Nat
      /\ Cardinality(Used') \in Nat
  BY <1>1, <1>2, FS_Subset, FS_CardinalityType DEF Used
<1>4. Cardinality(Opened) <= Cardinality(Opened') /\ Cardinality(Opened) \in Nat
      /\ Cardinality(Opened') \in Nat
  <2>1. IsFiniteSet(Opened')
    BY <1>1, FS_Subset DEF Opened
  <2> QED BY <2>1, FS_Subset, FS_CardinalityType
<1>5. Cardinality(Used) <= Cardinality(Opened)
  BY DEF IInv, FilesLeft
<1> QED BY <1>3, <1>4, <1>5 DEF FilesLeft

LEMMA OpenedGrows ==
    ASSUME IInv, [Next]_vars
    PROVE  \A e \in Events : /\ apc[e] \in {"writing", "appended", "raised"} =>
                                    apc'[e] \in {"writing", "appended", "raised"}
                             /\ apc[e] = "appended" => apc'[e] = "appended"
<1>0. apc \in [Events -> {"new", "sizing", "opening", "writing", "appended", "raised"}]
  BY DEF IInv, Typed
<1>1. ASSUME NEW d \in Events, Exists(d) \/ Appending(d)
      PROVE  \A e \in Events : /\ apc[e] \in {"writing", "appended", "raised"} =>
                                      apc'[e] \in {"writing", "appended", "raised"}
                               /\ apc[e] = "appended" => apc'[e] = "appended"
  BY <1>0, <1>1 DEF Exists, Appending, Size, OpenToAppend, Write, WriteFails, Close
<1>2. ASSUME NEW f \in Flushers, Flush(f) PROVE UNCHANGED apc
  BY <1>2 DEF Flush, Glob, OpenToRead, Read, EndOfFile, Accepted, Refused, TimedOut, Unlink,
              UnlinkFails, Dies, appender
<1>3. ASSUME Arrives \/ UNCHANGED vars PROVE UNCHANGED apc
  BY <1>3 DEF Arrives, vars, appender
<1> QED BY <1>1, <1>2, <1>3 DEF Next

LEMMA FilesLeftKept ==
    ASSUME IInv, [Next]_vars
    PROVE  FilesLeft'
<1>a. /\ Typed /\ Controlled /\ Written /\ FilesLeft /\ Typed' /\ NoFile \notin Files
      /\ IsFiniteSet(Events) /\ IsFiniteSet(Files)
  BY FilesFacts, TypedKept DEF IInv
<1>b. Opened \subseteq Opened'
  BY OpenedGrows DEF Opened
<1>c. DOMAIN dir = Names /\ DOMAIN out = Events /\ DOMAIN in = Flushers
  BY <1>a DEF Typed
<1>d. /\ \A n \in Names : dir[n] \in Range(dir)
      /\ \A e \in Events : out[e] \in Range(out)
      /\ \A f \in Flushers : in[f] \in Range(in)
  BY <1>c DEF Range
<1>1. ASSUME NEW e \in Events, Exists(e) \/ Size(e) PROVE FilesLeft'
  <2>1. UNCHANGED <<lines, dir, out, in>>
    BY <1>1 DEF Exists, Size, files, flusher
  <2> QED BY <1>a, <1>b, <1>d, <2>1, UsedShrinks
<1>2. ASSUME NEW e \in Events, OpenToAppend(e) PROVE FilesLeft'
  <2>1. PICK i \in Files : dir' = [dir EXCEPT ![path[e]] = i] /\ out' = [out EXCEPT ![e] = i]
    <3>1. NewFile \in Files
      BY <1>a, <1>2, NewFileFacts DEF OpenToAppend
    <3>2. path[e] \in Names /\ (dir[path[e]] # NoFile => dir[path[e]] \in Files)
      BY <1>a DEF Typed
    <3> QED BY <1>2, <3>1, <3>2 DEF OpenToAppend
  <2>2. UNCHANGED <<lines, in>> /\ apc' = [apc EXCEPT ![e] = "writing"] /\ apc[e] = "opening"
    BY <1>2 DEF OpenToAppend, flusher
  <2>3. Used' \subseteq Used \cup {i}
    <3> SUFFICES ASSUME NEW j \in Files, j \in Used', j # i PROVE j \in Used
      BY DEF Used
    <3>1. DOMAIN dir' = Names /\ DOMAIN out' = Events
      BY <1>a DEF Typed
    <3>2. \/ lines[j] # <<>>
          \/ \E n \in Names : dir'[n] = j
          \/ \E d \in Events : out'[d] = j
          \/ j \in Range(in)
      BY <2>2, <3>1 DEF Used, Range
    <3>3. /\ \A n \in Names : dir'[n] = j => dir[n] = j
          /\ \A d \in Events : out'[d] = j => out[d] = j
      BY <1>a, <2>1 DEF Typed
    <3> QED BY <1>d, <3>2, <3>3 DEF Used
  <2>4. Opened' = Opened \cup {e} /\ e \notin Opened
    BY <1>a, <2>2 DEF Opened, Typed
  <2>5. IsFiniteSet(Used) /\ IsFiniteSet(Opened)
    BY <1>a, FS_Subset DEF Used, Opened
  <2>6. /\ IsFiniteSet(Used \cup {i}) /\ Cardinality(Used \cup {i}) <= Cardinality(Used) + 1
        /\ Cardinality(Used) \in Nat /\ Cardinality(Used \cup {i}) \in Nat
    <3>1. Cardinality(Used) \in Nat
      BY <2>5, FS_CardinalityType
    <3>2. /\ IsFiniteSet(Used \cup {i})
          /\ Cardinality(Used \cup {i}) =
                IF i \in Used THEN Cardinality(Used) ELSE Cardinality(Used) + 1
      BY <2>5, FS_AddElement
    <3> QED BY <3>1, <3>2
  <2>7. Cardinality(Used') <= Cardinality(Used \cup {i}) /\ Cardinality(Used') \in Nat
    BY <2>3, <2>6, FS_Subset, FS_CardinalityType
  <2>8. Cardinality(Opened') = Cardinality(Opened) + 1 /\ Cardinality(Opened) \in Nat
    BY <2>4, <2>5, FS_AddElement, FS_CardinalityType
  <2> QED BY <1>a, <2>6, <2>7, <2>8 DEF FilesLeft
<1>3. ASSUME NEW e \in Events, Write(e) \/ WriteFails(e) PROVE FilesLeft'
  <2>1. /\ UNCHANGED <<dir, in>> /\ out' = [out EXCEPT ![e] = NoFile]
        /\ apc[e] = "writing" /\ out[e] \in Files
    BY <1>a, <1>3 DEF Write, WriteFails, Close, flusher, Typed, Controlled
  <2>2. \A i \in Files : i # out[e] => lines'[i] = lines[i]
    BY <1>a, <1>3, <2>1 DEF Write, WriteFails, Typed
  <2>3. \A i \in Files : lines'[i] # <<>> => lines[i] # <<>> \/ i \in Range(out)
    BY <1>d, <2>2
  <2>4. \A d \in Events : out'[d] \in Range(out) \cup {NoFile}
    BY <1>a, <1>d, <2>1 DEF Typed
  <2> QED BY <1>a, <1>b, <1>d, <2>1, <2>3, <2>4, UsedShrinks
<1>4. ASSUME NEW f \in Flushers, Flush(f) PROVE FilesLeft'
  <2>1. UNCHANGED <<lines, out>>
    BY <1>4 DEF Flush, Glob, OpenToRead, Read, EndOfFile, Accepted, Refused, TimedOut, Unlink,
              UnlinkFails, Dies, files, appender
  <2>2. \A n \in Names : dir'[n] \in Range(dir) \cup {NoFile}
    <3>1. CASE Unlink(f)
      BY <1>a, <1>d, <3>1 DEF Unlink, Typed
    <3>2. CASE ~Unlink(f)
      BY <1>4, <1>d, <3>2 DEF Flush, Glob, OpenToRead, Read, EndOfFile, Accepted, Refused, TimedOut,
              UnlinkFails, Dies, files
    <3> QED BY <3>1, <3>2
  <2>3. \A g \in Flushers : in'[g] \in Range(dir) \cup Range(in) \cup {NoFile}
    <3>1. CASE OpenToRead(f)
      <4>1. CASE Stops(f)
        BY <1>a, <1>d, <4>1 DEF Stops, Abandon, Typed
      <4>2. CASE OpensFile(f)
        <5>1. Head(todo[f]) \in Names
          <6>1. todo[f] \in Seq(Names)
            BY <1>a DEF Typed
          <6>2. todo[f] # <<>>
            BY <1>a, <3>1 DEF OpenToRead, Controlled
          <6> QED BY <6>1, <6>2
        <5>2. in' = [in EXCEPT ![f] = dir[Head(todo[f])]]
          BY <4>2 DEF OpensFile
        <5> QED BY <1>a, <1>d, <5>1, <5>2 DEF Typed
      <4> QED BY <1>a, <3>1, <4>1, <4>2, OpenSteps
    <3>2. CASE Read(f)
      BY <1>a, <1>d, <3>2, ReadSteps DEF Stops, Abandon, ReadsLine, Typed
    <3>3. CASE Glob(f) \/ EndOfFile(f) \/ Accepted(f)
      BY <1>d, <3>3 DEF Glob, EndOfFile, Accepted
    <3>4. CASE Refused(f) \/ TimedOut(f) \/ Dies(f)
      BY <1>a, <1>d, <3>4 DEF Refused, TimedOut, Dies, Abandon, Typed
    <3>5. CASE Unlink(f) \/ UnlinkFails(f)
      BY <1>a, <1>d, <3>5 DEF Unlink, UnlinkFails, Done, Typed
    <3> QED BY <1>4, <3>1, <3>2, <3>3, <3>4, <3>5 DEF Flush
  <2> QED BY <1>a, <1>b, <1>d, <2>1, <2>2, <2>3, UsedShrinks
<1>5. ASSUME Arrives \/ UNCHANGED vars PROVE FilesLeft'
  <2>1. UNCHANGED <<lines, dir, out, in>>
    BY <1>5 DEF Arrives, vars, files, appender, flusher
  <2> QED BY <1>a, <1>b, <1>d, <2>1, UsedShrinks
<1> QED BY <1>1, <1>2, <1>3, <1>4, <1>5 DEF Next, Appending

(* One process at a time: only Exists and Glob start one. *)
LEMMA SoloKept ==
    ASSUME IInv, [Next]_vars
    PROVE  Solo'
<1>a. Typed /\ Controlled /\ Written /\ Solo
  BY DEF IInv
<1> DEFINE Appends(e) == apc'[e] \in {"sizing", "opening", "writing"} => Active(e)
           Flushes(f) == fpc'[f] # "idle" => fpc[f] # "idle"
<1>b. UNCHANGED alone
  BY DEF Next, Exists, Appending, Size, OpenToAppend, Write, WriteFails, Flush, Glob, OpenToRead,
         Read, EndOfFile, Accepted, Refused, TimedOut, Unlink, UnlinkFails, Dies, Arrives, vars
<1>1. ASSUME \A e \in Events : Appends(e), \A f \in Flushers : Flushes(f) PROVE Solo'
  BY <1>a, <1>b, <1>1 DEF Solo, Active
<1>2. ASSUME NEW e \in Events, Exists(e) PROVE Solo'
  <2>1. alone => /\ \A d \in Events : ~Active(d)
                 /\ \A f \in Flushers : fpc'[f] = "idle"
    BY <1>2 DEF Exists, Free, Active, flusher
  <2>2. \A d \in Events : d # e => apc'[d] = apc[d]
    BY <1>a, <1>2 DEF Exists, Typed
  <2> QED BY <1>b, <2>1, <2>2 DEF Solo, Active
<1>3. ASSUME NEW e \in Events, Appending(e) PROVE Solo'
  <2>1. \A d \in Events : Appends(d)
    BY <1>a, <1>3 DEF Appending, Size, OpenToAppend, Write, WriteFails, Close, Active, Typed
  <2>2. UNCHANGED fpc
    BY <1>3 DEF Appending, Size, OpenToAppend, Write, WriteFails, flusher
  <2> QED BY <1>1, <2>1, <2>2
<1>4. ASSUME NEW f \in Flushers, Glob(f) PROVE Solo'
  <2>1. alone => /\ \A d \in Events : ~Active(d)
                 /\ \A g \in Flushers : fpc[g] = "idle"
    BY <1>4 DEF Glob, Free, Active
  <2>2. \A g \in Flushers : g # f => fpc'[g] = fpc[g]
    BY <1>a, <1>4 DEF Glob, To, Typed
  <2>3. UNCHANGED apc
    BY <1>4 DEF Glob, appender
  <2> QED BY <1>b, <2>1, <2>2, <2>3 DEF Solo, Active
<1>5. ASSUME NEW f \in Flushers, Flush(f), ~Glob(f) PROVE Solo'
  <2>1. \A g \in Flushers : Flushes(g)
    BY <1>a, <1>5 DEF Flush, OpenToRead, Read, EndOfFile, Accepted, Sending, Refused, TimedOut,
                Unlink, UnlinkFails, Dies, Done, Abandon, To, Typed
  <2>2. UNCHANGED apc
    BY <1>5 DEF Flush, OpenToRead, Read, EndOfFile, Accepted, Refused, TimedOut,
                Unlink, UnlinkFails, Dies, appender
  <2> QED BY <1>1, <2>1, <2>2 DEF Active
<1>6. ASSUME Arrives \/ UNCHANGED vars PROVE Solo'
  BY <1>1, <1>6 DEF Arrives, vars, appender, flusher, Active
<1> QED BY <1>2, <1>3, <1>4, <1>5, <1>6 DEF Next

(* On a host that runs one process at a time, a process works on a file    *)
(* that has its name.                                                      *)
LEMMA AloneFacts ==
    ASSUME Typed, Controlled, Solo, alone
    PROVE  /\ \A e \in Events : Active(e) => \A f \in Flushers : fpc[f] = "idle" /\ in[f] = NoFile
           /\ \A f \in Flushers : fpc[f] # "idle" => \A e \in Events : ~Active(e)
           /\ \A f, g \in Flushers : fpc[f] # "idle" /\ g # f => fpc[g] = "idle" /\ in[g] = NoFile
BY DEF Typed, Controlled, Solo

LEMMA HeldKept ==
    ASSUME IInv, [Next]_vars
    PROVE  Held'
<1>a. Typed /\ Controlled /\ Written /\ FilesLeft /\ Solo /\ Held /\ NoFile \notin Files
  BY FilesFacts DEF IInv
<1>b. UNCHANGED alone
  BY DEF Next, Exists, Appending, Size, OpenToAppend, Write, WriteFails, Flush, Glob, OpenToRead,
         Read, EndOfFile, Accepted, Refused, TimedOut, Unlink, UnlinkFails, Dies, Arrives, vars
<1> SUFFICES ASSUME alone PROVE Held'
  BY <1>b DEF Held
<1> DEFINE W(e) == apc[e] = "writing" => dir[path[e]] = out[e]
           F(f) == /\ in[f] # NoFile => dir[Head(todo[f])] = in[f]
                   /\ fpc[f] \in {"finishing", "unlinking"} => offset[f] = Len(lines[in[f]])
<1>c. (\A e \in Events : W(e)) /\ (\A f \in Flushers : F(f))
  BY <1>a DEF Held
<1>d. ASSUME \A e \in Events : W(e)', \A f \in Flushers : F(f)' PROVE Held'
  BY <1>d DEF Held
<1>1. ASSUME NEW e \in Events, Active(e), UNCHANGED flusher, W(e)',
             \A d \in Events \ {e} : apc'[d] = apc[d]
      PROVE  Held'
  <2>1. \A d \in Events \ {e} : ~Active(d)
    BY <1>a, <1>1 DEF Solo
  <2>2. \A d \in Events : W(d)'
    BY <1>1, <2>1 DEF Active
  <2>3. \A f \in Flushers : F(f)'
    BY <1>a, <1>1, AloneFacts DEF flusher
  <2> QED BY <1>d, <2>2, <2>3
<1>2. ASSUME NEW e \in Events, Exists(e) PROVE Held'
  <2>1. UNCHANGED <<files, out, flusher>> /\ apc'[e] # "writing"
        /\ \A d \in Events \ {e} : apc'[d] = apc[d] /\ path'[d] = path[d]
    BY <1>a, <1>2 DEF Exists, Typed
  <2>2. \A d \in Events : W(d)'
    BY <1>c, <2>1 DEF files
  <2>3. \A f \in Flushers : F(f)'
    BY <1>c, <2>1 DEF files, flusher
  <2> QED BY <1>d, <2>2, <2>3
<1>3. ASSUME NEW e \in Events, Size(e) PROVE Held'
  <2>1. /\ Active(e) /\ UNCHANGED flusher /\ apc'[e] # "writing"
        /\ \A d \in Events \ {e} : apc'[d] = apc[d]
    BY <1>a, <1>3 DEF Size, Active, Typed
  <2> QED BY <1>1, <2>1
<1>4. ASSUME NEW e \in Events, OpenToAppend(e) PROVE Held'
  <2>1. PICK i : dir' = [dir EXCEPT ![path[e]] = i] /\ out' = [out EXCEPT ![e] = i]
    BY <1>4 DEF OpenToAppend
  <2>2. /\ Active(e) /\ UNCHANGED <<path, flusher>> /\ apc'[e] = "writing"
        /\ \A d \in Events \ {e} : apc'[d] = apc[d]
    BY <1>a, <1>4 DEF OpenToAppend, Active, Typed
  <2>3. W(e)'
    BY <1>a, <2>1, <2>2 DEF Typed
  <2> QED BY <1>1, <2>2, <2>3
<1>5. ASSUME NEW e \in Events, Write(e) \/ WriteFails(e) PROVE Held'
  <2>1. /\ Active(e) /\ UNCHANGED flusher /\ apc'[e] # "writing"
        /\ \A d \in Events \ {e} : apc'[d] = apc[d]
    BY <1>a, <1>5 DEF Write, WriteFails, Close, Active, Typed
  <2> QED BY <1>1, <2>1
<1>6. ASSUME NEW f \in Flushers, fpc[f] # "idle", UNCHANGED appender, F(f)',
             \A g \in Flushers \ {f} : in'[g] = in[g] /\ fpc'[g] = fpc[g]
      PROVE  Held'
  <2>1. \A e \in Events : W(e)'
    BY <1>a, <1>6, AloneFacts DEF Active, appender
  <2>2. \A g \in Flushers : F(g)'
    BY <1>a, <1>6, AloneFacts
  <2> QED BY <1>d, <2>1, <2>2
<1>7. ASSUME NEW f \in Flushers, Glob(f) PROVE Held'
  <2>1. /\ UNCHANGED <<files, appender, in, offset>> /\ fpc'[f] = "opening" /\ in[f] = NoFile
        /\ \A g \in Flushers \ {f} : fpc'[g] = fpc[g] /\ todo'[g] = todo[g]
    BY <1>a, <1>7 DEF Glob, To, Typed, Controlled
  <2>2. \A e \in Events : W(e)'
    BY <1>c, <2>1 DEF files, appender
  <2>3. \A g \in Flushers : F(g)'
    BY <1>c, <2>1 DEF files
  <2> QED BY <1>d, <2>2, <2>3
<1>8. ASSUME NEW f \in Flushers, Flush(f), ~Glob(f) PROVE Held'
  <2>a. fpc[f] # "idle" /\ UNCHANGED appender
    BY <1>8 DEF Flush, OpenToRead, Read, EndOfFile, Accepted, Sending, Refused, TimedOut,
                Unlink, UnlinkFails, Dies
  <2>b. \A g \in Flushers \ {f} : in'[g] = in[g] /\ fpc'[g] = fpc[g]
    BY <1>a, <1>8 DEF Flush, OpenToRead, Read, EndOfFile, Accepted, Refused, TimedOut,
                Unlink, UnlinkFails, Dies, Done, Abandon, To, Typed
  <2>c. ASSUME F(f)' PROVE Held'
    BY <1>6, <2>a, <2>b, <2>c
  <2>d. ASSUME in'[f] = NoFile, fpc'[f] \in {"idle", "opening"} PROVE Held'
    BY <2>c, <2>d
  <2>1. CASE OpenToRead(f)
    <3>1. CASE Stops(f)
      BY <1>a, <2>d, <3>1 DEF Stops, Abandon, To, Typed
    <3>2. CASE OpensFile(f)
      <4>1. UNCHANGED <<dir, todo>> /\ in'[f] = dir[Head(todo[f])] /\ fpc'[f] = "reading"
        BY <1>a, <3>2 DEF OpensFile, To, files, Typed
      <4> QED BY <2>c, <4>1
    <3> QED BY <1>a, <2>1, <3>1, <3>2, OpenSteps
  <2>2. CASE Read(f)
    <3>1. CASE Stops(f)
      BY <1>a, <2>d, <3>1 DEF Stops, Abandon, To, Typed
    <3>2. ASSUME NEW e \in Events, ReadsLine(f, e) PROVE Held'
      <4>1. UNCHANGED <<dir, todo, in, fpc>> /\ fpc[f] = "reading"
        BY <3>2 DEF ReadsLine, files
      <4> QED BY <1>c, <2>c, <4>1
    <3> QED BY <1>a, <2>2, <3>1, <3>2, ReadSteps
  <2>3. CASE EndOfFile(f)
    <3>1. UNCHANGED <<dir, lines, todo, in, offset>> /\ offset[f] = Len(lines[in[f]])
      BY <2>3 DEF EndOfFile, files
    <3> QED BY <1>c, <2>c, <3>1
  <2>4. CASE Accepted(f)
    <3>1. UNCHANGED <<dir, lines, todo, in, offset>>
          /\ fpc'[f] = IF fpc[f] = "finishing" THEN "unlinking" ELSE "reading"
      BY <1>a, <2>4 DEF Accepted, To, files, Typed
    <3> QED BY <1>c, <2>c, <3>1
  <2>5. CASE Refused(f) \/ TimedOut(f) \/ Dies(f)
    BY <1>a, <2>d, <2>5 DEF Refused, TimedOut, Dies, Abandon, To, Typed
  <2>6. CASE Unlink(f) \/ UnlinkFails(f)
    BY <1>a, <2>d, <2>6 DEF Unlink, UnlinkFails, Done, To, Typed
  <2> QED BY <1>8, <2>1, <2>2, <2>3, <2>4, <2>5, <2>6 DEF Flush
<1>9. ASSUME Arrives \/ UNCHANGED vars PROVE Held'
  <2>1. UNCHANGED <<files, appender, flusher>>
    BY <1>9 DEF Arrives, vars
  <2> QED BY <1>c, <1>d, <2>1 DEF files, appender, flusher
<1> QED BY <1>2, <1>3, <1>4, <1>5, <1>7, <1>8, <1>9 DEF Next, Appending

(* No event is on two lines, no file has two names, and what a flush has   *)
(* in its batch is on the lines it has read.                               *)
LEMMA OnceKept ==
    ASSUME IInv, [Next]_vars
    PROVE  Once'
<1> DEFINE Later  == \A i \in Files : \A j \in Nat : \A e \in Events :
                         IsOn(e, i, j) => apc[e] = "appended"
           Unique == \A i, k \in Files : \A j, l \in Nat : \A e \in Events :
                         IsOn(e, i, j) /\ IsOn(e, k, l) => i = k /\ j = l
           OneName == \A m, n \in Names : dir[m] = dir[n] /\ dir[m] # NoFile => m = n
           FromFile(f) == \A e \in ToSet(batch[f]) :
                              \E j \in 1 .. offset[f] : e \in lines[in[f]][j].events
<1>a. /\ Typed /\ Controlled /\ Written /\ Delivered /\ FilesLeft /\ Once
      /\ NoFile \notin Files /\ ToSet(<<>>) = {}
  <2>1. ToSet(<<>>) = {}
    BY DEF ToSet
  <2> QED BY <2>1, FilesFacts DEF IInv
<1>b. Later /\ Unique /\ OneName /\ \A f \in Flushers : FromFile(f)
  BY <1>a DEF Once
<1>1. Later' /\ Unique'
  <2>a. \A e \in Events : apc[e] = "appended" => apc'[e] = "appended"
    BY OpenedGrows
  <2>1. CASE UNCHANGED lines
    BY <1>b, <2>a, <2>1 DEF IsOn
  <2>2. ASSUME NEW e \in Events, WritesLine(e, Whole(e)), Close(e, "appended")
        PROVE  Later' /\ Unique'
    <3>1. apc'[e] = "appended" /\ apc[e] # "appended"
      BY <1>a, <2>2 DEF WritesLine, Close, Typed
    <3>2. \A d \in Events : \A i \in Files : \A j \in Nat :
             IsOn(d, i, j)' => \/ IsOn(d, i, j)
                               \/ d = e /\ i = out[e] /\ j = Len(lines'[i])
      BY <1>a, <2>2, OnFacts
    <3>3. \A i \in Files : \A j \in Nat : ~IsOn(e, i, j)
      BY <1>b, <3>1
    <3>4. Later'
      BY <1>b, <2>a, <3>1, <3>2
    <3>5. Unique'
      BY <1>b, <3>2, <3>3
    <3> QED BY <3>4, <3>5
  <2>3. ASSUME NEW e \in Events, WritesLine(e, Torn), Close(e, "raised")
        PROVE  Later' /\ Unique'
    <3>1. \A d \in Events : \A i \in Files : \A j \in Nat :
             IsOn(d, i, j)' => IsOn(d, i, j)
      <4>1. Torn # Whole(e)
        BY DEF Torn, Whole
      <4> QED BY <1>a, <2>3, <4>1, OnFacts
    <3> QED BY <1>b, <2>a, <3>1
  <2> QED BY <2>1, <2>2, <2>3, LinesSteps
<1>2. OneName'
  <2>1. ASSUME NEW e \in Events, OpenToAppend(e) PROVE OneName'
    <3> DEFINE i == IF dir[path[e]] # NoFile THEN dir[path[e]] ELSE NewFile
    <3>1. dir' = [dir EXCEPT ![path[e]] = i] /\ apc[e] = "opening"
      BY <2>1 DEF OpenToAppend
    <3>2. \A n \in Names : dir[n] = i => n = path[e]
      <4>1. path[e] \in Names /\ \A n \in Names : dir[n] \in Range(dir)
        BY <1>a DEF Typed, Range
      <4>2. CASE dir[path[e]] # NoFile
        BY <1>b, <4>1, <4>2
      <4>3. CASE dir[path[e]] = NoFile
        BY <1>a, <3>1, <4>1, <4>3, NewFileFacts
      <4> QED BY <4>2, <4>3
    <3> HIDE DEF i
    <3>3. \A n \in Names : dir'[n] = IF n = path[e] THEN i ELSE dir[n]
      BY <1>a, <3>1 DEF Typed
    <3> QED BY <1>b, <3>2, <3>3
  <2>2. ASSUME NEW f \in Flushers, Unlink(f) PROVE OneName'
    <3>1. \A n \in Names : dir'[n] \in {dir[n], NoFile}
      BY <1>a, <2>2 DEF Unlink, Typed
    <3> QED BY <1>b, <3>1
  <2>3. UNCHANGED dir \/ (\E e \in Events : OpenToAppend(e)) \/ (\E f \in Flushers : Unlink(f))
    BY DEF Next, Exists, Appending, Size, Write, WriteFails, Flush, Glob, OpenToRead,
           Read, EndOfFile, Accepted, Refused, TimedOut, UnlinkFails, Dies, Arrives, vars, files
  <2> QED BY <1>b, <2>1, <2>2, <2>3
<1>3. ASSUME NEW f \in Flushers PROVE FromFile(f)'
  <2>a. offset[f] \in Nat /\ in[f] \in Files \cup {NoFile} /\ batch[f] \in Seq(Events)
    BY <1>a DEF Typed
  <2>1. CASE batch'[f] = <<>>
    BY <1>a, <2>1
  <2>2. CASE UNCHANGED <<lines, in, offset, batch>>
    BY <1>b, <2>2
  <2>3. ASSUME NEW e \in Events, NEW l \in {Whole(e), Torn}, WritesLine(e, l),
               batch[f] # <<>>
        PROVE  FromFile(f)'
    <3>1. in[f] \in Files
      BY <1>a, <2>a, <2>3 DEF Controlled, Typed
    <3>2. /\ Len(lines[in[f]]) \in Nat /\ offset[f] <= Len(lines[in[f]])
          /\ \A j \in 1 .. offset[f] : lines[in[f]][j].kind = "whole"
      BY <1>a, <3>1, LinesTyped DEF Delivered
    <3>3. \A j \in 1 .. Len(lines[in[f]]) :
             lines[in[f]][j].kind # "torn" => lines'[in[f]][j] = lines[in[f]][j]
      BY <1>a, <2>3, <3>1, WritesFacts
    <3>4. \A j \in 1 .. offset[f] : lines'[in[f]][j] = lines[in[f]][j]
      BY <2>a, <3>2, <3>3
    <3>5. UNCHANGED <<in, offset, batch>>
      BY <2>3 DEF WritesLine, flusher
    <3> QED BY <1>b, <3>4, <3>5
  <2>4. ASSUME NEW e \in Events, ReadsLine(f, e) PROVE FromFile(f)'
    <3>1. /\ UNCHANGED <<lines, in>> /\ batch'[f] = Append(batch[f], e)
          /\ offset'[f] = offset[f] + 1
          /\ lines[in[f]][offset[f] + 1].events = {e}
      BY <1>a, <2>4 DEF ReadsLine, files, Typed
    <3>2. ToSet(Append(batch[f], e)) = ToSet(batch[f]) \cup {e}
      BY <2>a, AppendedFacts
    <3>3. offset[f] + 1 \in 1 .. offset[f] + 1 /\ 1 .. offset[f] \subseteq 1 .. offset[f] + 1
      BY <2>a
    <3> QED BY <1>b, <3>1, <3>2, <3>3
  <2>5. ASSUME NEW g \in Flushers, Flush(g), g # f PROVE FromFile(f)'
    <3>1. /\ UNCHANGED lines
          /\ in'[f] = in[f] /\ offset'[f] = offset[f] /\ batch'[f] = batch[f]
      BY <1>a, <2>5 DEF Flush, Glob, OpenToRead, Read, EndOfFile, Accepted, Refused, TimedOut, Unlink,
              UnlinkFails, Dies, Done, Abandon, To, files, Typed
    <3> QED BY <1>b, <3>1
  <2>6. ASSUME Flush(f) PROVE FromFile(f)'
    <3>1. CASE Glob(f)
      BY <1>b, <2>2, <3>1 DEF Glob, files
    <3>2. CASE OpenToRead(f)
      BY <1>a, <2>1, <3>2, OpenSteps DEF OpensFile, Stops, Abandon, Typed
    <3>3. CASE Read(f)
      BY <1>a, <2>1, <2>4, <3>3, ReadSteps DEF Stops, Abandon, Typed
    <3>4. CASE EndOfFile(f)
      BY <2>2, <3>4 DEF EndOfFile, files
    <3>5. CASE Accepted(f)
      BY <1>a, <2>1, <3>5 DEF Accepted, Typed
    <3>6. CASE Refused(f) \/ TimedOut(f) \/ Dies(f)
      BY <1>a, <2>1, <3>6 DEF Refused, TimedOut, Dies, Abandon, Typed
    <3>7. CASE Unlink(f) \/ UnlinkFails(f)
      BY <1>a, <2>1, <3>7 DEF Unlink, UnlinkFails, Done, Controlled
    <3> QED BY <2>6, <3>1, <3>2, <3>3, <3>4, <3>5, <3>6, <3>7 DEF Flush
  <2>7. CASE UNCHANGED flusher
    <3>1. UNCHANGED <<in, offset, batch>>
      BY <2>7 DEF flusher
    <3> QED BY <2>1, <2>2, <2>3, <3>1, LinesSteps
  <2>8. UNCHANGED flusher \/ \E g \in Flushers : Flush(g)
    BY DEF Next, Exists, Appending, Size, OpenToAppend, Write, WriteFails, Arrives, vars
  <2> QED BY <2>5, <2>6, <2>7, <2>8
<1> QED BY <1>1, <1>2, <1>3 DEF Once

(* The names under which an event is in the buffer, by the lines it is on. *)
LEMMA CarriesFacts ==
    ASSUME NEW s \in Seq(Line), NEW e \in Events
    PROVE  (\E l \in ToSet(s) : e \in l.events) <=> (\E j \in 1 .. Len(s) : e \in s[j].events)
BY ToSetFacts

LEMMA BufferedFacts ==
    ASSUME Typed, NEW e \in Events, NEW n \in Names
    PROVE  n \in BufferedAs(e) <=> dir[n] # NoFile /\ \E j \in Nat : IsOn(e, dir[n], j)
<1>1. dir[n] # NoFile => lines[dir[n]] \in Seq(Line)
  BY DEF Typed
<1>2. 1 .. Len(lines[dir[n]]) \subseteq Nat
  OBVIOUS
<1> QED BY <1>1, <1>2, CarriesFacts DEF BufferedAs, IsOn

LEMMA BufferedNextFacts ==
    ASSUME Typed', NEW e \in Events, NEW n \in Names
    PROVE  n \in BufferedAs(e)' <=> dir'[n] # NoFile /\ \E j \in Nat : IsOn(e, dir[n], j)'
<1>1. dir'[n] # NoFile => lines'[dir'[n]] \in Seq(Line)
  BY DEF Typed
<1>2. 1 .. Len(lines'[dir'[n]]) \subseteq Nat
  OBVIOUS
<1> QED BY <1>1, <1>2, CarriesFacts DEF BufferedAs, IsOn

(* A name keeps its file until it is unlinked, and an event is in the      *)
(* buffer until then.                                                      *)
LEMMA NameSteps ==
    ASSUME IInv, [Next]_vars, NEW n \in Names, dir[n] # NoFile
    PROVE  \/ dir'[n] = dir[n]
           \/ dir'[n] = NoFile /\ \E f \in Flushers : Unlink(f) /\ n = Head(todo[f])
<1>a. Typed
  BY DEF IInv
<1>1. ASSUME NEW d \in Events, OpenToAppend(d) PROVE dir'[n] = dir[n]
  BY <1>a, <1>1, FilesFacts DEF OpenToAppend, Typed
<1>2. ASSUME NEW f \in Flushers, Unlink(f)
      PROVE  dir'[n] = dir[n] \/ (dir'[n] = NoFile /\ n = Head(todo[f]))
  BY <1>a, <1>2 DEF Unlink, Typed
<1>3. UNCHANGED dir \/ (\E d \in Events : OpenToAppend(d)) \/ (\E f \in Flushers : Unlink(f))
  BY DEF Next, Exists, Appending, Size, Write, WriteFails, Flush, Glob, OpenToRead,
         Read, EndOfFile, Accepted, Refused, TimedOut, UnlinkFails, Dies, Arrives, vars, files
<1> QED BY <1>1, <1>2, <1>3

LEMMA BufferedStays ==
    ASSUME IInv, [Next]_vars, NEW e \in Events, NEW n \in BufferedAs(e), dir'[n] # NoFile
    PROVE  n \in BufferedAs(e)' /\ dir'[n] = dir[n]
<1>a. Typed /\ Written /\ Typed' /\ n \in Names
  BY TypedKept DEF IInv, BufferedAs
<1>1. dir[n] \in Files /\ \E j \in Nat : IsOn(e, dir[n], j)
  BY <1>a, BufferedFacts DEF Typed
<1>2. dir'[n] = dir[n]
  BY <1>a, <1>1, NameSteps, FilesFacts
<1>3. PICK i \in Files : i = dir[n]
  BY <1>1
<1>4. PICK j \in Nat : IsOn(e, i, j)
  BY <1>1, <1>3
<1>5. IsOn(e, i, j)'
  <2>1. CASE UNCHANGED lines
    BY <1>4, <2>1 DEF IsOn
  <2>2. ASSUME NEW d \in Events, NEW l \in {Whole(d), Torn}, WritesLine(d, l)
        PROVE  IsOn(e, i, j)'
    BY <1>a, <1>4, <2>2, OnFacts
  <2> QED BY <2>1, <2>2, LinesSteps
<1>6. IsOn(e, dir[n], j)'
  BY <1>2, <1>3, <1>5 DEF IsOn
<1> QED BY <1>a, <1>2, <1>6, BufferedNextFacts

(* On a host that runs one process at a time, no event is lost: the file   *)
(* a flush unlinks is the one it has read, to its end.                     *)
LEMMA DurableAloneKept ==
    ASSUME IInv, [Next]_vars
    PROVE  DurableAlone'
<1>a. /\ Typed /\ Controlled /\ Written /\ Delivered /\ FilesLeft /\ Solo /\ Held /\ Once
      /\ DurableAlone /\ Typed'
  BY TypedKept DEF IInv
<1>b. UNCHANGED alone
  BY DEF Next, Exists, Appending, Size, OpenToAppend, Write, WriteFails, Flush, Glob, OpenToRead,
         Read, EndOfFile, Accepted, Refused, TimedOut, Unlink, UnlinkFails, Dies, Arrives, vars
<1>c. \A d \in Events : ingested[d] > 0 => ingested'[d] > 0
  BY IngestedGrows
<1> SUFFICES ASSUME alone, NEW e \in Events, apc'[e] = "appended"
             PROVE  BufferedAs(e)' # {} \/ ingested'[e] > 0
  BY <1>b DEF DurableAlone, NoEventLost
<1>1. CASE apc[e] # "appended"
  <2>1. Write(e)
    <3>1. ASSUME NEW d \in Events, Exists(d) \/ Size(d) \/ OpenToAppend(d) \/ WriteFails(d)
          PROVE  FALSE
      BY <1>1, <1>a, <3>1 DEF Exists, Size, OpenToAppend, WriteFails, Close, Typed
    <3>2. ASSUME NEW d \in Events, Write(d), d # e PROVE FALSE
      BY <1>1, <1>a, <3>2 DEF Write, Close, Typed
    <3>3. ASSUME (\E f \in Flushers : Flush(f)) \/ Arrives \/ UNCHANGED vars PROVE FALSE
      BY <1>1, <3>3 DEF Flush, Glob, OpenToRead, Read, EndOfFile, Accepted, Refused, TimedOut,
                        Unlink, UnlinkFails, Dies, Arrives, vars, appender
    <3> QED BY <3>1, <3>2, <3>3 DEF Next, Appending
  <2>2. WritesLine(e, Whole(e))
    BY <1>a, <2>1 DEF Write, WritesLine, Whole, Typed, Controlled
  <2>3. PICK i \in Files : i = out[e] /\ dir[path[e]] = i
    BY <1>a, <2>2 DEF WritesLine, Held
  <2>4. Len(lines'[i]) \in Nat /\ Len(lines'[i]) >= 1 /\ lines'[i][Len(lines'[i])].events = {e}
    BY <1>a, <2>2, <2>3, WritesFacts DEF Whole
  <2>5. PICK j \in Nat : IsOn(e, i, j)'
    <3>1. PICK j \in Nat : j = Len(lines'[i]) /\ j >= 1
      BY <2>4
    <3>2. IsOn(e, i, j)'
      BY <2>4, <3>1 DEF IsOn
    <3> QED BY <3>2
  <2>6. path[e] \in Names /\ dir'[path[e]] = i /\ i # NoFile
    BY <1>a, <2>2, <2>3, FilesFacts DEF WritesLine, Typed
  <2>7. PICK n \in Names : dir'[n] = i /\ i # NoFile
    BY <2>6
  <2>8. IsOn(e, dir[n], j)'
    BY <2>5, <2>7 DEF IsOn
  <2> QED BY <1>a, <2>7, <2>8, BufferedNextFacts
<1>2. CASE apc[e] = "appended" /\ ingested[e] > 0
  BY <1>c, <1>2
<1>3. CASE apc[e] = "appended" /\ ~(ingested[e] > 0)
  <2>1. PICK n \in BufferedAs(e) : TRUE
    BY <1>a, <1>3 DEF DurableAlone, NoEventLost
  <2>2. CASE dir'[n] # NoFile
    BY <2>1, <2>2, BufferedStays
  <2>3. CASE dir'[n] = NoFile
    <3>1. n \in Names /\ dir[n] # NoFile /\ \E j \in Nat : IsOn(e, dir[n], j)
      BY <1>a, <2>1, BufferedFacts DEF BufferedAs
    <3>2. PICK f \in Flushers : Unlink(f) /\ n = Head(todo[f])
      BY <2>3, <3>1, NameSteps
    <3>3. fpc[f] = "unlinking" /\ in[f] \in Files /\ batch[f] = <<>>
      BY <1>a, <3>2 DEF Unlink, Controlled, Typed
    <3>4. dir[n] = in[f] /\ offset[f] = Len(lines[in[f]])
      BY <1>a, <3>2, <3>3, FilesFacts DEF Held
    <3>5. PICK j \in 1 .. offset[f] : e \in lines[in[f]][j].events
      BY <3>1, <3>4 DEF IsOn
    <3>6. ingested[e] > 0
      <4>1. e \notin ToSet(batch[f])
        BY <3>3 DEF ToSet
      <4> QED BY <1>a, <3>3, <3>5, <4>1, FilesFacts DEF Delivered
    <3> QED BY <1>3, <3>6
  <2> QED BY <2>2, <2>3
<1> QED BY <1>1, <1>2, <1>3

(* The requests that may still arrive with an event.                       *)
LEMMA CarryingFacts ==
    ASSUME NEW s \in Seq(Seq(Events)), NEW e \in Events
    PROVE  /\ IsFiniteSet(Carrying(s, e)) /\ Cardinality(Carrying(s, e)) \in Nat
           /\ \A k \in Carrying(s, e) :
                 /\ IsFiniteSet(Carrying(s, e) \ {k})
                 /\ Cardinality(Carrying(s, e) \ {k}) = Cardinality(Carrying(s, e)) - 1
<1>1. DOMAIN s = 1 .. Len(s) /\ Len(s) \in Nat
  OBVIOUS
<1>2. IsFiniteSet(1 .. Len(s))
  BY <1>1, FS_Interval
<1>3. IsFiniteSet(Carrying(s, e))
  BY <1>1, <1>2, FS_Subset DEF Carrying
<1> QED BY <1>3, FS_CardinalityType, FS_RemoveElement

LEMMA CarryingAppend ==
    ASSUME NEW s \in Seq(Seq(Events)), NEW b \in Seq(Events), NEW e \in Events
    PROVE  /\ Cardinality(Carrying(Append(s, b), e)) <= Cardinality(Carrying(s, e)) + 1
           /\ e \notin ToSet(b) => Carrying(Append(s, b), e) = Carrying(s, e)
<1> DEFINE n == Len(s)
           t == Append(s, b)
<1>1. /\ DOMAIN s = 1 .. n /\ n \in Nat /\ t \in Seq(Seq(Events)) /\ DOMAIN t = 1 .. n + 1
      /\ t[n + 1] = b /\ \A j \in 1 .. n : t[j] = s[j]
  OBVIOUS
<1> HIDE DEF n, t
<1>2. /\ \A j \in 1 .. n : j \in 1 .. n + 1
      /\ \A j \in 1 .. n + 1 : j \in 1 .. n \/ j = n + 1
      /\ n + 1 \in 1 .. n + 1 /\ n + 1 \notin 1 .. n
  BY <1>1
<1>3. Carrying(t, e) \subseteq Carrying(s, e) \cup {n + 1}
  BY <1>1, <1>2 DEF Carrying
<1>4. e \notin ToSet(b) => Carrying(t, e) = Carrying(s, e)
  BY <1>1, <1>2 DEF Carrying
<1>5. IsFiniteSet(Carrying(s, e)) /\ Cardinality(Carrying(s, e)) \in Nat
  BY CarryingFacts
<1>6. n + 1 \notin Carrying(s, e)
  BY <1>1, <1>2 DEF Carrying
<1>7. /\ IsFiniteSet(Carrying(s, e) \cup {n + 1})
      /\ Cardinality(Carrying(s, e) \cup {n + 1}) = Cardinality(Carrying(s, e)) + 1
  BY <1>5, <1>6, FS_AddElement
<1>8. Cardinality(Carrying(t, e)) <= Cardinality(Carrying(s, e) \cup {n + 1})
  BY <1>3, <1>7, FS_Subset
<1> QED BY <1>4, <1>7, <1>8 DEF t

LEMMA CarryingRemove ==
    ASSUME NEW s \in Seq(Seq(Events)), NEW k \in DOMAIN s, NEW e \in Events
    PROVE  Cardinality(Carrying(RemoveAt(s, k), e)) <= Cardinality(Carrying(s, e) \ {k})
<1> DEFINE n == Len(s)
           t == RemoveAt(s, k)
           S == Carrying(t, e)
           T == Carrying(s, e) \ {k}
           g == [j \in S |-> IF j < k THEN j ELSE j + 1]
<1>1. /\ DOMAIN s = 1 .. n /\ n \in Nat /\ k \in 1 .. n
      /\ DOMAIN t = 1 .. n - 1
      /\ \A j \in 1 .. n - 1 : t[j] = IF j < k THEN s[j] ELSE s[j + 1]
  <2>1. /\ DOMAIN s = 1 .. n /\ n \in Nat
    OBVIOUS
  <2>2. /\ t \in Seq(Seq(Events)) /\ Len(t) = n - 1
        /\ \A j \in 1 .. n - 1 : t[j] = IF j < k THEN s[j] ELSE s[j + 1]
    BY RemoveAtFacts
  <2>3. DOMAIN t = 1 .. Len(t)
    BY <2>2
  <2> QED BY <2>1, <2>2, <2>3
<1>2. IsFiniteSet(T)
  BY CarryingFacts, FS_Subset
<1> HIDE DEF n, t
<1>3. \A j \in S : g[j] \in T
  <2> SUFFICES ASSUME NEW j \in S PROVE g[j] \in T
    OBVIOUS
  <2>1. j \in 1 .. n - 1 /\ e \in ToSet(t[j])
    BY <1>1 DEF Carrying
  <2>2. CASE j < k
    <3>1. g[j] = j /\ t[j] = s[j] /\ j \in 1 .. n /\ j # k
      BY <1>1, <2>1, <2>2
    <3> QED BY <1>1, <2>1, <3>1 DEF Carrying
  <2>3. CASE ~(j < k)
    <3>1. g[j] = j + 1 /\ t[j] = s[j + 1] /\ j + 1 \in 1 .. n /\ j + 1 # k
      BY <1>1, <2>1, <2>3
    <3> QED BY <1>1, <2>1, <3>1 DEF Carrying
  <2> QED BY <2>2, <2>3
<1>4. \A i, j \in S : g[i] = g[j] => i = j
  <2> SUFFICES ASSUME NEW i \in S, NEW j \in S, g[i] = g[j] PROVE i = j
    OBVIOUS
  <2>1. i \in 1 .. n - 1 /\ j \in 1 .. n - 1
    BY <1>1 DEF Carrying
  <2>2. (IF i < k THEN i ELSE i + 1) = (IF j < k THEN j ELSE j + 1)
    OBVIOUS
  <2> QED BY <1>1, <2>1, <2>2
<1>5. g \in [S -> T]
  BY <1>3
<1> HIDE DEF S, T, g
<1>6. g \in Injection(S, T)
  BY <1>4, <1>5 DEF Injection, IsInjective
<1>7. Cardinality(S) <= Cardinality(T)
  BY <1>2, <1>6, FS_Injection
<1> QED BY <1>7 DEF S, T, t

(* On a host that runs one process at a time, a line that is not JSON      *)
(* stays: no flush comes to the end of its file.                           *)
LEMMA PoisonStays ==
    ASSUME IInv, [Next]_vars, alone, PoisonedUpTo(Base)
    PROVE  PoisonedUpTo(Base)'
<1>a. Typed /\ Controlled /\ Delivered /\ Held /\ Typed' /\ 0 .. Base = Names
  BY TypedKept DEF IInv, Names, Base, Rotated
<1>1. PICK m \in Names, i \in Files, j \in Nat :
          /\ dir[m] = i /\ dir[m] # NoFile
          /\ j \in 1 .. Len(lines[i]) /\ lines[i][j].kind # "whole"
  <2>1. PICK m \in Names : dir[m] # NoFile /\ \E l \in ToSet(lines[dir[m]]) : l.kind # "whole"
    BY <1>a DEF PoisonedUpTo
  <2>2. dir[m] \in Files /\ lines[dir[m]] \in Seq(Line)
    BY <1>a, <2>1 DEF Typed
  <2>3. \E j \in 1 .. Len(lines[dir[m]]) : lines[dir[m]][j].kind # "whole"
    BY <2>1, <2>2, ToSetFacts
  <2>4. 1 .. Len(lines[dir[m]]) \subseteq Nat
    OBVIOUS
  <2> QED BY <2>1, <2>2, <2>3, <2>4
<1>2. dir'[m] = i
  <2>1. ASSUME NEW f \in Flushers, Unlink(f), m = Head(todo[f]) PROVE FALSE
    <3>1. in[f] \in Files /\ in[f] # NoFile /\ fpc[f] = "unlinking"
      BY <1>a, <2>1, FilesFacts DEF Unlink, Typed, Controlled
    <3>2. in[f] = i /\ offset[f] = Len(lines[i])
      BY <1>1, <1>a, <2>1, <3>1 DEF Held
    <3> QED BY <1>1, <1>a, <3>1, <3>2 DEF Delivered
  <2> QED BY <1>1, <2>1, NameSteps
<1>3. \E k \in 1 .. Len(lines'[i]) : lines'[i][k].kind # "whole"
  <2>1. CASE UNCHANGED lines
    BY <1>1, <2>1
  <2>2. ASSUME NEW e \in Events, NEW l \in {Whole(e), Torn}, WritesLine(e, l)
        PROVE  \E k \in 1 .. Len(lines'[i]) : lines'[i][k].kind # "whole"
    <3>1. /\ Len(lines[i]) \in Nat /\ Len(lines'[i]) \in Nat /\ Len(lines[i]) <= Len(lines'[i])
          /\ i # out[e] => lines'[i] = lines[i]
          /\ i = out[e] =>
               /\ \A k \in 1 .. Len(lines'[i]) - 1 :
                     k <= Len(lines[i]) /\ lines'[i][k] = lines[i][k]
               /\ Len(lines'[i]) = Len(lines[i]) => lines'[i][Len(lines[i])].kind # "whole"
      BY <1>a, <2>2, WritesFacts
    <3>2. CASE i # out[e]
      BY <1>1, <3>1, <3>2
    <3>3. CASE i = out[e] /\ Len(lines'[i]) # Len(lines[i])
      <4>1. j \in 1 .. Len(lines'[i]) - 1 /\ j \in 1 .. Len(lines'[i])
        BY <1>1, <3>1, <3>3
      <4> QED BY <1>1, <3>1, <3>3, <4>1
    <3>4. CASE i = out[e] /\ Len(lines'[i]) = Len(lines[i])
      <4>1. Len(lines[i]) \in 1 .. Len(lines'[i])
        BY <1>1, <3>1, <3>4
      <4> QED BY <3>1, <3>4, <4>1
    <3> QED BY <3>2, <3>3, <3>4
  <2> QED BY <2>1, <2>2, LinesSteps
<1>4. lines'[i] \in Seq(Line) /\ i # NoFile
  BY <1>a, FilesFacts DEF Typed
<1>5. \E l \in ToSet(lines'[i]) : l.kind # "whole"
  BY <1>3, <1>4, ToSetFacts
<1> QED BY <1>a, <1>2, <1>4, <1>5 DEF PoisonedUpTo

(* What a flush has in its batch is in the buffer and was not sent. *)
LEMMA BatchIsDue ==
    ASSUME IInv, alone, NEW f \in Flushers, NEW e \in Events, e \in ToSet(batch[f])
    PROVE  /\ apc[e] = "appended" /\ IsDue(e) /\ in[f] \in Files
           /\ \E j \in 1 .. offset[f] : e \in lines[in[f]][j].events
<1>a. Typed /\ Controlled /\ Delivered /\ Solo /\ Held /\ Once
  BY DEF IInv
<1>1. batch[f] # <<>> /\ in[f] \in Files /\ in[f] # NoFile /\ fpc[f] # "idle" /\ todo[f] # <<>>
  <2>1. batch[f] # <<>>
    BY DEF ToSet
  <2> QED BY <1>a, <2>1 DEF Typed, Controlled
<1>2. PICK j \in 1 .. offset[f] : e \in lines[in[f]][j].events
  BY <1>a DEF Once
<1>3. IsOn(e, in[f], j)
  <2>1. offset[f] <= Len(lines[in[f]]) /\ offset[f] \in Nat /\ Len(lines[in[f]]) \in Nat
    BY <1>a, <1>1, LinesTyped DEF Delivered, Typed
  <2> QED BY <1>2, <2>1 DEF IsOn
<1>4. j \in Nat
  OBVIOUS
<1>5. apc[e] = "appended"
  BY <1>a, <1>1, <1>3, <1>4 DEF Once
<1>6. Head(todo[f]) \in Names /\ dir[Head(todo[f])] = in[f]
  BY <1>a, <1>1 DEF Held, Typed
<1>7. BufferedAs(e) # {}
  BY <1>a, <1>1, <1>3, <1>4, <1>6, BufferedFacts
<1>8. ~Sent(e)
  <2>1. ASSUME NEW g \in Flushers, in[g] # NoFile PROVE g = f
    BY <1>a, <1>1, <2>1, AloneFacts
  <2> QED BY <2>1 DEF Sent
<1> QED BY <1>1, <1>2, <1>5, <1>7, <1>8 DEF IsDue

(* An event whose append has returned comes under no other name. *)
LEMMA BufferedShrinks ==
    ASSUME IInv, [Next]_vars, NEW e \in Events, apc[e] = "appended"
    PROVE  BufferedAs(e)' \subseteq BufferedAs(e)
<1>a. Typed /\ Written /\ FilesLeft /\ Typed'
  BY TypedKept DEF IInv
<1> SUFFICES ASSUME NEW n \in Names, n \in BufferedAs(e)' PROVE n \in BufferedAs(e)
  BY DEF BufferedAs
<1>1. PICK i \in Files : i = dir'[n] /\ i # NoFile
  <2>1. dir'[n] # NoFile
    BY <1>a, BufferedNextFacts
  <2>2. dir'[n] \in Files \cup {NoFile}
    BY <1>a DEF Typed
  <2> QED BY <2>1, <2>2
<1>2. PICK j \in Nat : IsOn(e, i, j)'
  BY <1>a, <1>1, BufferedNextFacts DEF IsOn
<1>3. IsOn(e, i, j)
  <2>1. CASE UNCHANGED lines
    BY <1>2, <2>1 DEF IsOn
  <2>2. ASSUME NEW d \in Events, NEW l \in {Whole(d), Torn}, WritesLine(d, l)
        PROVE  IsOn(e, i, j)
    <3>1. d # e
      BY <2>2 DEF WritesLine
    <3> QED BY <1>a, <1>2, <2>2, <3>1, OnFacts
  <2> QED BY <2>1, <2>2, LinesSteps
<1>4. dir[n] = i
  <2>1. CASE dir[n] # NoFile
    BY <1>1, <2>1, NameSteps
  <2>2. CASE dir[n] = NoFile
    <3>1. PICK d \in Events : OpenToAppend(d) /\ path[d] = n
      <4>1. ASSUME NEW f \in Flushers, Unlink(f) PROVE FALSE
        BY <1>1, <1>a, <2>2, <4>1 DEF Unlink, Typed
      <4>2. PICK d \in Events : OpenToAppend(d)
        BY <1>1, <2>2, <4>1 DEF Next, Exists, Appending, Size, Write, WriteFails, Flush, Glob,
           OpenToRead, Read, EndOfFile, Accepted, Refused, TimedOut, UnlinkFails, Dies, Arrives,
           vars, files
      <4>3. path[d] # n => dir'[n] = dir[n]
        BY <1>a, <4>2 DEF OpenToAppend, Typed
      <4> QED BY <1>1, <2>2, <4>2, <4>3
    <3>2. i = NewFile /\ lines[NewFile] = <<>>
      BY <1>1, <1>a, <2>2, <3>1, NewFileFacts DEF OpenToAppend, Typed
    <3>3. Len(lines[i]) = 0
      BY <3>2
    <3> QED BY <1>3, <3>3 DEF IsOn
  <2> QED BY <2>1, <2>2
<1> QED BY <1>1, <1>3, <1>4, <1>a, BufferedFacts

(* An event that was sent, and is in the buffer, becomes due again only    *)
(* when a flush fails.                                                     *)
LEMMA DueShrinks ==
    ASSUME IInv, [Next]_vars, alone, ~PoisonedUpTo(Base), UNCHANGED faults,
           NEW e \in Events, IsDue(e)'
    PROVE  IsDue(e)
<1>a. /\ Typed /\ Controlled /\ Written /\ Delivered /\ Solo /\ Held /\ Once /\ Typed'
      /\ NoFile \notin Files /\ faults \in Nat
  <2>1. Typed /\ Controlled /\ Written /\ Delivered /\ Solo /\ Held /\ Once
    BY DEF IInv
  <2>2. Typed' /\ NoFile \notin Files
    BY TypedKept, FilesFacts
  <2>3. faults \in Nat
    BY <2>1, EventAssumption DEF Typed
  <2> QED BY <2>1, <2>2, <2>3
<1> SUFFICES ASSUME ~IsDue(e) PROVE FALSE
  OBVIOUS
<1>1. apc[e] = "appended" /\ apc'[e] = "appended"
  BY OpenedGrows DEF IsDue
<1>2. BufferedAs(e)' # {} /\ ~Sent(e)' /\ BufferedAs(e) # {} /\ Sent(e)
  BY <1>1, BufferedShrinks DEF IsDue
<1>d. PICK f \in Flushers :
          /\ in[f] # NoFile /\ e \notin ToSet(batch[f])
          /\ \E j \in 1 .. offset[f] : e \in lines[in[f]][j].events
  BY <1>2 DEF Sent
<1>3. PICK j \in 1 .. offset[f] :
          in[f] # NoFile /\ e \in lines[in[f]][j].events /\ e \notin ToSet(batch[f])
  BY <1>d
<1>4. /\ in[f] \in Files /\ offset[f] \in Nat /\ j \in Nat /\ fpc[f] # "idle"
      /\ batch[f] \in Seq(Events)
  BY <1>a, <1>3 DEF Typed, Controlled
<1>5. Len(lines[in[f]]) \in Nat /\ offset[f] <= Len(lines[in[f]])
  BY <1>a, <1>3, <1>4, LinesTyped DEF Delivered
<1>6. IsOn(e, in[f], j)
  BY <1>3, <1>4, <1>5 DEF IsOn
<1>7. ASSUME UNCHANGED lines, in'[f] = in[f], offset'[f] \in Nat, offset[f] <= offset'[f],
             e \notin ToSet(batch'[f])
      PROVE  FALSE
  <2>1. j \in 1 .. offset'[f]
    BY <1>3, <1>4, <1>7
  <2> QED BY <1>2, <1>3, <1>7, <2>1 DEF Sent
<1>12. Head(todo[f]) \in Names /\ dir[Head(todo[f])] = in[f]
  <2>1. todo[f] \in Seq(Names) /\ todo[f] # <<>>
    BY <1>a, <1>4 DEF Typed, Controlled
  <2>2. dir[Head(todo[f])] = in[f]
    BY <1>a, <1>3 DEF Held
  <2> QED BY <2>1, <2>2
<1>8. ASSUME NEW d \in Events, Exists(d) \/ Appending(d) PROVE FALSE
  <2>1. Exists(d) => \A g \in Flushers : fpc[g] = "idle"
    BY DEF Exists, Free
  <2>2. Appending(d) => Active(d)
    BY DEF Appending, Size, OpenToAppend, Write, WriteFails, Active
  <2> QED BY <1>a, <1>4, <1>8, <2>1, <2>2 DEF Solo
<1>9. ASSUME NEW g \in Flushers, Glob(g) PROVE FALSE
  BY <1>4, <1>9 DEF Glob, Free
<1>10. ASSUME NEW g \in Flushers, Flush(g), ~Glob(g) PROVE FALSE
  <2>1. g = f
    <3>1. fpc[g] # "idle"
      BY <1>10 DEF Flush, OpenToRead, Read, EndOfFile, Accepted, Sending, Refused, TimedOut,
                   Unlink, UnlinkFails, Dies
    <3> QED BY <1>a, <1>4, <3>1 DEF Solo
  <2>2. CASE OpenToRead(f)
    BY <1>a, <1>3, <2>2 DEF OpenToRead, Controlled
  <2>3. CASE Read(f)
    <3>1. ASSUME NEW d \in Events, ReadsLine(f, d) PROVE FALSE
      <4>1. /\ UNCHANGED <<lines, in>> /\ batch'[f] = Append(batch[f], d)
            /\ offset'[f] = offset[f] + 1 /\ offset[f] + 1 \in 1 .. Len(lines[in[f]])
            /\ lines[in[f]][offset[f] + 1].events = {d}
        BY <1>a, <3>1 DEF ReadsLine, files, Typed
      <4>2. ToSet(batch'[f]) = ToSet(batch[f]) \cup {d}
        BY <1>4, <4>1, AppendedFacts
      <4>3. d # e
        <5>1. IsOn(d, in[f], offset[f] + 1) /\ offset[f] + 1 \in Nat
          BY <1>4, <4>1 DEF IsOn
        <5>2. d = e => offset[f] + 1 = j
          BY <1>a, <1>4, <1>6, <5>1 DEF Once
        <5>3. j <= offset[f]
          BY <1>3
        <5> QED BY <1>4, <5>2, <5>3
      <4>4. offset'[f] \in Nat /\ offset[f] <= offset'[f]
        BY <1>4, <4>1
      <4> QED BY <1>3, <1>7, <4>1, <4>2, <4>3, <4>4
    <3>2. ASSUME offset[f] + 1 \in 1 .. Len(lines[in[f]]),
                 lines[in[f]][offset[f] + 1].kind # "whole"
          PROVE  FALSE
      <4>1. Head(todo[f]) \in Names /\ dir[Head(todo[f])] = in[f]
        BY <1>12
      <4>2. \E l \in ToSet(lines[in[f]]) : l.kind # "whole"
        <5>1. lines[in[f]] \in Seq(Line)
          BY <1>a, <1>4 DEF Typed
        <5> QED BY <3>2, <5>1, ToSetFacts
      <4>3. Head(todo[f]) \in 0 .. Base
        BY <4>1 DEF Names, Rotated, Base
      <4> QED BY <1>3, <4>1, <4>2, <4>3 DEF PoisonedUpTo
    <3> QED BY <1>a, <2>3, <3>1, <3>2, ReadSteps
  <2>4. CASE EndOfFile(f) \/ Accepted(f)
    <3>1. UNCHANGED <<lines, in, offset>> /\ (batch'[f] = batch[f] \/ batch'[f] = <<>>)
      BY <1>a, <2>4 DEF EndOfFile, Accepted, files, Typed
    <3>2. e \notin ToSet(batch'[f])
      BY <1>3, <3>1 DEF ToSet
    <3> QED BY <1>4, <1>7, <3>1, <3>2
  <2>5. CASE Refused(f) \/ TimedOut(f) \/ UnlinkFails(f) \/ Dies(f)
    <3>1. faults' = faults + 1
      BY <2>5 DEF Refused, TimedOut, UnlinkFails, Dies, Fault
    <3>2. faults' = faults
      OBVIOUS
    <3> QED BY <1>a, <3>1, <3>2
  <2>6. CASE Unlink(f)
    <3>1. dir' = [dir EXCEPT ![Head(todo[f])] = NoFile]
      BY <2>6 DEF Unlink
    <3>2. Head(todo[f]) \in Names /\ dir[Head(todo[f])] = in[f]
      BY <1>12
    <3>3. PICK n \in Names : n \in BufferedAs(e)' /\ n \in BufferedAs(e)
      BY <1>1, <1>2, BufferedShrinks DEF BufferedAs
    <3>4. dir'[n] # NoFile /\ dir[n] \in Files
      BY <3>3, <1>a DEF BufferedAs, Typed
    <3>5. dir[n] = in[f]
      <4>1. PICK k \in Nat : IsOn(e, dir[n], k)
        BY <1>a, <3>3, BufferedFacts
      <4> QED BY <1>a, <1>4, <1>6, <3>4, <4>1 DEF Once
    <3>6. n = Head(todo[f])
      BY <1>a, <1>3, <3>2, <3>5 DEF Once
    <3> QED BY <1>a, <3>1, <3>2, <3>4, <3>6 DEF Typed
  <2> QED BY <1>10, <2>1, <2>2, <2>3, <2>4, <2>5, <2>6 DEF Flush
<1>11. ASSUME Arrives \/ UNCHANGED vars PROVE FALSE
  <2>1. UNCHANGED <<lines, in, offset, batch>>
    BY <1>11 DEF Arrives, vars, files, flusher
  <2> QED BY <1>3, <1>4, <1>7, <2>1
<1> QED BY <1>8, <1>9, <1>10, <1>11 DEF Next

(* How often an event was and may yet be delivered grows with the failures *)
(* only.                                                                   *)
LEMMA CountedKept ==
    ASSUME IInv, [Next]_vars
    PROVE  Counted'
<1>a. /\ Typed /\ Controlled /\ Written /\ Delivered /\ Solo /\ Held /\ Once /\ Counted /\ Typed'
      /\ faults \in Nat /\ MaxFaults \in Nat
  BY TypedKept, EventAssumption DEF IInv, Typed
<1>b. UNCHANGED alone
  BY DEF Next, Exists, Appending, Size, OpenToAppend, Write, WriteFails, Flush, Glob, OpenToRead,
         Read, EndOfFile, Accepted, Refused, TimedOut, Unlink, UnlinkFails, Dies, Arrives, vars
<1> SUFFICES ASSUME alone, ~PoisonedUpTo(Base), NEW e \in Events
             PROVE  ingested'[e] + Cardinality(LateOf(e)') + Due(e)' <= 1 + faults'
  BY <1>b, PoisonStays DEF Counted
<1>c. /\ ingested[e] \in Nat /\ ingested'[e] \in Nat
      /\ Cardinality(LateOf(e)) \in Nat /\ Cardinality(LateOf(e)') \in Nat
      /\ Due(e) \in {0, 1} /\ Due(e)' \in {0, 1}
      /\ ingested[e] + Cardinality(LateOf(e)) + Due(e) <= 1 + faults
  <2>1. late \in Seq(Seq(Events)) /\ late' \in Seq(Seq(Events))
    BY <1>a DEF Typed
  <2>2. Cardinality(LateOf(e)) \in Nat /\ Cardinality(LateOf(e)') \in Nat
    BY <2>1, CarryingFacts DEF LateOf
  <2>3. ingested[e] \in Nat /\ ingested'[e] \in Nat
    BY <1>a DEF Typed
  <2>4. ingested[e] + Cardinality(LateOf(e)) + Due(e) <= 1 + faults
    BY <1>a DEF Counted
  <2> QED BY <2>2, <2>3, <2>4 DEF Due
<1> DEFINE I == ingested[e]
           L == Cardinality(LateOf(e))
           D == Due(e)
           I1 == ingested'[e]
           L1 == Cardinality(LateOf(e)')
           D1 == Due(e)'
<1>1. ASSUME UNCHANGED <<ingested, late, faults>>
      PROVE  I1 + L1 + D1 <= 1 + faults'
  <2>1. D1 <= D
    BY <1>1, DueShrinks DEF Due
  <2>2. I1 = I /\ L1 = L
    BY <1>1 DEF LateOf
  <2> HIDE DEF I, L, D, I1, L1, D1
  <2>3. I \in Nat /\ L \in Nat /\ D \in {0, 1} /\ D1 \in {0, 1} /\ I + L + D <= 1 + faults
    BY <1>c DEF I, L, D, I1, L1, D1
  <2> QED BY <1>1, <1>a, <2>1, <2>2, <2>3
<1>2. ASSUME NEW f \in Flushers, Accepted(f)
      PROVE  I1 + L1 + D1 <= 1 + faults'
  <2>1. Ingest(batch[f]) /\ UNCHANGED <<late, faults>> /\ batch'[f] = <<>>
        /\ UNCHANGED <<lines, in, offset, apc>>
    BY <1>a, <1>2 DEF Accepted, files, appender, Typed
  <2>2. L1 = L /\ D1 <= D
    BY <2>1, DueShrinks DEF Due, LateOf
  <2>3. e \notin ToSet(batch[f]) => I1 = I
    BY <1>a, <2>1, IngestFacts
  <2>4. e \in ToSet(batch[f]) => I1 <= I + 1
    BY <1>a, <2>1, IngestFacts
  <2>5. e \in ToSet(batch[f]) => D = 1
    BY BatchIsDue DEF Due
  <2>6. e \in ToSet(batch[f]) => D1 = 0
    <3> SUFFICES ASSUME e \in ToSet(batch[f]) PROVE ~IsDue(e)'
      BY DEF Due
    <3>1. /\ apc[e] = "appended" /\ in[f] \in Files
          /\ \E j \in 1 .. offset[f] : e \in lines[in[f]][j].events
      BY BatchIsDue
    <3>2. e \notin ToSet(batch'[f])
      BY <2>1 DEF ToSet
    <3>3. Sent(e)'
      BY <2>1, <3>1, <3>2, FilesFacts DEF Sent
    <3> QED BY <2>1, <3>1, <3>3 DEF IsDue
  <2> HIDE DEF I, L, D, I1, L1, D1
  <2>7. /\ I \in Nat /\ L \in Nat /\ D \in {0, 1} /\ D1 \in {0, 1} /\ I1 \in Nat
        /\ I + L + D <= 1 + faults /\ faults' = faults
    BY <1>c, <2>1 DEF I, L, D, I1, L1, D1
  <2>8. CASE e \in ToSet(batch[f])
    BY <1>a, <2>2, <2>4, <2>5, <2>6, <2>7, <2>8
  <2>9. CASE e \notin ToSet(batch[f])
    BY <1>a, <2>2, <2>3, <2>7, <2>9
  <2> QED BY <2>8, <2>9
<1>3. ASSUME faults' = faults + 1, NEW S \in SUBSET Events,
             \A d \in Events : d \in S => \E f \in Flushers : d \in ToSet(batch[f]),
             I1 + L1 <= I + L + 1, e \notin S => I1 + L1 <= I + L
      PROVE  I1 + L1 + D1 <= 1 + faults'
  <2>1. e \in S => D = 1
    BY <1>3, BatchIsDue DEF Due
  <2> HIDE DEF I, L, D, I1, L1, D1
  <2>2. /\ I \in Nat /\ L \in Nat /\ D \in {0, 1} /\ D1 \in {0, 1} /\ I1 \in Nat /\ L1 \in Nat
        /\ I + L + D <= 1 + faults
    BY <1>c DEF I, L, D, I1, L1, D1
  <2>3. CASE e \in S
    BY <1>a, <1>3, <2>1, <2>2, <2>3
  <2>4. CASE e \notin S
    BY <1>a, <1>3, <2>2, <2>4
  <2> QED BY <2>3, <2>4
<1>4. ASSUME NEW f \in Flushers, Refused(f) PROVE I1 + L1 + D1 <= 1 + faults'
  <2>1. PICK k \in 0 .. Len(batch[f]) - 1 : Ingest(SubSeq(batch[f], 1, k))
    BY <1>4 DEF Refused
  <2>2. faults' = faults + 1 /\ UNCHANGED late
    BY <1>4 DEF Refused, Fault
  <2>3. ToSet(SubSeq(batch[f], 1, k)) \subseteq ToSet(batch[f])
    BY <1>a, <2>1, PrefixFacts DEF Typed
  <2>4. ToSet(batch[f]) \subseteq Events
    BY <1>a, ToSetFacts DEF Typed
  <2>5. I1 <= I + 1 /\ (e \notin ToSet(batch[f]) => I1 = I)
    BY <1>a, <1>c, <2>1, <2>3, IngestFacts
  <2>6. L1 = L
    BY <2>2 DEF LateOf
  <2>7. I1 + L1 <= I + L + 1 /\ (e \notin ToSet(batch[f]) => I1 + L1 <= I + L)
    BY <1>c, <2>5, <2>6
  <2> HIDE DEF I, L, D, I1, L1, D1
  <2> QED BY <1>3, <2>2, <2>4, <2>7
<1>5. ASSUME NEW f \in Flushers, TimedOut(f) PROVE I1 + L1 + D1 <= 1 + faults'
  <2>1. late' = Append(late, batch[f]) /\ faults' = faults + 1 /\ UNCHANGED ingested
    BY <1>5 DEF TimedOut, Fault
  <2>2. ToSet(batch[f]) \subseteq Events /\ batch[f] \in Seq(Events) /\ late \in Seq(Seq(Events))
    BY <1>a, ToSetFacts DEF Typed
  <2>3. L1 <= L + 1 /\ (e \notin ToSet(batch[f]) => L1 = L) /\ I1 = I
    BY <2>1, <2>2, CarryingAppend DEF LateOf
  <2>4. I1 + L1 <= I + L + 1 /\ (e \notin ToSet(batch[f]) => I1 + L1 <= I + L)
    BY <1>c, <2>3
  <2> HIDE DEF I, L, D, I1, L1, D1
  <2> QED BY <1>3, <2>1, <2>2, <2>4
<1>6. ASSUME NEW f \in Flushers, UnlinkFails(f) \/ Dies(f) PROVE I1 + L1 + D1 <= 1 + faults'
  <2>1. faults' = faults + 1 /\ I1 = I /\ L1 = L
    BY <1>6 DEF UnlinkFails, Dies, Fault, LateOf
  <2>2. I1 + L1 <= I + L
    BY <1>c, <2>1
  <2>3. I1 + L1 <= I + L + 1
    BY <1>c, <2>1
  <2> HIDE DEF I, L, D, I1, L1, D1
  <2>4. ToSet(batch[f]) \subseteq Events
    BY <1>a, ToSetFacts DEF Typed
  <2> QED BY <1>3, <2>1, <2>2, <2>3, <2>4
<1>7. ASSUME NEW k \in DOMAIN late, Ingest(late[k]), late' = RemoveAt(late, k),
             UNCHANGED <<alone, files, appender, flusher, faults>>
      PROVE  I1 + L1 + D1 <= 1 + faults'
  <2>1. D1 <= D
    BY <1>7, DueShrinks DEF Due
  <2>2. late \in Seq(Seq(Events))
    BY <1>a DEF Typed
  <2>3. L1 <= Cardinality(Carrying(late, e) \ {k})
    BY <1>7, <2>2, CarryingRemove DEF LateOf
  <2>4. e \in ToSet(late[k]) => L1 <= L - 1 /\ I1 <= I + 1
    <3>1. e \in ToSet(late[k]) => k \in Carrying(late, e)
      BY DEF Carrying
    <3>2. e \in ToSet(late[k]) => Cardinality(Carrying(late, e) \ {k}) = L - 1
      BY <2>2, <3>1, CarryingFacts DEF LateOf
    <3>3. e \in ToSet(late[k]) => I1 <= I + 1
      BY <1>7, <1>a, IngestFacts
    <3> QED BY <2>3, <3>2, <3>3
  <2>5. e \notin ToSet(late[k]) => L1 <= L /\ I1 = I
    <3>1. e \notin ToSet(late[k]) => Carrying(late, e) \ {k} = Carrying(late, e)
      BY DEF Carrying
    <3>2. e \notin ToSet(late[k]) => I1 = I
      BY <1>7, <1>a, IngestFacts
    <3> QED BY <2>3, <3>1, <3>2 DEF LateOf
  <2> HIDE DEF I, L, D, I1, L1, D1
  <2>6. /\ I \in Nat /\ L \in Nat /\ D \in {0, 1} /\ D1 \in {0, 1} /\ I1 \in Nat /\ L1 \in Nat
        /\ I + L + D <= 1 + faults /\ faults' = faults
    BY <1>c, <1>7 DEF I, L, D, I1, L1, D1
  <2>7. CASE e \in ToSet(late[k])
    BY <1>a, <2>1, <2>4, <2>6, <2>7
  <2>8. CASE e \notin ToSet(late[k])
    BY <1>a, <2>1, <2>5, <2>6, <2>8
  <2> QED BY <2>7, <2>8
<1>8. ASSUME NEW d \in Events, Exists(d) \/ Appending(d) PROVE UNCHANGED <<ingested, late, faults>>
  BY <1>8 DEF Exists, Appending, Size, OpenToAppend, Write, WriteFails
<1>9. ASSUME NEW f \in Flushers,
             Glob(f) \/ OpenToRead(f) \/ Read(f) \/ EndOfFile(f) \/ Unlink(f)
      PROVE  UNCHANGED <<ingested, late, faults>>
  BY <1>9 DEF Glob, OpenToRead, Read, EndOfFile, Unlink
<1>10. ASSUME UNCHANGED vars PROVE UNCHANGED <<ingested, late, faults>>
  BY <1>10 DEF vars
<1> QED
  BY <1>1, <1>2, <1>4, <1>5, <1>6, <1>7, <1>8, <1>9, <1>10 DEF Next, Flush, Arrives

-----------------------------------------------------------------------------
(* The theorems. *)

LEMMA InitHolds == Init => IInv
<1> SUFFICES ASSUME Init PROVE IInv
  OBVIOUS
<1> USE DEF Init
<1>0. /\ MaxFaults \in Nat /\ BatchSize \in Nat \ {0} /\ NoFile \notin Files
      /\ <<>> \in Seq(Events) /\ <<>> \in Seq(Names) /\ <<>> \in Seq(Line)
      /\ <<>> \in Seq(Seq(Events)) /\ Len(<<>>) = 0 /\ ToSet(<<>>) = {} /\ DOMAIN <<>> = {}
  <2>1. ToSet(<<>>) = {}
    BY DEF ToSet
  <2> QED BY <2>1, EventAssumption, FilesFacts
<1>1. Typed
  BY <1>0 DEF Typed, Names
<1>2. Controlled
  BY <1>0 DEF Controlled
<1>3. Written
  BY <1>0 DEF Written
<1>4. Delivered
  BY DEF Delivered
<1>5. FilesLeft
  <2>1. Used = {}
    BY <1>0 DEF Used, Range
  <2>2. Opened = {}
    BY DEF Opened
  <2> QED BY <2>1, <2>2, FS_EmptySet DEF FilesLeft
<1>6. Solo /\ Held
  BY DEF Solo, Held, Active
<1>7. Once
  <2>1. \A e \in Events : \A i \in Files : \A j \in Nat : ~IsOn(e, i, j)
    BY <1>0 DEF IsOn
  <2> QED BY <1>0, <2>1 DEF Once
<1>8. DurableAlone
  BY DEF DurableAlone, NoEventLost
<1>9. Counted
  <2> SUFFICES ASSUME NEW e \in Events
               PROVE  ingested[e] + Cardinality(LateOf(e)) + Due(e) <= 1 + faults
    BY DEF Counted
  <2>1. LateOf(e) = {}
    BY <1>0 DEF LateOf, Carrying
  <2>2. Due(e) \in {0, 1}
    BY DEF Due
  <2>3. Cardinality({}) = 0
    BY FS_EmptySet
  <2> QED BY <2>1, <2>2, <2>3
<1> QED BY <1>1, <1>2, <1>3, <1>4, <1>5, <1>6, <1>7, <1>8, <1>9 DEF IInv

LEMMA InvariantHolds == Spec => []IInv
<1>1. IInv /\ [Next]_vars => IInv'
  BY TypedKept, ControlledKept, WrittenKept, DeliveredKept, FilesLeftKept, SoloKept, HeldKept,
     OnceKept, DurableAloneKept, CountedKept DEF IInv
<1> QED BY InitHolds, <1>1, PTL DEF Spec

(* Type correctness of the event buffer (EndpointEventBuffer): the types,  *)
(* that a request never carries more than a batch and that a flush has no  *)
(* more in its batch than it has read of the file.                         *)
THEOREM TypeCorrect == Spec => []TypeOK
<1>1. ASSUME IInv PROVE TypeOK
  <2>0. Typed /\ Controlled /\ Delivered
    BY <1>1 DEF IInv
  <2>1. \A i \in Files : ToSet(lines[i]) \subseteq Line
    BY <2>0, ToSetFacts DEF Typed
  <2>2. \A f \in Flushers : ToSet(todo[f]) \subseteq Names /\ ToSet(batch[f]) \subseteq Events
    BY <2>0, ToSetFacts DEF Typed
  <2>3. \A f \in Flushers :
           /\ in[f] \in Files \cup {NoFile}
           /\ Len(batch[f]) <= BatchSize /\ Len(batch[f]) <= offset[f]
           /\ in[f] # NoFile => offset[f] <= Len(lines[in[f]])
    BY <2>0 DEF Typed, Controlled, Delivered
  <2> QED BY <2>0, <2>1, <2>2, <2>3 DEF TypeOK, Typed
<1> QED BY InvariantHolds, <1>1, PTL

(* What a flush has read of its file has reached the gateway when it comes *)
(* to unlink the name (EndpointEventBuffer.flush), whatever other          *)
(* processes append, flush and unlink meanwhile and whatever fails.        *)
THEOREM UnlinksOnlyDelivered == Spec => []DeliveredBeforeUnlink
<1>1. ASSUME IInv PROVE DeliveredBeforeUnlink
  <2> SUFFICES ASSUME NEW f \in Flushers, fpc[f] = "unlinking",
                      NEW j \in 1 .. offset[f], NEW e \in lines[in[f]][j].events
               PROVE  ingested[e] > 0
    BY DEF DeliveredBeforeUnlink
  <2>0. Typed /\ Controlled /\ Delivered
    BY <1>1 DEF IInv
  <2>1. in[f] # NoFile /\ batch[f] = <<>>
    BY <2>0 DEF Controlled
  <2>2. e \notin ToSet(batch[f])
    BY <2>1 DEF ToSet
  <2> QED BY <2>0, <2>1, <2>2 DEF Delivered
<1> QED BY InvariantHolds, <1>1, PTL

(* "Small durable event buffer": on a host that runs one process at a      *)
(* time, an event whose append returned is in a file of the buffer or has  *)
(* reached the gateway, whatever fails.                                    *)
THEOREM AlwaysDurableAlone == Spec => []DurableAlone
<1>1. IInv => DurableAlone
  BY DEF IInv
<1> QED BY InvariantHolds, <1>1, PTL

(* There, and while no line of the buffer is broken, an event is logged    *)
(* once more than flushes failed at most: a flush that succeeds sends      *)
(* nothing again (EndpointEventBuffer.flush, ingest_events).               *)
THEOREM OnlyFailuresRedeliver == Spec => []RedeliveredByFailures
<1>1. ASSUME IInv PROVE RedeliveredByFailures
  <2> SUFFICES ASSUME alone, ~PoisonedUpTo(Base), NEW e \in Events
               PROVE  ingested[e] <= 1 + faults
    BY DEF RedeliveredByFailures
  <2>0. Typed /\ Counted /\ MaxFaults \in Nat
    BY <1>1, EventAssumption DEF IInv
  <2>1. ingested[e] + Cardinality(LateOf(e)) + Due(e) <= 1 + faults
    BY <2>0 DEF Counted
  <2>2. ingested[e] \in Nat /\ faults \in Nat
    BY <2>0 DEF Typed
  <2>3. Cardinality(LateOf(e)) \in Nat /\ Due(e) \in {0, 1}
    BY <2>0, CarryingFacts DEF LateOf, Due, Typed
  <2> QED BY <2>1, <2>2, <2>3
<1> QED BY InvariantHolds, <1>1, PTL
=============================================================================
