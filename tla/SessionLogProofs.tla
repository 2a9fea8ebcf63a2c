-------------------------- MODULE SessionLogProofs --------------------------
(***************************************************************************)
(* What holds of the segment files for any sizes, capacity, fork point and *)
(* number of appends, faults and forks: the writer's position is exact, a  *)
(* fork keeps its history, and, unless power is lost after another fault,  *)
(* the files implement the log that append() promises.                     *)
(*                                                                         *)
(* A scan reads the segments one after the other, so most of it is about   *)
(* the log up to the i-th segment (Upto); what a concatenation or a sum    *)
(* over a sequence comes to is shown by induction over its length.         *)
(***************************************************************************)
EXTENDS SessionLog, WellFoundedInduction, SequenceTheorems, TLAPS

\* Power is not lost on a machine where a writer died or a file operation failed before.
PowerApart == \A kinds \in FaultModels : "power" \in kinds => kinds = {"power"}

Clean == happened \subseteq {"power"}
Calm  == "power" \notin happened
Safe  == Clean \/ Calm

Creating == {"header", "syncheader", "syncdir"}
Working  == Creating \cup {"idle", "write", "sync"}

\* The seq of the last line of a segment, or the one before its first.
End(seg) == seg.first + Len(seg.lines) - 1

\* A segment without a header has no line, and nothing of it is on stable storage.
HeaderFirst ==
  \A i \in 1..N : /\ ~segs[i].header => segs[i].lines = <<>> /\ segs[i].durable = -1
                  /\ segs[i].durable <= Len(segs[i].lines)

\* A scan that found no damage is right for as long as its writer is there.
Sound == Safe \/ pc \notin {"closed", "scan"} => ~Corrupt

\* The segment the writer is at.
Place ==
  /\ pc \in Working => N > 0 /\ ~segs[N].torn
  /\ pc \in Working \ {"header"} => segs[N].header
  /\ pc = "header" => ~segs[N].header /\ segs[N].first = Expected(N)
  /\ pc \in Creating => segs[N].lines = <<>>
  /\ pc \in {"copy", "cut"} => TornTail

\* What the writer remembers of it.
Remembered ==
  /\ pc \in Working \ {"sync"} => lastSeq = End(segs[N])
  /\ pc \in {"idle", "write"} => /\ segEvents = Len(segs[N].lines)
                                 /\ segBytes = Bytes(segs[N])
  /\ pc = "sync" => /\ lastSeq = End(segs[N]) - 1
                    /\ segEvents = Len(segs[N].lines) - 1
                    /\ segBytes = Bytes(segs[N]) - cur.size
                    /\ segs[N].lines # <<>> /\ segs[N].lines[Len(segs[N].lines)] = cur

\* The line that append() works on is the next one.
Pending ==
  /\ cur # NoLine => pc \in Creating \cup {"write", "sync"} /\ cur.seq = lastSeq + 1
  /\ pc \in {"write", "sync"} => cur # NoLine

\* Every append() call adds one line at most.
Counted ==
  /\ \A i \in 1..N : End(segs[i]) < FirstSeq + appends
  /\ cur # NoLine => cur.seq < FirstSeq + appends

\* The last segment on stable storage.
LastDurable ==
  /\ pc # "sync" => segs[N].durable = IF pc \in {"header", "syncheader"} \/ ~segs[N].header THEN -1
                                      ELSE Len(segs[N].lines)
  /\ pc = "sync" => segs[N].durable = Len(segs[N].lines) - 1
  /\ pc \notin Creating => segs[N].linked

OnDisk ==
  Clean => /\ pc # "poisoned"
           /\ \A i \in 1..N-1 : segs[i].durable = Len(segs[i].lines) /\ segs[i].linked
           /\ N > 0 => LastDurable

\* Where an acknowledged line is.
Kept(line) ==
  \E i \in 1..N : \E k \in 1..Len(segs[i].lines) :
    segs[i].lines[k] = line /\ (Clean => k <= segs[i].durable)

Promises ==
  Safe => /\ \A line \in acked : Kept(line)
          /\ pc = "sync" => cur \notin acked

\* What was inherited is still there.
Inherited ==
  /\ Safe => \A f \in forks : f \in Seq(Line)
  /\ Calm => \A f \in forks : IsPrefix(f, Events)

Types ==
  /\ segs \in Seq(Segment)
  /\ pc \in States
  /\ lastSeq \in Nat /\ segEvents \in Nat /\ segBytes \in Nat
  /\ cur \in Line \cup {NoLine}
  /\ appends \in 0..MaxAppends /\ faults \in 0..MaxFaults
  /\ happened \subseteq {"process", "power", "io"}
  /\ \E kinds \in FaultModels : happened \subseteq kinds
  /\ acked \subseteq Line

WInv == Types /\ HeaderFirst /\ Sound /\ Place /\ Remembered /\ Pending /\ Counted
SInv == WInv /\ OnDisk /\ Promises /\ Inherited

----------------------------------------------------------------------------
(* Induction over the natural numbers, for a set. *)

Below == { x \in Nat \X Nat : x[1] < x[2] }

LEMMA BelowWellFounded == IsWellFoundedOn(Below, Nat)
BY NatLessThanWellFounded DEF OpToRel, Below

LEMMA Smallest ==
  ASSUME NEW T, T \subseteq Nat, T # {}
  PROVE  \E m \in T : \A n \in T : m <= n
<1>1. PICK m \in T : \A n \in T : <<n, m>> \notin Below
  BY BelowWellFounded, WFMin
<1>2. ASSUME NEW n \in T PROVE m <= n
  <2>1. <<n, m>> \in Nat \X Nat /\ <<n, m>>[1] = n /\ <<n, m>>[2] = m
    OBVIOUS
  <2>2. ~(n < m)
    BY <1>1, <2>1 DEF Below
  <2> QED BY <2>2
<1> QED BY <1>2

LEMMA Induct ==
  ASSUME NEW T, T \subseteq Nat, 0 \in T, \A n \in T : n + 1 \in T
  PROVE  T = Nat
<1> SUFFICES ASSUME Nat \ T # {} PROVE FALSE
  OBVIOUS
<1>1. PICK m \in Nat \ T : \A n \in Nat \ T : m <= n
  <2> DEFINE U == Nat \ T
  <2>1. U \subseteq Nat /\ U # {}
    OBVIOUS
  <2> HIDE DEF U
  <2>2. \E m \in U : \A n \in U : m <= n
    BY <2>1, Smallest
  <2> QED BY <2>2 DEF U
<1>2. m - 1 \in Nat
  BY <1>1
<1>3. m - 1 \in T
  BY <1>1, <1>2
<1> QED BY <1>1, <1>3

----------------------------------------------------------------------------
(* What the recursive definitions compute. *)

\* The table that FlattenSeq fills.
Table(f, w, S) ==
  /\ f \in [1..Len(w) -> Seq(S)]
  /\ Len(w) > 0 => f[1] = w[1]
  /\ \A i \in 2..Len(w) : f[i] = f[i-1] \o w[i]

LEMMA TableExists ==
  ASSUME NEW S, NEW w \in Seq(Seq(S))
  PROVE  \E f : Table(f, w, S)
<1> DEFINE Filled(k, f) == /\ f \in [1..k -> Seq(S)]
                           /\ k > 0 => f[1] = w[1]
                           /\ \A i \in 2..k : f[i] = f[i-1] \o w[i]
           Has(k) == \E f : Filled(k, f)
           T == { k \in Nat : k <= Len(w) => Has(k) }
<1>1. 0 \in T
  <2> DEFINE e == [i \in 1..0 |-> w[i]]
  <2>1. e \in [1..0 -> Seq(S)]
    OBVIOUS
  <2>2. Filled(0, e)
    BY <2>1
  <2> QED BY <2>2
<1>2. ASSUME NEW k \in T PROVE k + 1 \in T
  <2> HIDE DEF Has
  <2> SUFFICES ASSUME k + 1 <= Len(w) PROVE Has(k + 1)
    OBVIOUS
  <2>0. k \in Nat /\ Has(k)
    OBVIOUS
  <2>1. PICK f : Filled(k, f)
    BY <2>0 DEF Has
  <2> DEFINE x == IF k = 0 THEN w[1] ELSE f[k] \o w[k+1]
             g == [i \in 1..k+1 |-> IF i = k + 1 THEN x ELSE f[i]]
  <2>2. x \in Seq(S)
    <3>1. w[k+1] \in Seq(S)
      OBVIOUS
    <3>2. k # 0 => f[k] \in Seq(S)
      BY <2>1
    <3> QED BY <3>1, <3>2
  <2>3. x = IF k = 0 THEN w[1] ELSE f[k] \o w[k+1]
    OBVIOUS
  <2> HIDE DEF x
  <2>4. g \in [1..k+1 -> Seq(S)]
    BY <2>1, <2>2
  <2>5. g[1] = w[1]
    BY <2>1, <2>3
  <2>6. ASSUME NEW i \in 2..k+1 PROVE g[i] = g[i-1] \o w[i]
    <3>1. CASE i = k + 1
      <4>1. k # 0 /\ k \in 1..k+1 /\ k # k + 1 /\ k + 1 \in 1..k+1 /\ (k + 1) - 1 = k
        BY <2>0, <3>1
      <4>2. g[k+1] = x /\ g[k] = f[k]
        BY <4>1
      <4> QED BY <2>3, <3>1, <4>1, <4>2
    <3>2. CASE i # k + 1
      <4>1. i \in 2..k /\ i - 1 \in 1..k+1 /\ i - 1 # k + 1 /\ i \in 1..k+1
        BY <2>0, <3>2
      <4>2. g[i] = f[i] /\ g[i-1] = f[i-1]
        BY <3>2, <4>1
      <4> QED BY <2>1, <4>1, <4>2
    <3> QED BY <3>1, <3>2
  <2>7. Filled(k + 1, g)
    BY <2>4, <2>5, <2>6
  <2> QED BY <2>7 DEF Has
<1> HIDE DEF Has
<1>3. T = Nat
  <2>1. T \subseteq Nat
    OBVIOUS
  <2> HIDE DEF T
  <2> QED BY <1>1, <1>2, <2>1, Induct
<1>4. Has(Len(w))
  <2>1. Len(w) \in T /\ Len(w) <= Len(w)
    BY <1>3
  <2> QED BY <2>1
<1> QED BY <1>4 DEF Has, Table

Begins(w, v) == Len(w) <= Len(v) /\ \A i \in 1..Len(w) : w[i] = v[i]

LEMMA TableUnique ==
  ASSUME NEW S, NEW w \in Seq(Seq(S)), NEW f, Table(f, w, S),
         NEW v \in Seq(Seq(S)), NEW g, Table(g, v, S),
         Begins(w, v)
  PROVE  \A i \in 1..Len(w) : f[i] = g[i]
<1>0. Len(w) <= Len(v) /\ \A i \in 1..Len(w) : w[i] = v[i]
  BY DEF Begins
<1> DEFINE T == { k \in Nat : k + 1 <= Len(w) => f[k+1] = g[k+1] }
<1>1. 0 \in T
  BY <1>0 DEF Table
<1>2. ASSUME NEW k \in T PROVE k + 1 \in T
  <2> SUFFICES ASSUME k + 2 <= Len(w) PROVE f[k+2] = g[k+2]
    OBVIOUS
  <2>1. f[k+1] = g[k+1]
    OBVIOUS
  <2>2. f[k+2] = f[k+1] \o w[k+2] /\ g[k+2] = g[k+1] \o v[k+2]
    <3> DEFINE m == k + 2
    <3>1. m \in 2..Len(w) /\ m \in 2..Len(v) /\ m - 1 = k + 1
      BY <1>0
    <3> HIDE DEF m
    <3>2. f[m] = f[m-1] \o w[m]
      BY <3>1 DEF Table
    <3>3. g[m] = g[m-1] \o v[m]
      BY <3>1 DEF Table
    <3> QED BY <3>1, <3>2, <3>3 DEF m
  <2>3. w[k+2] = v[k+2]
    BY <1>0
  <2> QED BY <2>1, <2>2, <2>3
<1>3. T = Nat
  <2>1. T \subseteq Nat
    OBVIOUS
  <2> HIDE DEF T
  <2> QED BY <1>1, <1>2, <2>1, Induct
<1>4. ASSUME NEW i \in 1..Len(w) PROVE f[i] = g[i]
  <2>1. i - 1 \in Nat /\ (i - 1) + 1 = i
    OBVIOUS
  <2>2. i - 1 \in T
    BY <1>3, <2>1
  <2> QED BY <2>1, <2>2
<1> QED BY <1>4

LEMMA FlattenIs ==
  ASSUME NEW S, NEW w \in Seq(Seq(S)), NEW f, Table(f, w, S)
  PROVE  FlattenSeq(w) = IF Len(w) = 0 THEN w ELSE f[Len(w)]
<1>1. CASE Len(w) = 0
  BY <1>1 DEF FlattenSeq
<1>2. CASE Len(w) # 0
  <2> DEFINE Fills(h) == h = [i \in 1..Len(w) |-> IF i = 1 THEN w[i] ELSE h[i-1] \o w[i]]
  <2>1. Fills(f)
    <3>1. DOMAIN f = 1..Len(w) /\ f = [i \in 1..Len(w) |-> f[i]]
      BY DEF Table
    <3>2. ASSUME NEW i \in 1..Len(w) PROVE f[i] = IF i = 1 THEN w[i] ELSE f[i-1] \o w[i]
      <4>1. CASE i = 1
        BY <1>2, <4>1 DEF Table
      <4>2. CASE i # 1
        <5>1. i \in 2..Len(w)
          BY <4>2
        <5>2. \A j \in 2..Len(w) : f[j] = f[j-1] \o w[j]
          BY DEF Table
        <5> QED BY <4>2, <5>1, <5>2
      <4> QED BY <4>1, <4>2
    <3> QED BY <3>1, <3>2
  <2> DEFINE c == CHOOSE h : Fills(h)
  <2>2. Fills(c)
    BY <2>1
  <2>3. FlattenSeq(w) = c[Len(w)]
    BY <1>2 DEF FlattenSeq
  <2> HIDE DEF c
  <2> DEFINE T == { k \in Nat : k + 1 <= Len(w) => c[k+1] = f[k+1] }
  <2>4. 0 \in T
    BY <2>2, <1>2 DEF Table
  <2>5. ASSUME NEW k \in T PROVE k + 1 \in T
    <3> SUFFICES ASSUME k + 2 <= Len(w) PROVE c[k+2] = f[k+2]
      OBVIOUS
    <3> DEFINE m == k + 2
    <3>1. m \in 2..Len(w) /\ m \in 1..Len(w) /\ m - 1 = k + 1 /\ m # 1 /\ c[k+1] = f[k+1]
      OBVIOUS
    <3> HIDE DEF m
    <3>2. c[m] = c[m-1] \o w[m]
      BY <2>2, <3>1
    <3>3. f[m] = f[m-1] \o w[m]
      <4>1. \A j \in 2..Len(w) : f[j] = f[j-1] \o w[j]
        BY DEF Table
      <4> QED BY <3>1, <4>1
    <3>4. c[m] = f[m]
      BY <3>1, <3>2, <3>3
    <3> QED BY <3>4 DEF m
  <2>6. T = Nat
    <3>1. T \subseteq Nat
      OBVIOUS
    <3> HIDE DEF T
    <3> QED BY <2>4, <2>5, <3>1, Induct
  <2>7. c[Len(w)] = f[Len(w)]
    <3>1. Len(w) - 1 \in Nat /\ (Len(w) - 1) + 1 = Len(w)
      BY <1>2
    <3>2. Len(w) - 1 \in T
      BY <2>6, <3>1
    <3> QED BY <3>1, <3>2
  <2> QED BY <1>2, <2>3, <2>7
<1> QED BY <1>1, <1>2

LEMMA FlattenAppend ==
  ASSUME NEW S, NEW w \in Seq(Seq(S)), NEW x \in Seq(S)
  PROVE  FlattenSeq(Append(w, x)) = FlattenSeq(w) \o x
<1> DEFINE v == Append(w, x)
<1>1. /\ v \in Seq(Seq(S)) /\ Len(v) = Len(w) + 1 /\ v[Len(w) + 1] = x
      /\ \A i \in 1..Len(w) : w[i] = v[i]
  OBVIOUS
<1> HIDE DEF v
<1>2. PICK f : Table(f, w, S)
  BY TableExists
<1>3. PICK g : Table(g, v, S)
  BY <1>1, TableExists
<1>4. FlattenSeq(v) = g[Len(w) + 1]
  BY <1>1, <1>3, FlattenIs
<1>5. FlattenSeq(w) = IF Len(w) = 0 THEN w ELSE f[Len(w)]
  BY <1>2, FlattenIs
<1>6. CASE Len(w) = 0
  <2>1. g[1] = x
    BY <1>1, <1>3, <1>6 DEF Table
  <2>2. w = <<>>
    BY <1>6
  <2> QED BY <1>4, <1>5, <1>6, <2>1, <2>2 DEF v
<1>7. CASE Len(w) # 0
  <2>1. \A i \in 1..Len(w) : f[i] = g[i]
    <3>1. Begins(w, v)
      BY <1>1 DEF Begins
    <3> QED BY <1>1, <1>2, <1>3, <3>1, TableUnique
  <2>2. g[Len(w) + 1] = g[Len(w)] \o x
    <3>1. Len(w) + 1 \in 2..Len(v) /\ (Len(w) + 1) - 1 = Len(w)
      BY <1>1, <1>7
    <3> QED BY <1>1, <1>3, <3>1 DEF Table
  <2>3. f[Len(w)] = g[Len(w)]
    BY <2>1, <1>7
  <2> QED BY <1>4, <1>5, <1>7, <2>2, <2>3 DEF v
<1> QED BY <1>6, <1>7

LEMMA FlattenType ==
  ASSUME NEW S, NEW w \in Seq(Seq(S))
  PROVE  FlattenSeq(w) \in Seq(S)
<1>1. PICK f : Table(f, w, S)
  BY TableExists
<1>2. CASE Len(w) = 0
  <2>1. FlattenSeq(w) = w
    BY <1>1, <1>2, FlattenIs
  <2>2. w = <<>>
    BY <1>2
  <2>3. <<>> \in Seq(S)
    OBVIOUS
  <2> QED BY <2>1, <2>2, <2>3
<1>3. CASE Len(w) # 0
  <2>1. FlattenSeq(w) = f[Len(w)] /\ Len(w) \in 1..Len(w)
    BY <1>1, <1>3, FlattenIs
  <2> QED BY <1>1, <2>1 DEF Table
<1> QED BY <1>2, <1>3

LEMMA FlattenNothing == FlattenSeq(<<>>) = <<>>
BY DEF FlattenSeq

LEMMA SumsExist ==
  ASSUME NEW n \in Nat, NEW w \in [1..n -> Nat]
  PROVE  \E f \in [0..n -> Nat] : f[0] = HeaderSize /\ \A i \in 1..n : f[i] = f[i-1] + w[i]
<1> DEFINE Filled(k, f) == /\ f \in [0..k -> Nat]
                           /\ f[0] = HeaderSize
                           /\ \A i \in 1..k : f[i] = f[i-1] + w[i]
           Has(k) == \E f : Filled(k, f)
           T == { k \in Nat : k <= n => Has(k) }
<1>1. 0 \in T
  <2> DEFINE e == [i \in 0..0 |-> HeaderSize]
  <2>1. e \in [0..0 -> Nat] /\ e[0] = HeaderSize
    BY SegmentAssumption
  <2>2. Filled(0, e)
    BY <2>1
  <2> QED BY <2>2
<1>2. ASSUME NEW k \in T PROVE k + 1 \in T
  <2> HIDE DEF Has
  <2> SUFFICES ASSUME k + 1 <= n PROVE Has(k + 1)
    OBVIOUS
  <2>0. k \in Nat /\ Has(k)
    OBVIOUS
  <2>1. PICK f : Filled(k, f)
    BY <2>0 DEF Has
  <2> DEFINE g == [i \in 0..k+1 |-> IF i = k + 1 THEN f[k] + w[k+1] ELSE f[i]]
  <2>2. f[k] + w[k+1] \in Nat
    BY <2>1
  <2>3. g \in [0..k+1 -> Nat]
    BY <2>1, <2>2
  <2>4. g[0] = HeaderSize
    BY <2>1
  <2>5. ASSUME NEW i \in 1..k+1 PROVE g[i] = g[i-1] + w[i]
    <3>1. i - 1 \in 0..k+1 /\ i - 1 # k + 1 /\ i \in 0..k+1
      BY <2>0
    <3>2. g[i-1] = f[i-1]
      BY <3>1
    <3>3. CASE i = k + 1
      BY <2>0, <3>1, <3>2, <3>3
    <3>4. CASE i # k + 1
      <4>1. i \in 1..k /\ g[i] = f[i]
        BY <2>0, <3>1, <3>4
      <4> QED BY <2>1, <3>2, <4>1
    <3> QED BY <3>3, <3>4
  <2>6. Filled(k + 1, g)
    BY <2>3, <2>4, <2>5
  <2> QED BY <2>6 DEF Has
<1> HIDE DEF Has
<1>3. T = Nat
  <2>1. T \subseteq Nat
    OBVIOUS
  <2> HIDE DEF T
  <2> QED BY <1>1, <1>2, <2>1, Induct
<1>4. Has(n)
  <2>1. n \in T /\ n <= n
    BY <1>3
  <2> QED BY <2>1
<1> QED BY <1>4 DEF Has

\* The sums that Bytes goes through.
LEMMA BytesTable ==
  ASSUME NEW seg, seg.lines \in Seq(Line)
  PROVE  \E f \in [0..Len(seg.lines) -> Nat] :
           /\ f[0] = HeaderSize
           /\ \A i \in 1..Len(seg.lines) : f[i] = f[i-1] + seg.lines[i].size
           /\ Bytes(seg) = f[Len(seg.lines)]
<1> DEFINE n == Len(seg.lines)
           w == [i \in 1..n |-> seg.lines[i].size]
           Fills(h) == h = [i \in 0..n |-> IF i = 0 THEN HeaderSize ELSE h[i-1] + seg.lines[i].size]
           c == CHOOSE h : Fills(h)
<1>1. n \in Nat /\ w \in [1..n -> Nat]
  <2>1. \A i \in 1..n : seg.lines[i] \in Line
    OBVIOUS
  <2>2. \A i \in 1..n : seg.lines[i].size \in Nat
    BY <2>1, SegmentAssumption DEF Line
  <2> QED BY <2>2
<1>2. PICK f \in [0..n -> Nat] : f[0] = HeaderSize /\ \A i \in 1..n : f[i] = f[i-1] + w[i]
  <2> HIDE DEF n, w
  <2> QED BY <1>1, SumsExist
<1>3. \A i \in 1..n : f[i] = f[i-1] + seg.lines[i].size
  BY <1>2
<1>4. Fills(f)
  <2> HIDE DEF w
  <2> QED BY <1>2, <1>3
<1>5. Fills(c)
  BY <1>4
<1>6. Bytes(seg) = c[n]
  BY DEF Bytes
<1> HIDE DEF c
<1>7. c[0] = HeaderSize /\ \A i \in 1..n : c[i] = c[i-1] + seg.lines[i].size
  <2>1. \A i \in 0..n : c[i] = IF i = 0 THEN HeaderSize ELSE c[i-1] + seg.lines[i].size
    BY <1>5
  <2>2. 0 \in 0..n /\ \A i \in 1..n : i \in 0..n /\ i # 0
    BY <1>1
  <2> HIDE DEF n, Fills
  <2> QED BY <2>1, <2>2
<1> DEFINE T == { k \in Nat : k <= n => c[k] = f[k] }
<1>8. 0 \in T
  BY <1>2, <1>7
<1>9. ASSUME NEW k \in T PROVE k + 1 \in T
  <2> SUFFICES ASSUME k + 1 <= n PROVE c[k+1] = f[k+1]
    OBVIOUS
  <2>1. k + 1 \in 1..n /\ (k + 1) - 1 = k /\ c[k] = f[k]
    OBVIOUS
  <2>2. c[k+1] = c[k] + seg.lines[k+1].size /\ f[k+1] = f[k] + seg.lines[k+1].size
    BY <1>3, <1>7, <2>1
  <2> QED BY <2>1, <2>2
<1>10. T = Nat
  <2>1. T \subseteq Nat
    OBVIOUS
  <2> HIDE DEF T
  <2> QED BY <1>8, <1>9, <2>1, Induct
<1>11. c[n] = f[n]
  BY <1>10, <1>1
<1> QED BY <1>2, <1>3, <1>6, <1>11

LEMMA BytesType == ASSUME NEW seg, seg.lines \in Seq(Line) PROVE Bytes(seg) \in Nat
<1>1. Len(seg.lines) \in 0..Len(seg.lines)
  OBVIOUS
<1> QED BY <1>1, BytesTable

LEMMA BytesOfNone == ASSUME NEW seg, seg.lines = <<>> PROVE Bytes(seg) = HeaderSize
<1>1. seg.lines \in Seq(Line) /\ Len(seg.lines) = 0
  OBVIOUS
<1> QED BY <1>1, BytesTable

LEMMA BytesOfSame ==
  ASSUME NEW s, NEW t, s.lines = t.lines
  PROVE  Bytes(s) = Bytes(t)
BY DEF Bytes

LEMMA BytesAppend ==
  ASSUME NEW s, s.lines \in Seq(Line), NEW x \in Line, NEW t, t.lines = Append(s.lines, x)
  PROVE  Bytes(t) = Bytes(s) + x.size
<1> DEFINE n == Len(s.lines)
<1>1. /\ t.lines \in Seq(Line) /\ Len(t.lines) = n + 1 /\ t.lines[n+1] = x /\ n \in Nat
      /\ \A i \in 1..n : t.lines[i] = s.lines[i]
  OBVIOUS
<1>2. PICK f \in [0..n -> Nat] :
           /\ f[0] = HeaderSize
           /\ \A i \in 1..n : f[i] = f[i-1] + s.lines[i].size
           /\ Bytes(s) = f[n]
  BY BytesTable
<1> HIDE DEF n
<1>3. PICK g \in [0..n+1 -> Nat] :
           /\ g[0] = HeaderSize
           /\ \A i \in 1..n+1 : g[i] = g[i-1] + t.lines[i].size
           /\ Bytes(t) = g[n+1]
  BY <1>1, BytesTable
<1> DEFINE T == { k \in Nat : k <= n => g[k] = f[k] }
<1>4. 0 \in T
  BY <1>2, <1>3
<1>5. ASSUME NEW k \in T PROVE k + 1 \in T
  <2> SUFFICES ASSUME k + 1 <= n PROVE g[k+1] = f[k+1]
    OBVIOUS
  <2>1. k + 1 \in 1..n /\ k + 1 \in 1..n+1 /\ (k + 1) - 1 = k /\ g[k] = f[k]
    BY <1>1
  <2>2. g[k+1] = g[k] + t.lines[k+1].size /\ f[k+1] = f[k] + s.lines[k+1].size
    BY <1>2, <1>3, <2>1
  <2> QED BY <1>1, <2>1, <2>2
<1>6. T = Nat
  <2>1. T \subseteq Nat
    OBVIOUS
  <2> HIDE DEF T
  <2> QED BY <1>4, <1>5, <2>1, Induct
<1>7. g[n] = f[n]
  <2>1. n \in T
    <3> HIDE DEF T
    <3> QED BY <1>1, <1>6
  <2> QED BY <1>1, <2>1
<1>8. g[n+1] = g[n] + t.lines[n+1].size
  <2>1. n + 1 \in 1..n+1 /\ (n + 1) - 1 = n
    BY <1>1
  <2> QED BY <1>3, <2>1
<1> QED BY <1>1, <1>2, <1>3, <1>7, <1>8

----------------------------------------------------------------------------
(* The log that a sequence of segments holds. *)

\* The lines of the first m segments.
Upto(w, m) == FlattenSeq([i \in 1..m |-> w[i].lines])

\* The seq that the line after the first m segments has.
After(w, m) == IF m = 0 THEN FirstSeq ELSE w[m].first + Len(w[m].lines)

Numbers(seg) == \A k \in 1..Len(seg.lines) : seg.lines[k].seq = seg.first + k - 1

\* No scan finds damage.
Intact(w) ==
  \A i \in 1..Len(w) : /\ i < Len(w) => w[i].header /\ ~w[i].torn
                       /\ w[i].header => w[i].first = After(w, i - 1)
                       /\ Numbers(w[i])

Headed(w) == \A i \in 1..Len(w) : ~w[i].header => w[i].lines = <<>>

\* Where the lines of a segment are in the log.
Spread(e, seg) ==
  \A k \in 1..Len(seg.lines) : /\ seg.first - FirstSeq + k \in 1..Len(e)
                               /\ e[seg.first - FirstSeq + k] = seg.lines[k]

Numbered(e) == \A n \in 1..Len(e) : e[n].seq = FirstSeq + n - 1

LEMMA SegmentFields ==
  ASSUME NEW w \in Seq(Segment), NEW i \in 1..Len(w)
  PROVE  /\ w[i] \in Segment /\ w[i].first \in Nat /\ w[i].lines \in Seq(Line)
         /\ w[i].header \in BOOLEAN /\ w[i].torn \in BOOLEAN /\ w[i].linked \in BOOLEAN
         /\ w[i].durable \in Int /\ Len(w[i].lines) \in Nat
<1>1. w[i] \in Segment
  OBVIOUS
<1>2. w[i].lines \in Seq(Line)
  BY <1>1 DEF Segment
<1> QED BY <1>1, <1>2 DEF Segment

LEMMA LinesType ==
  ASSUME NEW w \in Seq(Segment), NEW m \in 0..Len(w)
  PROVE  [i \in 1..m |-> w[i].lines] \in Seq(Seq(Line))
<1>1. \A i \in 1..m : w[i].lines \in Seq(Line)
  BY SegmentFields
<1> QED BY <1>1

LEMMA UptoType ==
  ASSUME NEW w \in Seq(Segment), NEW m \in 0..Len(w)
  PROVE  Upto(w, m) \in Seq(Line)
BY LinesType, FlattenType DEF Upto

LEMMA UptoNone == ASSUME NEW w PROVE Upto(w, 0) = <<>>
<1>1. [i \in 1..0 |-> w[i].lines] = <<>>
  OBVIOUS
<1> QED BY <1>1, FlattenNothing DEF Upto

LEMMA UptoNext ==
  ASSUME NEW w \in Seq(Segment), NEW m \in 1..Len(w)
  PROVE  Upto(w, m) = Upto(w, m - 1) \o w[m].lines
<1> DEFINE a == [i \in 1..m-1 |-> w[i].lines]
           b == [i \in 1..m |-> w[i].lines]
<1>1. a \in Seq(Seq(Line)) /\ w[m].lines \in Seq(Line) /\ Len(a) = m - 1
  <2>1. m - 1 \in 0..Len(w)
    OBVIOUS
  <2> QED BY <2>1, LinesType, SegmentFields
<1>2. b = Append(a, w[m].lines)
  <2>1. \A i \in 1..m-1 : b[i] = a[i]
    OBVIOUS
  <2>2. b[m] = w[m].lines /\ b \in Seq(Seq(Line)) /\ Len(b) = m
    BY LinesType
  <2> HIDE DEF a, b
  <2> QED BY <1>1, <2>1, <2>2
<1> HIDE DEF a, b
<1>3. FlattenSeq(b) = FlattenSeq(a) \o w[m].lines
  BY <1>1, <1>2, FlattenAppend
<1> QED BY <1>3 DEF Upto, a, b

LEMMA UptoSame ==
  ASSUME NEW w, NEW v, NEW m \in Nat, \A i \in 1..m : w[i].lines = v[i].lines
  PROVE  Upto(w, m) = Upto(v, m)
<1>1. [i \in 1..m |-> w[i].lines] = [i \in 1..m |-> v[i].lines]
  OBVIOUS
<1> QED BY <1>1 DEF Upto

\* The log up to a segment, with what is known of its lines.
Laid(w, m) ==
  /\ Len(Upto(w, m)) = After(w, m) - FirstSeq
  /\ Numbered(Upto(w, m))
  /\ \A i \in 1..m : Spread(Upto(w, m), w[i])

LEMMA LaidNext ==
  ASSUME NEW w \in Seq(Segment), NEW m \in 1..Len(w), Laid(w, m - 1),
         w[m].first = After(w, m - 1), Numbers(w[m])
  PROVE  Laid(w, m)
<1> DEFINE d == Upto(w, m - 1)
           e == Upto(w, m)
           x == w[m].lines
<1>1. /\ d \in Seq(Line) /\ e \in Seq(Line) /\ x \in Seq(Line)
      /\ e = d \o x /\ w[m].first \in Nat /\ FirstSeq \in Nat
  <2>1. m - 1 \in 0..Len(w) /\ m \in 0..Len(w)
    OBVIOUS
  <2> QED BY <2>1, UptoType, UptoNext, SegmentFields, SegmentAssumption
<1>2. Len(d) = w[m].first - FirstSeq /\ Numbered(d) /\ \A i \in 1..m-1 : Spread(d, w[i])
  BY DEF Laid
<1>3. After(w, m) = w[m].first + Len(x)
  BY DEF After
<1>4. \A k \in 1..Len(x) : x[k].seq = w[m].first + k - 1
  BY DEF Numbers
<1>5. \A i \in 1..m-1 : w[i].first \in Nat /\ Len(w[i].lines) \in Nat
  BY SegmentFields
<1>20. \A n \in 1..Len(d) : d[n].seq = FirstSeq + n - 1
  BY <1>2 DEF Numbered
<1>21. \A i \in 1..m-1 : \A k \in 1..Len(w[i].lines) :
          /\ w[i].first - FirstSeq + k \in 1..Len(d)
          /\ d[w[i].first - FirstSeq + k] = w[i].lines[k]
  BY <1>2 DEF Spread
<1> HIDE DEF d, e, x
<1>6. /\ Len(e) = Len(d) + Len(x) /\ Len(d) \in Nat /\ Len(x) \in Nat
      /\ \A n \in 1..Len(d) : e[n] = d[n]
      /\ \A k \in 1..Len(x) : e[Len(d) + k] = x[k]
  BY <1>1
<1>7. Len(e) = After(w, m) - FirstSeq
  BY <1>1, <1>2, <1>3, <1>6
<1>8. Numbered(e)
  <2> SUFFICES ASSUME NEW n \in 1..Len(e) PROVE e[n].seq = FirstSeq + n - 1
    BY DEF Numbered
  <2>1. CASE n <= Len(d)
    <3>1. n \in 1..Len(d)
      BY <1>6, <2>1
    <3> QED BY <1>6, <1>20, <3>1
  <2>2. CASE n > Len(d)
    <3> DEFINE k == n - Len(d)
    <3>1. k \in 1..Len(x) /\ n = Len(d) + k /\ n \in Nat
      BY <1>6, <2>2
    <3> HIDE DEF k
    <3>2. e[n] = x[k] /\ x[k].seq = w[m].first + k - 1
      BY <1>4, <1>6, <3>1
    <3>3. Len(d) = w[m].first - FirstSeq
      BY <1>2
    <3>4. w[m].first + k - 1 = FirstSeq + n - 1
      <4> DEFINE first == w[m].first
                 len == Len(d)
      <4>1. /\ first \in Nat /\ FirstSeq \in Nat /\ k \in Nat /\ len \in Nat
            /\ n = len + k /\ len = first - FirstSeq
        BY <1>1, <1>6, <3>1, <3>3
      <4> HIDE DEF first, len
      <4>2. first + k - 1 = FirstSeq + n - 1
        BY <4>1
      <4> QED BY <4>2 DEF first
    <3> QED BY <3>2, <3>4
  <2> QED BY <1>6, <2>1, <2>2
<1>9. ASSUME NEW i \in 1..m PROVE Spread(e, w[i])
  <2>1. CASE i = m
    <3> SUFFICES ASSUME NEW k \in 1..Len(x)
                 PROVE  /\ w[m].first - FirstSeq + k \in 1..Len(e)
                        /\ e[w[m].first - FirstSeq + k] = x[k]
      BY <2>1 DEF Spread, x
    <3>1. w[m].first - FirstSeq + k = Len(d) + k
      BY <1>2
    <3> QED BY <1>6, <3>1
  <2>2. CASE i # m
    <3>1. i \in 1..m-1
      BY <2>2
    <3> SUFFICES ASSUME NEW k \in 1..Len(w[i].lines)
                 PROVE  /\ w[i].first - FirstSeq + k \in 1..Len(e)
                        /\ e[w[i].first - FirstSeq + k] = w[i].lines[k]
      BY DEF Spread
    <3>2. /\ w[i].first - FirstSeq + k \in 1..Len(d)
          /\ d[w[i].first - FirstSeq + k] = w[i].lines[k]
      BY <1>21, <3>1
    <3> QED BY <1>6, <3>2
  <2> QED BY <2>1, <2>2
<1> QED BY <1>7, <1>8, <1>9 DEF Laid, e

LEMMA LaidUpto ==
  ASSUME NEW w \in Seq(Segment), NEW m \in 0..Len(w),
         \A i \in 1..m : w[i].first = After(w, i - 1) /\ Numbers(w[i])
  PROVE  Laid(w, m)
<1> DEFINE T == { j \in Nat : j <= m => Laid(w, j) }
<1>1. 0 \in T
  <2>1. Upto(w, 0) = <<>> /\ After(w, 0) = FirstSeq
    BY UptoNone DEF After
  <2>2. Laid(w, 0)
    BY <2>1, SegmentAssumption DEF Laid, Numbered
  <2> QED BY <2>2
<1>2. ASSUME NEW j \in T PROVE j + 1 \in T
  <2> SUFFICES ASSUME j + 1 <= m PROVE Laid(w, j + 1)
    OBVIOUS
  <2> DEFINE n == j + 1
  <2>1. j \in Nat /\ Laid(w, j) /\ n \in 1..m /\ n \in 1..Len(w) /\ n - 1 = j
    OBVIOUS
  <2> HIDE DEF n
  <2>2. Laid(w, n)
    BY <2>1, LaidNext
  <2> QED BY <2>2 DEF n
<1>3. T = Nat
  <2>1. T \subseteq Nat
    OBVIOUS
  <2> HIDE DEF T
  <2> QED BY <1>1, <1>2, <2>1, Induct
<1> QED BY <1>3

\* The whole log of intact segments: numbered without a gap, every line at its place.
LEMMA LogIs ==
  ASSUME NEW w \in Seq(Segment), Intact(w), Headed(w)
  PROVE  LET e == Upto(w, Len(w))
         IN /\ e \in Seq(Line)
            /\ Numbered(e)
            /\ \A i \in 1..Len(w) : Spread(e, w[i])
            /\ Len(w) = 0 => e = <<>>
            /\ Len(w) > 0 /\ w[Len(w)].header => Len(e) = w[Len(w)].first + Len(w[Len(w)].lines) - FirstSeq
<1>0. Len(w) \in Nat /\ Upto(w, Len(w)) \in Seq(Line)
  <2>1. Len(w) \in 0..Len(w)
    OBVIOUS
  <2> QED BY <2>1, UptoType
<1>1. CASE Len(w) = 0
  BY <1>0, <1>1, UptoNone DEF Numbered
<1>2. CASE Len(w) > 0 /\ w[Len(w)].header
  <2>1. \A i \in 1..Len(w) : w[i].first = After(w, i - 1) /\ Numbers(w[i])
    BY <1>2 DEF Intact
  <2>2. Laid(w, Len(w))
    <3>1. Len(w) \in 0..Len(w)
      OBVIOUS
    <3> QED BY <2>1, <3>1, LaidUpto
  <2>3. After(w, Len(w)) = w[Len(w)].first + Len(w[Len(w)].lines)
    BY <1>2 DEF After
  <2>4. /\ Len(Upto(w, Len(w))) = w[Len(w)].first + Len(w[Len(w)].lines) - FirstSeq
        /\ Numbered(Upto(w, Len(w)))
        /\ \A i \in 1..Len(w) : Spread(Upto(w, Len(w)), w[i])
    <3>1. Len(Upto(w, Len(w))) = After(w, Len(w)) - FirstSeq
      BY <2>2 DEF Laid
    <3>2. Numbered(Upto(w, Len(w))) /\ \A i \in 1..Len(w) : Spread(Upto(w, Len(w)), w[i])
      BY <2>2 DEF Laid
    <3> DEFINE first == w[Len(w)].first
               len == Len(w[Len(w)].lines)
    <3>3. first \in Nat /\ len \in Nat /\ FirstSeq \in Nat /\ After(w, Len(w)) = first + len
      <4>1. Len(w) \in 1..Len(w)
        BY <1>2
      <4> QED BY <2>3, <4>1, SegmentFields, SegmentAssumption
    <3> HIDE DEF first, len
    <3>4. Len(Upto(w, Len(w))) = first + len - FirstSeq
      BY <3>1, <3>3
    <3> QED BY <3>2, <3>4 DEF first, len
  <2> QED BY <1>0, <1>2, <2>4
<1>3. CASE Len(w) > 0 /\ ~w[Len(w)].header
  <2> DEFINE m == Len(w) - 1
  <2>1. m \in 0..Len(w) /\ m + 1 = Len(w)
    BY <1>3
  <2>2. \A i \in 1..m : w[i].first = After(w, i - 1) /\ Numbers(w[i])
    BY <2>1 DEF Intact
  <2> HIDE DEF m
  <2>3. Laid(w, m)
    BY <2>1, <2>2, LaidUpto
  <2>4. Upto(w, Len(w)) = Upto(w, m)
    <3>1. w[Len(w)].lines = <<>>
      BY <1>3 DEF Headed
    <3>2. Upto(w, Len(w)) = Upto(w, m) \o <<>>
      <4>1. Len(w) \in 1..Len(w) /\ Len(w) - 1 = m
        BY <1>3, <2>1
      <4> QED BY <3>1, <4>1, UptoNext
    <3>3. Upto(w, m) \in Seq(Line)
      BY <2>1, UptoType
    <3> QED BY <3>2, <3>3
  <2>5. ASSUME NEW i \in 1..Len(w) PROVE Spread(Upto(w, m), w[i])
    <3>1. CASE i = Len(w)
      BY <1>3, <3>1 DEF Headed, Spread
    <3>2. CASE i # Len(w)
      <4>1. i \in 1..m
        BY <2>1, <3>2
      <4> QED BY <2>3, <4>1 DEF Laid
    <3> QED BY <3>1, <3>2
  <2>6. Numbered(Upto(w, m))
    BY <2>3 DEF Laid
  <2> QED BY <1>0, <1>3, <2>4, <2>5, <2>6
<1> QED BY <1>0, <1>1, <1>2, <1>3

----------------------------------------------------------------------------
(* The segments of a state and of the next one. *)

LEMMA Undamaged == ~Corrupt <=> Intact(segs)
BY DEF Corrupt, Damaged, Intact, Expected, After, Numbers, N

LEMMA UndamagedNext == ~Corrupt' <=> Intact(segs')
BY DEF Corrupt, Damaged, Intact, Expected, After, Numbers, N

LEMMA EventsAre == Events = Upto(segs, N) /\ Events' = Upto(segs', Len(segs'))
BY DEF Events, Upto, N

\* What a scan that finds no damage finds.
LEMMA LogFound ==
  ASSUME Types, HeaderFirst, ~Corrupt
  PROVE  /\ N \in Nat
         /\ Events \in Seq(Line) /\ Numbered(Events)
         /\ \A i \in 1..N : Spread(Events, segs[i])
         /\ N = 0 => Events = <<>>
         /\ N > 0 /\ segs[N].header => LastOwnSeq = End(segs[N])
         /\ LastOwnSeq \in Nat
<1>1. segs \in Seq(Segment) /\ Intact(segs) /\ Headed(segs) /\ N \in Nat
  BY Undamaged DEF Types, HeaderFirst, Headed, N
<1>2. /\ Events \in Seq(Line) /\ Numbered(Events)
      /\ \A i \in 1..N : Spread(Events, segs[i])
      /\ N = 0 => Events = <<>>
      /\ N > 0 /\ segs[N].header => Len(Events) = segs[N].first + Len(segs[N].lines) - FirstSeq
  BY <1>1, LogIs, EventsAre DEF N
<1>3. ASSUME N > 0, segs[N].header PROVE LastOwnSeq = End(segs[N])
  <2> DEFINE first == segs[N].first
             len == Len(segs[N].lines)
             all == Len(Events)
  <2>1. first \in Nat /\ len \in Nat /\ FirstSeq \in Nat /\ all = first + len - FirstSeq
    <3>1. N \in 1..Len(segs)
      BY <1>1, <1>3 DEF N
    <3> QED BY <1>1, <1>2, <1>3, <3>1, SegmentFields, SegmentAssumption
  <2> HIDE DEF first, len, all
  <2>2. FirstSeq - 1 + all = first + len - 1
    BY <2>1
  <2> QED BY <2>2 DEF first, len, all, LastOwnSeq, End
<1>4. LastOwnSeq \in Nat
  <2>1. Len(Events) \in Nat /\ FirstSeq \in Nat /\ FirstSeq # 0
    BY <1>2, SegmentAssumption
  <2> QED BY <2>1 DEF LastOwnSeq
<1> QED BY <1>1, <1>2, <1>3, <1>4

LEMMA WithLast ==
  ASSUME NEW w \in Seq(Segment), Len(w) > 0, NEW s \in Segment,
         NEW v, v = [w EXCEPT ![Len(w)] = s]
  PROVE  /\ v \in Seq(Segment) /\ Len(v) = Len(w) /\ v[Len(w)] = s
         /\ \A i \in 1..Len(w)-1 : v[i] = w[i]
OBVIOUS

LEMMA WithNew ==
  ASSUME NEW w \in Seq(Segment), NEW s \in Segment, NEW v, v = Append(w, s)
  PROVE  /\ v \in Seq(Segment) /\ Len(v) = Len(w) + 1 /\ v[Len(w) + 1] = s
         /\ \A i \in 1..Len(w) : v[i] = w[i]
OBVIOUS

LEMMA WithoutLast ==
  ASSUME NEW w \in Seq(Segment), Len(w) > 0, NEW v, v = Front(w)
  PROVE  /\ v \in Seq(Segment) /\ Len(v) = Len(w) - 1
         /\ \A i \in 1..Len(w)-1 : v[i] = w[i]
<1>1. v = SubSeq(w, 1, Len(w) - 1) /\ Len(w) \in Nat
  BY DEF Front
<1>2. 1 \in Int /\ Len(w) - 1 \in Int /\ \A i \in 1..Len(w)-1 : w[i] \in Segment
  BY <1>1
<1>3. /\ SubSeq(w, 1, Len(w) - 1) \in Seq(Segment)
      /\ Len(SubSeq(w, 1, Len(w) - 1)) = IF 1 <= Len(w) - 1 THEN (Len(w) - 1) - 1 + 1 ELSE 0
  BY <1>2, SubSeqProperties
<1>4. \A i \in 1..Len(w)-1 : SubSeq(w, 1, Len(w) - 1)[i] = w[i]
  BY <1>1
<1>5. (IF 1 <= Len(w) - 1 THEN (Len(w) - 1) - 1 + 1 ELSE 0) = Len(w) - 1
  <2> DEFINE n == Len(w)
  <2>1. n \in Nat /\ n > 0
    BY <1>1
  <2> HIDE DEF n
  <2>2. (IF 1 <= n - 1 THEN (n - 1) - 1 + 1 ELSE 0) = n - 1
    <3>1. CASE 1 <= n - 1
      BY <2>1, <3>1
    <3>2. CASE ~(1 <= n - 1)
      BY <2>1, <3>2
    <3> QED BY <3>1, <3>2
  <2> QED BY <2>2 DEF n
<1> QED BY <1>1, <1>3, <1>4, <1>5

\* What has to hold of a segment file that is the last one.
Proper(seg, before, count) ==
  /\ seg.header => seg.first = before
  /\ Numbers(seg)
  /\ ~seg.header => seg.lines = <<>> /\ seg.durable = -1
  /\ seg.durable <= Len(seg.lines)
  /\ End(seg) < FirstSeq + count

\* The last segment changes and is still proper.
LEMMA LastChanges ==
  ASSUME WInv, N > 0, NEW s \in Segment, segs' = [segs EXCEPT ![N] = s],
         ~Corrupt, appends' = appends, Proper(s, After(segs, N - 1), appends)
  PROVE  /\ N' = N /\ segs' \in Seq(Segment) /\ segs'[N] = s
         /\ \A i \in 1..N-1 : segs'[i] = segs[i]
         /\ HeaderFirst' /\ ~Corrupt'
         /\ \A i \in 1..N' : End(segs'[i]) < FirstSeq + appends'
         /\ Expected(N)' = Expected(N)
<1>1. segs \in Seq(Segment) /\ N = Len(segs) /\ N \in Nat
  BY DEF WInv, Types, N
<1>2. /\ N' = N /\ segs' \in Seq(Segment) /\ segs'[N] = s
      /\ \A i \in 1..N-1 : segs'[i] = segs[i]
  BY <1>1, WithLast DEF N
<1>3. \A i \in 1..N : i # N => segs'[i] = segs[i]
  BY <1>1, <1>2
<1>4. HeaderFirst'
  <2> SUFFICES ASSUME NEW i \in 1..N
               PROVE  /\ ~segs'[i].header => segs'[i].lines = <<>> /\ segs'[i].durable = -1
                      /\ segs'[i].durable <= Len(segs'[i].lines)
    BY <1>2 DEF HeaderFirst
  <2> QED BY <1>2, <1>3 DEF WInv, HeaderFirst, Proper
<1>5. ASSUME NEW i \in 1..N PROVE After(segs', i - 1) = After(segs, i - 1)
  <2>1. i = 1 \/ i - 1 \in 1..N-1
    BY <1>1
  <2> QED BY <1>2, <2>1 DEF After
<1>6. ~Corrupt'
  <2>1. Intact(segs)
    BY Undamaged
  <2>2. ASSUME NEW i \in 1..N
        PROVE  /\ i < N => segs'[i].header /\ ~segs'[i].torn
               /\ segs'[i].header => segs'[i].first = After(segs', i - 1)
               /\ Numbers(segs'[i])
    <3>1. CASE i = N
      <4>1. After(segs', N - 1) = After(segs, N - 1)
        <5>1. N \in 1..N
          BY <1>1
        <5> QED BY <1>5, <5>1
      <4> QED BY <1>1, <1>2, <3>1, <4>1 DEF Proper
    <3>2. CASE i # N
      BY <1>1, <1>3, <1>5, <2>1, <3>2 DEF Intact
    <3> QED BY <3>1, <3>2
  <2>3. Intact(segs')
    BY <1>1, <1>2, <2>2 DEF Intact, N
  <2> QED BY <2>3, UndamagedNext
<1>7. ASSUME NEW i \in 1..N PROVE End(segs'[i]) < FirstSeq + appends'
  BY <1>2, <1>3 DEF WInv, Counted, Proper
<1>8. Expected(N)' = Expected(N)
  <2>1. Expected(N)' = After(segs', N - 1) /\ Expected(N) = After(segs, N - 1)
    BY <1>1, <1>2 DEF Expected, After
  <2>2. N \in 1..N
    BY <1>1
  <2> QED BY <1>5, <2>1, <2>2
<1> QED BY <1>2, <1>4, <1>6, <1>7, <1>8

\* A new file, empty so far.
LEMMA SegmentAdded ==
  ASSUME WInv, NEW first \in Nat, NewSegment(first), ~Corrupt,
         N > 0 => segs[N].header /\ ~segs[N].torn,
         appends' \in Int, appends <= appends', first - 1 < FirstSeq + appends'
  PROVE  /\ N' = N + 1 /\ segs' \in Seq(Segment) /\ N \in Nat
         /\ segs'[N'].first = first /\ segs'[N'].header = FALSE /\ segs'[N'].lines = <<>>
         /\ segs'[N'].torn = FALSE /\ segs'[N'].durable = -1 /\ segs'[N'].linked = FALSE
         /\ \A i \in 1..N : segs'[i] = segs[i]
         /\ HeaderFirst' /\ ~Corrupt'
         /\ \A i \in 1..N' : End(segs'[i]) < FirstSeq + appends'
         /\ Expected(N)' = After(segs, N)
         /\ Events' = Events
<1> DEFINE s == [first |-> first, header |-> FALSE, lines |-> <<>>, torn |-> FALSE,
                 durable |-> -1, linked |-> FALSE]
<1>1. segs \in Seq(Segment) /\ N = Len(segs) /\ N \in Nat
  BY DEF WInv, Types, N
<1>2. s \in Segment
  <2>1. <<>> \in Seq(Line)
    OBVIOUS
  <2> QED BY <2>1 DEF Segment
<1>3. segs' = Append(segs, s)
  BY DEF NewSegment
<1>4. /\ s.first = first /\ s.header = FALSE /\ s.lines = <<>> /\ s.torn = FALSE
      /\ s.durable = -1 /\ s.linked = FALSE
  OBVIOUS
<1> HIDE DEF s
<1>5. /\ N' = N + 1 /\ segs' \in Seq(Segment) /\ segs'[N + 1] = s
      /\ \A i \in 1..N : segs'[i] = segs[i]
  BY <1>1, <1>2, <1>3, WithNew DEF N
<1>6. Len(s.lines) = 0
  BY <1>4
<1>7. HeaderFirst'
  <2> SUFFICES ASSUME NEW i \in 1..N+1
               PROVE  /\ ~segs'[i].header => segs'[i].lines = <<>> /\ segs'[i].durable = -1
                      /\ segs'[i].durable <= Len(segs'[i].lines)
    BY <1>5 DEF HeaderFirst
  <2>1. CASE i = N + 1
    BY <1>4, <1>5, <1>6, <2>1
  <2>2. CASE i # N + 1
    <3>1. i \in 1..N
      BY <1>1, <2>2
    <3> QED BY <1>5, <3>1 DEF WInv, HeaderFirst
  <2> QED BY <2>1, <2>2
<1>8. ~Corrupt'
  <2>1. Intact(segs)
    BY Undamaged
  <2>2. ASSUME NEW i \in 1..N+1
        PROVE  /\ i < N + 1 => segs'[i].header /\ ~segs'[i].torn
               /\ segs'[i].header => segs'[i].first = After(segs', i - 1)
               /\ Numbers(segs'[i])
    <3>1. CASE i = N + 1
      BY <1>1, <1>4, <1>5, <1>6, <3>1 DEF Numbers
    <3>2. CASE i # N + 1
      <4>1. i \in 1..N /\ segs'[i] = segs[i]
        BY <1>1, <1>5, <3>2
      <4>2. segs[i].header /\ ~segs[i].torn
        BY <1>1, <2>1, <4>1 DEF Intact
      <4>3. After(segs', i - 1) = After(segs, i - 1)
        <5>1. i = 1 \/ i - 1 \in 1..N
          BY <1>1, <4>1
        <5> QED BY <1>5, <5>1 DEF After
      <4> QED BY <1>1, <2>1, <4>1, <4>2, <4>3 DEF Intact
    <3> QED BY <3>1, <3>2
  <2>3. Intact(segs')
    BY <1>1, <1>5, <2>2 DEF Intact, N
  <2> QED BY <2>3, UndamagedNext
<1>9. ASSUME NEW i \in 1..N+1 PROVE End(segs'[i]) < FirstSeq + appends'
  <2>1. CASE i = N + 1
    BY <1>4, <1>5, <1>6, <2>1 DEF End
  <2>2. CASE i # N + 1
    <3>1. i \in 1..N /\ segs'[i] = segs[i] /\ i \in 1..Len(segs)
      BY <1>1, <1>5, <2>2
    <3>2. End(segs[i]) < FirstSeq + appends
      BY <3>1 DEF WInv, Counted
    <3>3. End(segs[i]) \in Int /\ appends \in Int /\ FirstSeq \in Int
      <4>1. segs[i].first \in Nat /\ Len(segs[i].lines) \in Nat
        BY <1>1, <3>1, SegmentFields
      <4>2. appends \in Int /\ FirstSeq \in Int
        BY SegmentAssumption DEF WInv, Types
      <4> QED BY <4>1, <4>2 DEF End
    <3> QED BY <3>1, <3>2, <3>3
  <2> QED BY <2>1, <2>2
<1>10. Expected(N)' = After(segs, N)
  <2>1. Expected(N)' = After(segs', N)
    <3>1. N' = N + 1 /\ N \in Nat /\ (N' = 1 <=> N = 0) /\ N' - 1 = N
      BY <1>1, <1>5
    <3>2. Expected(N)' = IF N' = 1 THEN FirstSeq ELSE segs'[N'-1].first + Len(segs'[N'-1].lines)
      BY DEF Expected
    <3> QED BY <3>1, <3>2 DEF After
  <2>2. N = 0 \/ N \in 1..N
    BY <1>1
  <2> QED BY <1>5, <2>1, <2>2 DEF After
<1>11. Events' = Events
  <2>1. N + 1 \in 1..Len(segs') /\ Len(segs') = N + 1 /\ (N + 1) - 1 = N
    BY <1>1, <1>5 DEF N
  <2>2. Upto(segs', N + 1) = Upto(segs', N) \o <<>>
    BY <1>4, <1>5, <2>1, UptoNext
  <2>3. Upto(segs', N) = Upto(segs, N)
    BY <1>1, <1>5, UptoSame
  <2>4. Upto(segs, N) \in Seq(Line)
    <3>1. N \in 0..Len(segs)
      BY <1>1
    <3> QED BY <1>1, <3>1, UptoType
  <2>5. Upto(segs, N) \o <<>> = Upto(segs, N)
    BY <2>4
  <2> QED BY <2>1, <2>2, <2>3, <2>5, EventsAre
<1> QED BY <1>1, <1>4, <1>5, <1>7, <1>8, <1>9, <1>10, <1>11

\* The last file is removed.
LEMMA SegmentDropped ==
  ASSUME WInv, N > 0, segs' = Front(segs), ~Corrupt, appends' = appends
  PROVE  /\ N' = N - 1 /\ segs' \in Seq(Segment)
         /\ \A i \in 1..N-1 : segs'[i] = segs[i]
         /\ HeaderFirst' /\ ~Corrupt'
         /\ \A i \in 1..N' : End(segs'[i]) < FirstSeq + appends'
         /\ segs[N].lines = <<>> => Events' = Events
<1>1. segs \in Seq(Segment) /\ N = Len(segs) /\ N \in Nat
  BY DEF WInv, Types, N
<1>2. /\ N' = N - 1 /\ segs' \in Seq(Segment)
      /\ \A i \in 1..N-1 : segs'[i] = segs[i]
  BY <1>1, WithoutLast DEF N
<1>3. \A i \in 1..N-1 : i \in 1..N
  BY <1>1
<1>4. HeaderFirst'
  BY <1>2, <1>3 DEF WInv, HeaderFirst
<1>5. ~Corrupt'
  <2>1. Intact(segs)
    BY Undamaged
  <2>2. ASSUME NEW i \in 1..N-1
        PROVE  /\ i < N - 1 => segs'[i].header /\ ~segs'[i].torn
               /\ segs'[i].header => segs'[i].first = After(segs', i - 1)
               /\ Numbers(segs'[i])
    <3>1. After(segs', i - 1) = After(segs, i - 1)
      <4>1. i = 1 \/ i - 1 \in 1..N-1
        BY <1>1
      <4> QED BY <1>2, <4>1 DEF After
    <3> QED BY <1>1, <1>2, <2>1, <3>1 DEF Intact
  <2>3. Intact(segs')
    BY <1>1, <1>2, <2>2 DEF Intact, N
  <2> QED BY <2>3, UndamagedNext
<1>6. ASSUME NEW i \in 1..N-1 PROVE End(segs'[i]) < FirstSeq + appends'
  BY <1>2, <1>3 DEF WInv, Counted
<1>7. ASSUME segs[N].lines = <<>> PROVE Events' = Events
  <2>1. N \in 1..Len(segs) /\ N - 1 \in 0..Len(segs) /\ N - 1 \in Nat
    BY <1>1
  <2>2. Upto(segs, N) = Upto(segs, N - 1) \o <<>>
    BY <1>1, <1>7, <2>1, UptoNext
  <2>3. Upto(segs, N - 1) = Upto(segs', N - 1)
    BY <1>2, <2>1, UptoSame
  <2>4. Upto(segs, N - 1) \in Seq(Line)
    BY <1>1, <2>1, UptoType
  <2>5. Upto(segs, N - 1) \o <<>> = Upto(segs, N - 1)
    BY <2>4
  <2>6. Len(segs') = N - 1
    BY <1>2 DEF N
  <2> QED BY <2>2, <2>3, <2>5, <2>6, EventsAre
<1> QED BY <1>2, <1>4, <1>5, <1>6, <1>7

\* What Events becomes when the last segment changes.
LEMMA LastExtendsLog ==
  ASSUME segs \in Seq(Segment), segs' \in Seq(Segment), N' = N, N > 0,
         \A i \in 1..N-1 : segs'[i].lines = segs[i].lines
  PROVE  /\ Upto(segs, N - 1) \in Seq(Line)
         /\ segs[N].lines \in Seq(Line) /\ segs'[N].lines \in Seq(Line)
         /\ Events = Upto(segs, N - 1) \o segs[N].lines
         /\ Events' = Upto(segs, N - 1) \o segs'[N].lines
<1>1. N = Len(segs) /\ N = Len(segs') /\ N \in Nat
  BY DEF N
<1>2. N \in 1..Len(segs) /\ N \in 1..Len(segs') /\ N - 1 \in 0..Len(segs) /\ N - 1 \in Nat
  BY <1>1
<1>3. Upto(segs, N - 1) \in Seq(Line) /\ segs[N].lines \in Seq(Line) /\ segs'[N].lines \in Seq(Line)
  BY <1>2, UptoType, SegmentFields
<1>4. Upto(segs', N - 1) = Upto(segs, N - 1)
  BY <1>2, UptoSame
<1>5. Upto(segs, N) = Upto(segs, N - 1) \o segs[N].lines
  BY <1>2, UptoNext
<1>6. Upto(segs', N) = Upto(segs', N - 1) \o segs'[N].lines
  BY <1>2, UptoNext
<1> QED BY <1>1, <1>3, <1>4, <1>5, <1>6, EventsAre

----------------------------------------------------------------------------
(* What every step keeps of the files and of the writer's position. *)

LEMMA SegsStay ==
  ASSUME WInv, segs' = segs, appends' = appends
  PROVE  /\ N' = N /\ segs' \in Seq(Segment) /\ HeaderFirst'
         /\ \A i \in 1..N' : End(segs'[i]) < FirstSeq + appends'
         /\ Corrupt' = Corrupt /\ Events' = Events /\ Expected(N)' = Expected(N)
         /\ TornTail' = TornTail
<1>1. N' = N /\ segs' \in Seq(Segment) /\ HeaderFirst'
  BY DEF WInv, Types, N, HeaderFirst
<1>2. \A i \in 1..N' : End(segs'[i]) < FirstSeq + appends'
  BY <1>1 DEF WInv, Counted
<1>3. Corrupt' = Corrupt
  BY <1>1 DEF Corrupt, Damaged, Expected
<1>4. Events' = Events
  BY EventsAre DEF N
<1>5. Expected(N)' = Expected(N) /\ TornTail' = TornTail
  BY <1>1 DEF Expected, TornTail, HeaderOnly
<1> QED BY <1>1, <1>2, <1>3, <1>4, <1>5

LEMMA LastFields ==
  ASSUME Types, N > 0
  PROVE  /\ N \in Nat /\ N \in 1..N /\ N = Len(segs)
         /\ segs[N] \in Segment /\ segs[N].first \in Nat /\ segs[N].lines \in Seq(Line)
         /\ segs[N].header \in BOOLEAN /\ segs[N].torn \in BOOLEAN /\ segs[N].linked \in BOOLEAN
         /\ segs[N].durable \in Int /\ Len(segs[N].lines) \in Nat
         /\ End(segs[N]) \in Int
<1>1. N \in Nat /\ N \in 1..N /\ N = Len(segs) /\ segs \in Seq(Segment)
  BY DEF Types, N
<1>2. N \in 1..Len(segs)
  BY <1>1
<1> QED BY <1>1, <1>2, SegmentFields DEF End

LEMMA OpenForWriteKeeps == WInv /\ OpenForWrite => WInv'
<1> SUFFICES ASSUME WInv, OpenForWrite PROVE WInv'
  OBVIOUS
<1>1. segs' = segs /\ appends' = appends /\ pc = "closed" /\ pc' = "scan" /\ cur' = cur
  BY DEF OpenForWrite
<1>2. Types'
  BY DEF WInv, Types, OpenForWrite, position, States
<1>3. HeaderFirst' /\ Sound'
  BY <1>1, SegsStay DEF WInv, Sound, Safe, Clean, Calm, OpenForWrite
<1>4. Place' /\ Remembered' /\ Pending'
  BY <1>1 DEF WInv, Place, Remembered, Pending, Working, Creating
<1>5. Counted'
  BY <1>1, SegsStay DEF WInv, Counted
<1> QED BY <1>2, <1>3, <1>4, <1>5 DEF WInv

LEMMA CopyTailKeeps == WInv /\ CopyTail => WInv'
<1> SUFFICES ASSUME WInv, CopyTail PROVE WInv'
  OBVIOUS
<1>1. segs' = segs /\ appends' = appends /\ pc = "copy" /\ pc' = "cut" /\ cur' = cur
  BY DEF CopyTail
<1>2. Types'
  BY DEF WInv, Types, CopyTail, position, States
<1>3. HeaderFirst' /\ Sound'
  BY <1>1, SegsStay DEF WInv, Sound
<1>4. Place' /\ Remembered' /\ Pending'
  BY <1>1, SegsStay DEF WInv, Place, Remembered, Pending, Working, Creating
<1>5. Counted'
  BY <1>1, SegsStay DEF WInv, Counted
<1> QED BY <1>2, <1>3, <1>4, <1>5 DEF WInv

LEMMA CloseKeeps == WInv /\ Close => WInv'
<1> SUFFICES ASSUME WInv, Close PROVE WInv'
  OBVIOUS
<1>1. segs' = segs /\ appends' = appends /\ pc \in {"idle", "poisoned"} /\ pc' = "closed" /\ cur' = NoLine
  BY DEF Close, Forget
<1>2. Types'
  BY DEF WInv, Types, Close, Forget, States
<1>3. HeaderFirst' /\ Sound'
  BY <1>1, SegsStay DEF WInv, Sound
<1>4. Place' /\ Remembered' /\ Pending'
  BY <1>1 DEF Place, Remembered, Pending, Working, Creating
<1>5. Counted'
  BY <1>1, SegsStay DEF Counted
<1> QED BY <1>2, <1>3, <1>4, <1>5 DEF WInv

LEMMA QuietKeeps ==
  ASSUME WInv, UNCHANGED <<segs, pc, lastSeq, segEvents, segBytes, cur, appends, faults, happened, acked>>
  PROVE  WInv'
<1>1. segs' = segs /\ appends' = appends
  OBVIOUS
<1>2. Types'
  BY DEF WInv, Types
<1>3. HeaderFirst' /\ Sound'
  BY <1>1, SegsStay DEF WInv, Sound, Safe, Clean, Calm
<1>4. Place'
  BY <1>1, SegsStay DEF WInv, Place
<1>5. Remembered' /\ Pending'
  BY <1>1, SegsStay DEF WInv, Remembered, Pending, End, Bytes
<1>6. Counted'
  BY <1>1, SegsStay DEF WInv, Counted
<1> QED BY <1>2, <1>3, <1>4, <1>5, <1>6 DEF WInv

LEMMA ForkKeeps == ASSUME WInv, NEW seq, Fork(seq) PROVE WInv'
BY QuietKeeps DEF Fork, position

\* The first segment is created: nothing is there.
LEMMA CreateFirstKeeps ==
  ASSUME WInv, N = 0, ~Corrupt, CreateFirst, cur = NoLine,
         UNCHANGED <<cur, appends, faults, happened, acked>>
  PROVE  WInv'
<1>1. /\ NewSegment(FirstSeq) /\ pc' = "header" /\ lastSeq' = FirstSeq - 1
      /\ segEvents' = 0 /\ segBytes' = HeaderSize
  BY DEF CreateFirst
<1>2. FirstSeq \in Nat /\ FirstSeq # 0 /\ HeaderSize \in Nat /\ appends \in Nat
  BY SegmentAssumption DEF WInv, Types
<1>3. /\ N' = N + 1 /\ segs' \in Seq(Segment) /\ N \in Nat
      /\ segs'[N'].first = FirstSeq /\ segs'[N'].header = FALSE /\ segs'[N'].lines = <<>>
      /\ segs'[N'].torn = FALSE
      /\ HeaderFirst' /\ ~Corrupt'
      /\ \A i \in 1..N' : End(segs'[i]) < FirstSeq + appends'
      /\ Expected(N)' = After(segs, N)
  <2>1. appends' = appends /\ appends' \in Int /\ appends <= appends' /\ FirstSeq - 1 < FirstSeq + appends'
    BY <1>2
  <2>2. NewSegment(FirstSeq) /\ FirstSeq \in Nat /\ N \in Nat
    BY <1>1, <1>2 DEF WInv, Types, N
  <2>3. N > 0 => segs[N].header /\ ~segs[N].torn
    BY <2>2
  <2> QED BY <2>1, <2>2, <2>3, SegmentAdded
<1>4. Types'
  BY <1>1, <1>2, <1>3 DEF WInv, Types, States
<1>5. Place'
  BY <1>1, <1>3 DEF Place, Working, Creating, After
<1>6. Remembered'
  <2>1. End(segs'[N']) = FirstSeq - 1
    BY <1>2, <1>3 DEF End
  <2> QED BY <1>1, <2>1 DEF Remembered
<1>7. Pending' /\ Counted'
  BY <1>1, <1>3 DEF Pending, Counted
<1> QED BY <1>3, <1>4, <1>5, <1>6, <1>7 DEF WInv, Sound

\* The writer goes on after the last line.
LEMMA TakePositionKeeps ==
  ASSUME WInv, N > 0, ~Corrupt, segs[N].header, TakePosition, pc' = "idle", cur = NoLine,
         UNCHANGED <<cur, appends, faults, happened, acked>>,
         segs' \in Seq(Segment), N' = N, ~Corrupt', HeaderFirst', segs'[N].header, ~segs'[N].torn,
         segs'[N].first = segs[N].first, segs'[N].lines = segs[N].lines,
         \A i \in 1..N' : End(segs'[i]) < FirstSeq + appends'
  PROVE  WInv'
<1>1. /\ lastSeq' = End(segs[N]) /\ lastSeq' \in Nat
      /\ segEvents' = Len(segs[N].lines) /\ segBytes' = Bytes(segs[N])
  BY LogFound DEF TakePosition, WInv
<1>2. segEvents' \in Nat /\ segBytes' \in Nat
  BY <1>1, LastFields, BytesType DEF WInv
<1>3. Types'
  BY <1>1, <1>2 DEF WInv, Types, States
<1>4. Place'
  BY DEF Place, Working, Creating
<1>5. Remembered'
  <2>1. End(segs'[N']) = End(segs[N]) /\ Bytes(segs'[N']) = Bytes(segs[N])
    BY BytesOfSame DEF End
  <2> QED BY <1>1, <2>1 DEF Remembered
<1>6. Pending' /\ Counted'
  BY DEF Pending, Counted
<1> QED BY <1>3, <1>4, <1>5, <1>6 DEF WInv, Sound

LEMMA ScanKeeps == WInv /\ Scan => WInv'
<1> SUFFICES ASSUME WInv, Scan PROVE WInv'
  OBVIOUS
<1>1. pc = "scan" /\ UNCHANGED <<cur, appends, faults, happened, acked, forks>> /\ cur = NoLine
  BY DEF Scan, WInv, Pending, Creating
<1>2. CASE UNCHANGED <<segs, position>> /\ ((Corrupt /\ pc' = "closed") \/ (~Corrupt /\ TornTail /\ pc' = "copy"))
  <2>1. Types'
    BY <1>1, <1>2 DEF WInv, Types, position, States
  <2>2. HeaderFirst' /\ Corrupt' = Corrupt
    BY <1>1, <1>2, SegsStay
  <2>5. Safe' = Safe
    BY <1>1 DEF Safe, Clean, Calm
  <2>6. Sound'
    BY <1>1, <1>2, <2>2, <2>5 DEF WInv, Sound
  <2>3. Place' /\ Remembered' /\ Pending'
    BY <1>1, <1>2, SegsStay DEF Place, Remembered, Pending, Working, Creating
  <2>4. Counted'
    BY <1>1, <1>2, SegsStay DEF WInv, Counted
  <2> QED BY <2>1, <2>2, <2>3, <2>4, <2>6 DEF WInv
<1>3. CASE ~Corrupt /\ N = 0 /\ CreateFirst
  BY <1>1, <1>3, CreateFirstKeeps
<1>4. CASE ~Corrupt /\ N > 0 /\ ~TornTail /\ TakePosition /\ pc' = "idle" /\ UNCHANGED segs
  <2>1. segs[N].header /\ ~segs[N].torn
    BY <1>4, LastFields DEF TornTail, HeaderOnly, WInv
  <2>2. N' = N /\ segs' = segs /\ segs' \in Seq(Segment) /\ HeaderFirst' /\ ~Corrupt'
        /\ \A i \in 1..N' : End(segs'[i]) < FirstSeq + appends'
    BY <1>1, <1>4, SegsStay
  <2> QED BY <1>1, <1>4, <2>1, <2>2, TakePositionKeeps
<1>5. \/ Corrupt /\ pc' = "closed" /\ UNCHANGED <<segs, position>>
      \/ ~Corrupt /\ TornTail /\ pc' = "copy" /\ UNCHANGED <<segs, position>>
      \/ ~Corrupt /\ N = 0 /\ CreateFirst
      \/ ~Corrupt /\ N > 0 /\ ~TornTail /\ TakePosition /\ pc' = "idle" /\ UNCHANGED segs
  BY DEF Scan
<1> QED BY <1>2, <1>3, <1>4, <1>5

LEMMA CutTailKeeps == WInv /\ CutTail => WInv'
<1> SUFFICES ASSUME WInv, CutTail PROVE WInv'
  OBVIOUS
<1>1. /\ pc = "cut" /\ UNCHANGED <<cur, appends, faults, happened, acked, forks>> /\ cur = NoLine
      /\ ~Corrupt /\ TornTail /\ N > 0
  BY DEF CutTail, WInv, Pending, Creating, Place, Sound, TornTail, HeaderOnly
<1>2. CASE HeaderOnly
  <2>1. segs' = Front(segs) /\ UNCHANGED position /\ pc' = "rescan"
    BY <1>2 DEF CutTail
  <2>2. /\ N' = N - 1 /\ segs' \in Seq(Segment) /\ HeaderFirst' /\ ~Corrupt'
        /\ \A i \in 1..N' : End(segs'[i]) < FirstSeq + appends'
    BY <1>1, <2>1, SegmentDropped
  <2>3. Types'
    BY <1>1, <2>1, <2>2 DEF WInv, Types, position, States
  <2>4. Place' /\ Remembered' /\ Pending'
    BY <1>1, <2>1 DEF Place, Remembered, Pending, Working, Creating
  <2>5. Counted' /\ Sound'
    BY <1>1, <2>2 DEF Counted, Sound
  <2> QED BY <2>2, <2>3, <2>4, <2>5 DEF WInv
<1>3. CASE ~HeaderOnly
  <2> DEFINE s == [segs[N] EXCEPT !.torn = FALSE, !.linked = TRUE, !.durable = Len(segs[N].lines)]
  <2>1. segs' = [segs EXCEPT ![N] = s] /\ TakePosition /\ pc' = "idle"
    BY <1>3 DEF CutTail
  <2>2. /\ s \in Segment /\ s.first = segs[N].first /\ s.header = segs[N].header /\ s.lines = segs[N].lines
        /\ s.torn = FALSE /\ s.linked = TRUE /\ s.durable = Len(segs[N].lines)
    <3> DEFINE r == segs[N]
               n == Len(segs[N].lines)
    <3>1. r \in Segment /\ n \in Int
      BY <1>1, LastFields DEF WInv
    <3>2. s = [r EXCEPT !.torn = FALSE, !.linked = TRUE, !.durable = n]
      OBVIOUS
    <3> HIDE DEF r, n, s
    <3>3. /\ s \in Segment /\ s.first = r.first /\ s.header = r.header /\ s.lines = r.lines
          /\ s.torn = FALSE /\ s.linked = TRUE /\ s.durable = n
      BY <3>1, <3>2 DEF Segment
    <3> QED BY <3>3 DEF r, n
  <2> HIDE DEF s
  <2>3. segs[N].header
    BY <1>1, <1>3, LastFields DEF HeaderOnly, WInv
  <2>4. Proper(s, After(segs, N - 1), appends)
    <3>1. segs[N].first = After(segs, N - 1) /\ Numbers(segs[N]) /\ End(segs[N]) < FirstSeq + appends
      BY <1>1, <2>3, LastFields, Undamaged DEF Intact, WInv, Counted
    <3> QED BY <1>1, <2>2, <2>3, <3>1, LastFields DEF Proper, Numbers, End, WInv
  <2>5. /\ N' = N /\ segs' \in Seq(Segment) /\ segs'[N] = s /\ HeaderFirst' /\ ~Corrupt'
        /\ \A i \in 1..N' : End(segs'[i]) < FirstSeq + appends'
    BY <1>1, <2>1, <2>2, <2>4, LastChanges
  <2> QED BY <1>1, <2>1, <2>2, <2>3, <2>5, TakePositionKeeps
<1> QED BY <1>2, <1>3

LEMMA RescanKeeps == WInv /\ Rescan => WInv'
<1> SUFFICES ASSUME WInv, Rescan PROVE WInv'
  OBVIOUS
<1>1. pc = "rescan" /\ UNCHANGED <<cur, appends, faults, happened, acked, forks>> /\ cur = NoLine /\ ~Corrupt
  BY DEF Rescan, WInv, Pending, Creating, Sound
<1>2. CASE N = 0 /\ CreateFirst
  BY <1>1, <1>2, CreateFirstKeeps
<1>3. CASE UNCHANGED <<segs, position>> /\ pc' = "closed"
  <2>1. Types'
    BY <1>1, <1>3 DEF WInv, Types, position, States
  <2>2. HeaderFirst' /\ Sound'
    BY <1>1, <1>3, SegsStay DEF WInv, Sound
  <2>3. Place' /\ Remembered' /\ Pending'
    BY <1>1, <1>3 DEF Place, Remembered, Pending, Working, Creating
  <2>4. Counted'
    BY <1>1, <1>3, SegsStay DEF WInv, Counted
  <2> QED BY <2>1, <2>2, <2>3, <2>4 DEF WInv
<1>4. CASE ~Corrupt /\ N > 0 /\ ~TornTail /\ TakePosition /\ pc' = "idle" /\ UNCHANGED segs
  <2>1. segs[N].header /\ ~segs[N].torn
    BY <1>4, LastFields DEF TornTail, HeaderOnly, WInv
  <2>2. N' = N /\ segs' = segs /\ segs' \in Seq(Segment) /\ HeaderFirst' /\ ~Corrupt'
        /\ \A i \in 1..N' : End(segs'[i]) < FirstSeq + appends'
    BY <1>1, <1>4, SegsStay
  <2> QED BY <1>1, <1>4, <2>1, <2>2, TakePositionKeeps
<1> QED BY <1>2, <1>3, <1>4 DEF Rescan

\* Where the writer works the files are in order.
LEMMA AtWork ==
  ASSUME WInv, pc \in Working
  PROVE  /\ ~Corrupt /\ N > 0 /\ ~segs[N].torn
         /\ Numbers(segs[N]) /\ End(segs[N]) < FirstSeq + appends
         /\ segs[N].first = After(segs, N - 1)
         /\ segs[N].durable <= Len(segs[N].lines)
         /\ ~segs[N].header => segs[N].lines = <<>> /\ segs[N].durable = -1
<1>1. ~Corrupt /\ N > 0 /\ ~segs[N].torn
  BY DEF WInv, Sound, Place, Working, Creating
<1>2. N \in 1..N /\ N \in Nat
  BY <1>1, LastFields DEF WInv
<1>3. Numbers(segs[N]) /\ (segs[N].header => segs[N].first = After(segs, N - 1))
  BY <1>1, <1>2, Undamaged DEF Intact, N
<1>4. CASE pc = "header"
  <2>1. segs[N].first = Expected(N)
    BY <1>4 DEF WInv, Place
  <2>2. Expected(N) = After(segs, N - 1)
    BY <1>2 DEF Expected, After
  <2> QED BY <1>1, <1>2, <1>3, <2>1, <2>2 DEF WInv, Counted, HeaderFirst
<1>5. CASE pc # "header"
  <2>1. segs[N].header
    BY <1>5 DEF WInv, Place
  <2> QED BY <1>1, <1>2, <1>3, <2>1 DEF WInv, Counted, HeaderFirst
<1> QED BY <1>4, <1>5

LEMMA WriteHeaderKeeps == WInv /\ WriteHeader => WInv'
<1> SUFFICES ASSUME WInv, WriteHeader PROVE WInv'
  OBVIOUS
<1> DEFINE r == segs[N]
           s == [r EXCEPT !.header = TRUE]
<1>1. /\ pc = "header" /\ pc' = "syncheader" /\ segs' = [segs EXCEPT ![N] = s]
      /\ UNCHANGED <<lastSeq, segEvents, segBytes, cur, appends, faults, happened, acked>>
  BY DEF WriteHeader, position
<1>2. pc \in Working /\ Types
  BY <1>1 DEF Working, Creating, WInv
<1>3. r \in Segment /\ N > 0
  BY <1>2, AtWork, LastFields
<1>4. /\ ~Corrupt /\ ~r.torn /\ Numbers(r) /\ End(r) < FirstSeq + appends
      /\ r.first = After(segs, N - 1) /\ r.durable <= Len(r.lines) /\ r.lines = <<>>
  BY <1>1, <1>2, AtWork DEF WInv, Place, Creating
<1>5. /\ s \in Segment /\ s.first = r.first /\ s.header = TRUE /\ s.lines = r.lines
      /\ s.torn = r.torn /\ s.linked = r.linked /\ s.durable = r.durable
  <2> HIDE DEF r
  <2> QED BY <1>3 DEF Segment
<1> HIDE DEF s
<1>6. Proper(s, After(segs, N - 1), appends)
  <2> HIDE DEF r
  <2> QED BY <1>4, <1>5 DEF Proper, Numbers, End
<1>7. /\ N' = N /\ segs' \in Seq(Segment) /\ segs'[N] = s /\ HeaderFirst' /\ ~Corrupt'
      /\ \A i \in 1..N' : End(segs'[i]) < FirstSeq + appends'
  <2> HIDE DEF r
  <2> QED BY <1>1, <1>3, <1>4, <1>5, <1>6, LastChanges
<1>8. Types'
  BY <1>1, <1>7 DEF WInv, Types, States
<1>9. Place' /\ Remembered'
  <2>1. End(s) = End(r) /\ lastSeq = End(r)
    BY <1>1, <1>5 DEF End, WInv, Remembered, Working, Creating
  <2> HIDE DEF r
  <2> QED BY <1>1, <1>3, <1>4, <1>5, <1>7, <2>1 DEF Place, Remembered, Working, Creating
<1>10. Pending' /\ Counted'
  BY <1>1, <1>7 DEF WInv, Pending, Counted, Creating
<1> QED BY <1>7, <1>8, <1>9, <1>10 DEF WInv, Sound

LEMMA SyncHeaderKeeps == WInv /\ SyncHeader => WInv'
<1> SUFFICES ASSUME WInv, SyncHeader PROVE WInv'
  OBVIOUS
<1> DEFINE r == segs[N]
           s == [r EXCEPT !.durable = 0]
<1>1. /\ pc = "syncheader" /\ pc' = "syncdir" /\ segs' = [segs EXCEPT ![N] = s]
      /\ UNCHANGED <<lastSeq, segEvents, segBytes, cur, appends, faults, happened, acked>>
  BY DEF SyncHeader, position
<1>2. pc \in Working /\ Types
  BY <1>1 DEF Working, Creating, WInv
<1>3. r \in Segment /\ N > 0
  BY <1>2, AtWork, LastFields
<1>4. /\ ~Corrupt /\ ~r.torn /\ Numbers(r) /\ End(r) < FirstSeq + appends
      /\ r.first = After(segs, N - 1) /\ r.lines = <<>> /\ r.header
  BY <1>1, <1>2, AtWork DEF WInv, Place, Creating, Working
<1>5. /\ s \in Segment /\ s.first = r.first /\ s.header = r.header /\ s.lines = r.lines
      /\ s.torn = r.torn /\ s.linked = r.linked /\ s.durable = 0
  <2> HIDE DEF r
  <2> QED BY <1>3 DEF Segment
<1> HIDE DEF s
<1>6. Proper(s, After(segs, N - 1), appends)
  <2> HIDE DEF r
  <2>1. Len(s.lines) = 0
    BY <1>4, <1>5
  <2> QED BY <1>4, <1>5, <2>1 DEF Proper, Numbers, End
<1>7. /\ N' = N /\ segs' \in Seq(Segment) /\ segs'[N] = s /\ HeaderFirst' /\ ~Corrupt'
      /\ \A i \in 1..N' : End(segs'[i]) < FirstSeq + appends'
  <2> HIDE DEF r
  <2> QED BY <1>1, <1>3, <1>4, <1>5, <1>6, LastChanges
<1>8. Types'
  BY <1>1, <1>7 DEF WInv, Types, States
<1>9. Place' /\ Remembered'
  <2>1. End(s) = End(r) /\ lastSeq = End(r)
    BY <1>1, <1>5 DEF End, WInv, Remembered, Working, Creating
  <2> HIDE DEF r
  <2> QED BY <1>1, <1>3, <1>4, <1>5, <1>7, <2>1 DEF Place, Remembered, Working, Creating
<1>10. Pending' /\ Counted'
  BY <1>1, <1>7 DEF WInv, Pending, Counted, Creating
<1> QED BY <1>7, <1>8, <1>9, <1>10 DEF WInv, Sound

LEMMA SyncDirectoryKeeps == WInv /\ SyncDirectory => WInv'
<1> SUFFICES ASSUME WInv, SyncDirectory PROVE WInv'
  OBVIOUS
<1> DEFINE r == segs[N]
           s == [r EXCEPT !.linked = TRUE]
<1>1. /\ pc = "syncdir" /\ segs' = [segs EXCEPT ![N] = s]
      /\ segEvents' = 0 /\ segBytes' = HeaderSize
      /\ pc' = IF cur = NoLine THEN "idle" ELSE "write"
      /\ UNCHANGED <<lastSeq, cur, appends, faults, happened, acked>>
  BY DEF SyncDirectory
<1>2. pc \in Working /\ Types
  BY <1>1 DEF Working, Creating, WInv
<1>3. r \in Segment /\ N > 0
  BY <1>2, AtWork, LastFields
<1>4. /\ ~Corrupt /\ ~r.torn /\ Numbers(r) /\ End(r) < FirstSeq + appends
      /\ r.first = After(segs, N - 1) /\ r.durable <= Len(r.lines) /\ r.lines = <<>> /\ r.header
  BY <1>1, <1>2, AtWork DEF WInv, Place, Creating, Working
<1>5. /\ s \in Segment /\ s.first = r.first /\ s.header = r.header /\ s.lines = r.lines
      /\ s.torn = r.torn /\ s.linked = TRUE /\ s.durable = r.durable
  <2> HIDE DEF r
  <2> QED BY <1>3 DEF Segment
<1> HIDE DEF s
<1>6. Proper(s, After(segs, N - 1), appends)
  <2> HIDE DEF r
  <2> QED BY <1>4, <1>5 DEF Proper, Numbers, End
<1>7. /\ N' = N /\ segs' \in Seq(Segment) /\ segs'[N] = s /\ HeaderFirst' /\ ~Corrupt'
      /\ \A i \in 1..N' : End(segs'[i]) < FirstSeq + appends'
  <2> HIDE DEF r
  <2> QED BY <1>1, <1>3, <1>4, <1>5, <1>6, LastChanges
<1>8. Types'
  BY <1>1, <1>7, SegmentAssumption DEF WInv, Types, States
<1>9. Place' /\ Remembered'
  <2>1. End(s) = End(r) /\ lastSeq = End(r)
    BY <1>1, <1>5 DEF End, WInv, Remembered, Working, Creating
  <2>2. Bytes(s) = HeaderSize /\ Len(s.lines) = 0
    BY <1>4, <1>5, BytesOfNone
  <2> HIDE DEF r
  <2> QED BY <1>1, <1>3, <1>4, <1>5, <1>7, <2>1, <2>2 DEF Place, Remembered, Working, Creating
<1>10. Pending' /\ Counted'
  BY <1>1, <1>7 DEF WInv, Pending, Counted, Creating
<1> QED BY <1>7, <1>8, <1>9, <1>10 DEF WInv, Sound

\* What append() starts with: the next line.
LEMMA AppendStarts ==
  ASSUME WInv, NEW size \in Sizes, AppendStart(size)
  PROVE  /\ pc = "idle" /\ N > 0 /\ segs[N].header /\ ~segs[N].torn /\ ~Corrupt
         /\ lastSeq = End(segs[N]) /\ lastSeq \in Nat
         /\ appends' = appends + 1 /\ appends \in Nat /\ appends' \in 0..MaxAppends
         /\ cur' \in Line /\ cur' # NoLine /\ cur'.seq = lastSeq + 1 /\ lastSeq + 1 < FirstSeq + appends'
<1>1. /\ pc = "idle" /\ appends < MaxAppends /\ appends' = appends + 1
      /\ cur' = [seq |-> lastSeq + 1, id |-> appends + 1, size |-> size]
  BY DEF AppendStart
<1>2. /\ N > 0 /\ segs[N].header /\ ~segs[N].torn /\ ~Corrupt /\ lastSeq = End(segs[N]) /\ lastSeq \in Nat
      /\ segs[N].first = After(segs, N - 1) /\ End(segs[N]) < FirstSeq + appends
  <2>1. pc \in Working
    BY <1>1 DEF Working
  <2> QED BY <1>1, <2>1, AtWork DEF WInv, Types, Place, Remembered, Working, Creating
<1>3. FirstSeq \in Nat /\ MaxAppends \in Nat /\ appends \in 0..MaxAppends
  BY SegmentAssumption DEF WInv, Types
<1>4. lastSeq + 1 >= FirstSeq
  <2>1. Intact(segs) /\ Headed(segs) /\ segs \in Seq(Segment)
    BY <1>2, Undamaged DEF WInv, Types, HeaderFirst, Headed, N
  <2>2. LastOwnSeq = End(segs[N]) /\ Len(Events) \in Nat
    BY <1>2, LogFound DEF WInv
  <2> QED BY <1>2, <1>3, <2>2 DEF LastOwnSeq
<1>5. cur' \in Line
  <2>1. lastSeq + 1 \in FirstSeq..FirstSeq + MaxAppends
    BY <1>1, <1>2, <1>3, <1>4
  <2>2. appends + 1 \in 1..MaxAppends
    BY <1>1, <1>3
  <2> QED BY <1>1, <2>1, <2>2 DEF Line
<1> QED BY <1>1, <1>2, <1>3, <1>5, NoLineAssumption

LEMMA AppendStartKeeps == ASSUME WInv, NEW size \in Sizes, AppendStart(size) PROVE WInv'
<1>1. /\ pc = "idle" /\ N > 0 /\ segs[N].header /\ ~segs[N].torn /\ ~Corrupt
      /\ lastSeq = End(segs[N]) /\ lastSeq \in Nat
      /\ appends' = appends + 1 /\ appends \in Nat /\ appends' \in 0..MaxAppends
      /\ cur' \in Line /\ cur' # NoLine /\ cur'.seq = lastSeq + 1 /\ lastSeq + 1 < FirstSeq + appends'
  BY AppendStarts
<1>2. UNCHANGED <<lastSeq, segEvents, segBytes, faults, happened, acked, forks>>
  BY DEF AppendStart, position
<1>3. CASE NewSegment(lastSeq + 1) /\ pc' = "header"
  <2>1. /\ N' = N + 1 /\ segs' \in Seq(Segment) /\ N \in Nat
        /\ segs'[N'].first = lastSeq + 1 /\ segs'[N'].header = FALSE /\ segs'[N'].lines = <<>>
        /\ segs'[N'].torn = FALSE
        /\ HeaderFirst' /\ ~Corrupt'
        /\ \A i \in 1..N' : End(segs'[i]) < FirstSeq + appends'
        /\ Expected(N)' = After(segs, N)
    <3>1. /\ lastSeq + 1 \in Nat /\ appends' \in Int /\ appends <= appends'
          /\ (lastSeq + 1) - 1 < FirstSeq + appends'
      BY <1>1, SegmentAssumption
    <3>2. N > 0 => segs[N].header /\ ~segs[N].torn
      BY <1>1
    <3> QED BY <1>1, <1>3, <3>1, <3>2, SegmentAdded
  <2>2. After(segs, N) = lastSeq + 1
    <3>1. segs[N].first \in Nat /\ Len(segs[N].lines) \in Nat /\ N # 0
      BY <1>1, LastFields DEF WInv
    <3> QED BY <1>1, <3>1 DEF After, End
  <2>3. Types'
    BY <1>1, <1>2, <1>3, <2>1 DEF WInv, Types, States
  <2>4. Place'
    BY <1>3, <2>1, <2>2 DEF Place, Working, Creating
  <2>5. Remembered'
    <3>1. End(segs'[N']) = lastSeq
      BY <1>1, <2>1 DEF End
    <3> QED BY <1>2, <1>3, <3>1 DEF Remembered
  <2>6. Pending' /\ Counted'
    BY <1>1, <1>2, <1>3, <2>1 DEF Pending, Counted, Creating
  <2> QED BY <2>1, <2>3, <2>4, <2>5, <2>6 DEF WInv, Sound
<1>4. CASE pc' = "write" /\ UNCHANGED segs
  <2>1. N' = N /\ segs' \in Seq(Segment) /\ HeaderFirst' /\ Corrupt' = Corrupt
    BY <1>4 DEF WInv, Types, N, HeaderFirst, Corrupt, Damaged, Expected
  <2>2. Types'
    BY <1>1, <1>2, <1>4, <2>1 DEF WInv, Types, States
  <2>3. Place'
    BY <1>1, <1>4, <2>1 DEF Place, Working, Creating
  <2>4. Remembered'
    <3>1. /\ End(segs'[N']) = lastSeq' /\ Len(segs'[N'].lines) = segEvents' /\ Bytes(segs'[N']) = segBytes'
      BY <1>1, <1>2, <1>4, <2>1 DEF WInv, Remembered, Working
    <3> QED BY <1>4, <3>1 DEF Remembered
  <2>5. ASSUME NEW i \in 1..N' PROVE End(segs'[i]) < FirstSeq + appends'
    <3>1. segs'[i] = segs[i] /\ i \in 1..N /\ i \in 1..Len(segs) /\ segs \in Seq(Segment)
      BY <1>4, <2>1 DEF N, WInv, Types
    <3>2. End(segs[i]) < FirstSeq + appends
      BY <3>1 DEF WInv, Counted
    <3>3. segs[i].first \in Nat /\ Len(segs[i].lines) \in Nat
      BY <3>1, SegmentFields
    <3>4. End(segs[i]) \in Int /\ FirstSeq \in Int
      BY <3>3, SegmentAssumption DEF End
    <3> QED BY <1>1, <3>1, <3>2, <3>4
  <2>6. Pending' /\ Counted'
    BY <1>1, <1>2, <1>4, <2>5 DEF Pending, Counted, Creating
  <2> QED BY <1>1, <2>1, <2>2, <2>3, <2>4, <2>6 DEF WInv, Sound
<1> QED BY <1>3, <1>4 DEF AppendStart

\* The pending line after those of the last segment.
LEMMA LineAdded ==
  ASSUME WInv, pc = "write", segs' = [segs EXCEPT ![N].lines = Append(@, cur)], appends' = appends
  PROVE  /\ N' = N /\ N > 0 /\ segs' \in Seq(Segment) /\ HeaderFirst' /\ ~Corrupt'
         /\ \A i \in 1..N-1 : segs'[i] = segs[i]
         /\ \A i \in 1..N' : End(segs'[i]) < FirstSeq + appends'
         /\ cur \in Line /\ segs[N].lines \in Seq(Line)
         /\ segs'[N].lines = Append(segs[N].lines, cur)
         /\ segs'[N].first = segs[N].first /\ segs'[N].header = segs[N].header
         /\ segs'[N].torn = segs[N].torn /\ segs'[N].durable = segs[N].durable
         /\ segs'[N].linked = segs[N].linked
         /\ cur.seq = lastSeq + 1 /\ lastSeq = End(segs[N]) /\ segs[N].header /\ ~segs[N].torn
<1> DEFINE r == segs[N]
           x == Append(r.lines, cur)
           s == [r EXCEPT !.lines = x]
<1>1. segs' = [segs EXCEPT ![N] = s]
  OBVIOUS
<1>2. pc \in Working /\ Types
  BY DEF Working, WInv
<1>3. r \in Segment /\ N > 0 /\ r.lines \in Seq(Line) /\ r.first \in Nat /\ r.durable \in Int
  BY <1>2, AtWork, LastFields
<1>4. /\ ~Corrupt /\ ~r.torn /\ Numbers(r) /\ End(r) < FirstSeq + appends
      /\ r.first = After(segs, N - 1) /\ r.durable <= Len(r.lines) /\ r.header
  BY <1>2, AtWork DEF WInv, Place, Creating, Working
<1>5. cur \in Line /\ cur.seq = lastSeq + 1 /\ lastSeq = End(r) /\ cur.seq < FirstSeq + appends
  BY DEF WInv, Types, Pending, Remembered, Counted, Working
<1>6. /\ x \in Seq(Line) /\ Len(x) = Len(r.lines) + 1 /\ x[Len(r.lines) + 1] = cur
      /\ \A k \in 1..Len(r.lines) : x[k] = r.lines[k]
  <2> HIDE DEF r
  <2> QED BY <1>3, <1>5
<1>7. /\ s \in Segment /\ s.first = r.first /\ s.header = r.header /\ s.lines = x
      /\ s.torn = r.torn /\ s.linked = r.linked /\ s.durable = r.durable
  <2> HIDE DEF r, x
  <2> QED BY <1>3, <1>6 DEF Segment
<1> HIDE DEF s, x
<1>8. Proper(s, After(segs, N - 1), appends)
  <2> HIDE DEF r
  <2>1. Len(r.lines) \in Nat
    BY <1>3
  <2>2. ASSUME NEW k \in 1..Len(x) PROVE x[k].seq = s.first + k - 1
    <3>1. CASE k \in 1..Len(r.lines)
      BY <1>4, <1>6, <1>7, <3>1 DEF Numbers
    <3>2. CASE k = Len(r.lines) + 1
      <4> DEFINE n == Len(r.lines)
                 first == r.first
      <4>1. n \in Nat /\ first \in Nat /\ lastSeq = first + n - 1 /\ k = n + 1
        BY <1>3, <1>5, <2>1, <3>2 DEF End
      <4> HIDE DEF n, first
      <4>2. lastSeq + 1 = first + k - 1
        BY <4>1
      <4> QED BY <1>5, <1>6, <1>7, <3>2, <4>2 DEF first
    <3> QED BY <1>6, <2>1, <3>1, <3>2
  <2>3. Numbers(s)
    BY <1>7, <2>2 DEF Numbers
  <2>4. End(s) < FirstSeq + appends
    <3> DEFINE n == Len(r.lines)
               first == r.first
    <3>1. n \in Nat /\ first \in Nat /\ End(s) = first + (n + 1) - 1 /\ lastSeq = first + n - 1
      BY <1>3, <1>5, <1>6, <1>7, <2>1 DEF End
    <3> HIDE DEF n, first
    <3>2. End(s) = lastSeq + 1
      BY <3>1
    <3> QED BY <1>5, <3>2
  <2>5. s.durable <= Len(s.lines)
    BY <1>3, <1>4, <1>6, <1>7, <2>1
  <2> QED BY <1>4, <1>7, <2>3, <2>4, <2>5 DEF Proper
<1>9. /\ N' = N /\ segs' \in Seq(Segment) /\ segs'[N] = s /\ HeaderFirst' /\ ~Corrupt'
      /\ \A i \in 1..N-1 : segs'[i] = segs[i]
      /\ \A i \in 1..N' : End(segs'[i]) < FirstSeq + appends'
  <2> HIDE DEF r
  <2> QED BY <1>1, <1>3, <1>4, <1>7, <1>8, LastChanges
<1> QED BY <1>3, <1>4, <1>5, <1>7, <1>9 DEF x

LEMMA WriteLineKeeps == WInv /\ WriteLine => WInv'
<1> SUFFICES ASSUME WInv, WriteLine PROVE WInv'
  OBVIOUS
<1>1. /\ pc = "write" /\ pc' = "sync" /\ segs' = [segs EXCEPT ![N].lines = Append(@, cur)]
      /\ UNCHANGED <<lastSeq, segEvents, segBytes, cur, appends, faults, happened, acked>>
  BY DEF WriteLine, position
<1>2. /\ N' = N /\ N > 0 /\ segs' \in Seq(Segment) /\ HeaderFirst' /\ ~Corrupt'
      /\ \A i \in 1..N' : End(segs'[i]) < FirstSeq + appends'
      /\ cur \in Line /\ segs[N].lines \in Seq(Line)
      /\ segs'[N].lines = Append(segs[N].lines, cur)
      /\ segs'[N].first = segs[N].first /\ segs'[N].header = segs[N].header
      /\ segs'[N].torn = segs[N].torn
      /\ cur.seq = lastSeq + 1 /\ lastSeq = End(segs[N]) /\ segs[N].header /\ ~segs[N].torn
  BY <1>1, LineAdded
<1>3. Types'
  BY <1>1, <1>2 DEF WInv, Types, States
<1>4. Place'
  BY <1>1, <1>2 DEF Place, Working, Creating
<1>5. Remembered'
  <2>1. Bytes(segs'[N]) = Bytes(segs[N]) + cur.size /\ Bytes(segs[N]) \in Nat /\ cur.size \in Nat
    BY <1>2, BytesAppend, BytesType, SegmentAssumption DEF Line
  <2>2. segEvents = Len(segs[N].lines) /\ segBytes = Bytes(segs[N])
    BY <1>1 DEF WInv, Remembered
  <2>3. /\ Len(segs[N].lines) \in Nat /\ Len(segs'[N].lines) = Len(segs[N].lines) + 1
        /\ segs'[N].lines # <<>> /\ segs'[N].lines[Len(segs'[N].lines)] = cur
    <3> DEFINE l == segs[N].lines
    <3>1. l \in Seq(Line) /\ cur \in Line
      BY <1>2
    <3> HIDE DEF l
    <3>2. /\ Len(l) \in Nat /\ Len(Append(l, cur)) = Len(l) + 1 /\ Append(l, cur) # <<>>
          /\ Append(l, cur)[Len(l) + 1] = cur
      BY <3>1
    <3> QED BY <1>2, <3>2 DEF l
  <2>4. End(segs'[N]) - 1 = lastSeq
    <3>1. segs[N].first \in Nat
      BY <1>2, LastFields DEF WInv
    <3> QED BY <1>2, <2>3, <3>1 DEF End
  <2>5. segEvents = Len(segs'[N].lines) - 1 /\ segBytes = Bytes(segs'[N]) - cur.size
    BY <2>1, <2>2, <2>3
  <2> QED BY <1>1, <1>2, <2>3, <2>4, <2>5 DEF Remembered, Working, Creating
<1>6. Pending' /\ Counted'
  BY <1>1, <1>2 DEF WInv, Pending, Counted, Creating
<1> QED BY <1>2, <1>3, <1>4, <1>5, <1>6 DEF WInv, Sound

LEMMA SyncLineKeeps == WInv /\ SyncLine => WInv'
<1> SUFFICES ASSUME WInv, SyncLine PROVE WInv'
  OBVIOUS
<1> DEFINE r == segs[N]
           n == Len(r.lines)
           s == [r EXCEPT !.durable = n]
<1>1. /\ pc = "sync" /\ pc' = "idle" /\ segs' = [segs EXCEPT ![N] = s]
      /\ segBytes' = segBytes + cur.size /\ segEvents' = segEvents + 1 /\ lastSeq' = cur.seq
      /\ acked' = acked \cup {cur} /\ cur' = NoLine
      /\ UNCHANGED <<appends, faults, happened>>
  BY DEF SyncLine
<1>2. pc \in Working /\ Types
  BY <1>1 DEF Working, WInv
<1>3. r \in Segment /\ N > 0 /\ n \in Nat /\ r.lines \in Seq(Line) /\ r.first \in Nat
  BY <1>2, AtWork, LastFields
<1>4. /\ ~Corrupt /\ ~r.torn /\ Numbers(r) /\ End(r) < FirstSeq + appends
      /\ r.first = After(segs, N - 1) /\ r.header
  BY <1>1, <1>2, AtWork DEF WInv, Place, Creating, Working
<1>5. /\ s \in Segment /\ s.first = r.first /\ s.header = r.header /\ s.lines = r.lines
      /\ s.torn = r.torn /\ s.linked = r.linked /\ s.durable = n
  <2> HIDE DEF r, n
  <2> QED BY <1>3 DEF Segment
<1> HIDE DEF s
<1>6. Proper(s, After(segs, N - 1), appends)
  <2> HIDE DEF r
  <2> QED BY <1>3, <1>4, <1>5 DEF Proper, Numbers, End
<1>7. /\ N' = N /\ segs' \in Seq(Segment) /\ segs'[N] = s /\ HeaderFirst' /\ ~Corrupt'
      /\ \A i \in 1..N' : End(segs'[i]) < FirstSeq + appends'
  <2> HIDE DEF r
  <2> QED BY <1>1, <1>3, <1>4, <1>5, <1>6, LastChanges
<1>8. /\ cur \in Line /\ cur.seq = lastSeq + 1 /\ lastSeq = End(r) - 1 /\ segEvents = n - 1
      /\ segBytes = Bytes(r) - cur.size /\ cur.size \in Nat /\ cur.seq \in Nat
      /\ segBytes \in Nat /\ segEvents \in Nat /\ Bytes(r) \in Nat
  <2>1. cur \in Line
    BY <1>1 DEF WInv, Types, Pending
  <2>2. cur.size \in Nat /\ cur.seq \in Nat
    <3>1. cur.seq \in FirstSeq..FirstSeq + MaxAppends /\ cur.size \in Sizes
      BY <2>1 DEF Line
    <3>2. FirstSeq \in Nat /\ MaxAppends \in Nat /\ cur.size \in Nat
      BY <3>1, SegmentAssumption
    <3>3. \A q \in FirstSeq..FirstSeq + MaxAppends : q \in Nat
      BY <3>2
    <3> QED BY <3>1, <3>2, <3>3
  <2>3. Bytes(r) \in Nat
    BY <1>3, BytesType
  <2> QED BY <1>1, <2>1, <2>2, <2>3 DEF WInv, Types, Pending, Remembered
<1>9. Types'
  <2>1. segBytes' \in Nat /\ segEvents' \in Nat /\ lastSeq' \in Nat /\ acked' \subseteq Line
    <3>1. acked' \subseteq Line
      BY <1>1, <1>8 DEF WInv, Types
    <3> HIDE DEF r, n
    <3>2. segBytes' \in Nat
      BY <1>1, <1>8
    <3>3. segEvents' \in Nat
      BY <1>1, <1>8
    <3>4. lastSeq' \in Nat
      BY <1>1, <1>8
    <3> QED BY <3>1, <3>2, <3>3, <3>4
  <2> QED BY <1>1, <1>7, <2>1 DEF WInv, Types, States
<1>10. Place'
  BY <1>1, <1>3, <1>4, <1>5, <1>7 DEF Place, Working, Creating
<1>11. Remembered'
  <2>1. End(s) = End(r) /\ End(r) \in Int /\ Bytes(s) = Bytes(r)
    BY <1>3, <1>5, BytesOfSame DEF End
  <2>2. lastSeq' = End(s) /\ segEvents' = Len(s.lines) /\ segBytes' = Bytes(s)
    <3> HIDE DEF r
    <3> QED BY <1>1, <1>3, <1>5, <1>8, <2>1
  <2> QED BY <1>1, <1>7, <2>2 DEF Remembered, Working
<1>12. Pending' /\ Counted'
  BY <1>1, <1>7 DEF Pending, Counted
<1> QED BY <1>7, <1>9, <1>10, <1>11, <1>12 DEF WInv, Sound

----------------------------------------------------------------------------
(* Faults *)

LEMMA BeginsIs ==
  ASSUME NEW S, NEW p \in Seq(S), NEW q \in Seq(S)
  PROVE  /\ Begins(p, q) => IsPrefix(p, q) /\ p = SubSeq(q, 1, Len(p))
         /\ IsPrefix(p, q) => Begins(p, q)
<1>1. /\ Len(p) \in Nat /\ Len(q) \in Nat
      /\ \A k \in 1..Len(p) : SubSeq(p, 1, Len(p))[k] = p[k]
      /\ SubSeq(p, 1, Len(p)) = p
  <2>1. SubSeq(p, 1, Len(p)) = p
    BY SubSeqFull
  <2> QED BY <2>1
<1>2. ASSUME Begins(p, q) PROVE p = SubSeq(q, 1, Len(p))
  <2> DEFINE n == Len(p)
  <2>1. n \in Nat /\ n <= Len(q) /\ \A k \in 1..n : p[k] = q[k]
    BY <1>1, <1>2 DEF Begins
  <2>2. 1 \in Int /\ n \in Int /\ \A i \in 1..n : q[i] \in S
    BY <1>1, <2>1
  <2>3. p = [k \in 1..n |-> p[k]]
    OBVIOUS
  <2> HIDE DEF n
  <2>4. SubSeq(q, 1, n) = [k \in 1..n |-> q[k]]
    BY <2>1, <2>2
  <2>5. [k \in 1..n |-> p[k]] = [k \in 1..n |-> q[k]]
    BY <2>1
  <2> QED BY <2>3, <2>4, <2>5 DEF n
<1>3. ASSUME IsPrefix(p, q) PROVE Begins(p, q)
  <2>1. Len(p) <= Len(q) /\ p = SubSeq(q, 1, Len(p))
    BY <1>1, <1>3 DEF IsPrefix
  <2>2. \A k \in 1..Len(p) : SubSeq(q, 1, Len(p))[k] = q[k]
    BY <1>1, <2>1
  <2> QED BY <2>1, <2>2 DEF Begins
<1>4. ASSUME Begins(p, q) PROVE IsPrefix(p, q)
  <2>1. p = SubSeq(q, 1, Len(p)) /\ Len(p) <= Len(q)
    BY <1>2, <1>4 DEF Begins
  <2> QED BY <1>1, <2>1 DEF IsPrefix
<1> QED BY <1>2, <1>3, <1>4

LEMMA BeginsItself == ASSUME NEW S, NEW p \in Seq(S) PROVE Begins(p, p)
BY DEF Begins

LEMMA BeginsAppended ==
  ASSUME NEW S, NEW p \in Seq(S), NEW x \in S
  PROVE  Begins(p, Append(p, x))
BY DEF Begins

\* What an interrupted step leaves: every line that was there, and maybe the pending one.
LEMMA InterruptedLeaves ==
  ASSUME WInv, Interrupted, appends' = appends
  PROVE  /\ N' = N /\ segs' \in Seq(Segment) /\ HeaderFirst'
         /\ \A i \in 1..N' : End(segs'[i]) < FirstSeq + appends'
         /\ ~Corrupt => ~Corrupt'
         /\ \A i \in 1..N : Begins(segs[i].lines, segs'[i].lines)
         /\ Events' = Events \/ (pc = "write" /\ cur \in Line /\ Events' = Append(Events, cur))
<1>0. segs \in Seq(Segment) /\ N = Len(segs) /\ N \in Nat /\ Types
  BY DEF WInv, Types, N
<1>00. \A i \in 1..N : Begins(segs[i].lines, segs[i].lines)
  BY <1>0, SegmentFields, BeginsItself
<1>1. CASE UNCHANGED segs
  BY <1>0, <1>00, <1>1, SegsStay
<1>2. ASSUME pc \in {"header", "write"}, NEW s \in Segment, segs' = [segs EXCEPT ![N] = s],
             s.first = segs[N].first, s.lines = segs[N].lines, s.durable = segs[N].durable,
             s.header = segs[N].header \/ (pc = "header" /\ s.header)
      PROVE  /\ N' = N /\ segs' \in Seq(Segment) /\ HeaderFirst'
             /\ \A i \in 1..N' : End(segs'[i]) < FirstSeq + appends'
             /\ ~Corrupt'
             /\ \A i \in 1..N : Begins(segs[i].lines, segs'[i].lines)
             /\ Events' = Events
  <2>1. /\ ~Corrupt /\ N > 0 /\ Numbers(segs[N]) /\ End(segs[N]) < FirstSeq + appends
        /\ segs[N].first = After(segs, N - 1) /\ segs[N].durable <= Len(segs[N].lines)
        /\ ~segs[N].header => segs[N].lines = <<>> /\ segs[N].durable = -1
    BY <1>2, AtWork DEF Working, Creating
  <2>2. Proper(s, After(segs, N - 1), appends)
    <3>1. ~s.header => ~segs[N].header
      BY <1>2
    <3> QED BY <1>2, <2>1, <3>1 DEF Proper, Numbers, End
  <2>3. /\ N' = N /\ segs' \in Seq(Segment) /\ segs'[N] = s /\ HeaderFirst' /\ ~Corrupt'
        /\ \A i \in 1..N-1 : segs'[i] = segs[i]
        /\ \A i \in 1..N' : End(segs'[i]) < FirstSeq + appends'
    BY <1>2, <2>1, <2>2, LastChanges
  <2>4. ASSUME NEW i \in 1..N PROVE Begins(segs[i].lines, segs'[i].lines)
    <3>1. segs'[i].lines = segs[i].lines
      BY <1>0, <1>2, <2>3
    <3> QED BY <1>00, <3>1
  <2>5. Events' = Events
    <3>1. \A i \in 1..N-1 : segs'[i].lines = segs[i].lines
      BY <2>3
    <3>2. /\ Events = Upto(segs, N - 1) \o segs[N].lines
          /\ Events' = Upto(segs, N - 1) \o segs'[N].lines
      BY <1>0, <2>1, <2>3, <3>1, LastExtendsLog
    <3> QED BY <1>2, <2>3, <3>2
  <2> QED BY <2>3, <2>4, <2>5
<1>3. CASE pc \in {"header", "write"} /\ segs' = [segs EXCEPT ![N].torn = TRUE]
  <2> DEFINE r == segs[N]
             s == [r EXCEPT !.torn = TRUE]
  <2>1. r \in Segment
    <3>1. N > 0
      BY <1>3, AtWork DEF Working, Creating
    <3> QED BY <1>0, <3>1, LastFields
  <2>2. segs' = [segs EXCEPT ![N] = s]
    BY <1>3
  <2>3. s \in Segment /\ s.first = r.first /\ s.lines = r.lines /\ s.durable = r.durable /\ s.header = r.header
    <3> HIDE DEF r
    <3> QED BY <2>1 DEF Segment
  <2> HIDE DEF s
  <2> QED BY <1>2, <1>3, <2>2, <2>3
<1>4. CASE pc = "header" /\ segs' = [segs EXCEPT ![N].header = TRUE]
  <2> DEFINE r == segs[N]
             s == [r EXCEPT !.header = TRUE]
  <2>1. r \in Segment
    <3>1. N > 0
      BY <1>4, AtWork DEF Working, Creating
    <3> QED BY <1>0, <3>1, LastFields
  <2>2. segs' = [segs EXCEPT ![N] = s]
    BY <1>4
  <2>3. s \in Segment /\ s.first = r.first /\ s.lines = r.lines /\ s.durable = r.durable /\ s.header = TRUE
    <3> HIDE DEF r
    <3> QED BY <2>1 DEF Segment
  <2> HIDE DEF s
  <2> QED BY <1>2, <1>4, <2>2, <2>3
<1>5. CASE pc = "write" /\ segs' = [segs EXCEPT ![N].lines = Append(@, cur)]
  <2>1. /\ N' = N /\ N > 0 /\ segs' \in Seq(Segment) /\ HeaderFirst' /\ ~Corrupt'
        /\ \A i \in 1..N-1 : segs'[i] = segs[i]
        /\ \A i \in 1..N' : End(segs'[i]) < FirstSeq + appends'
        /\ cur \in Line /\ segs[N].lines \in Seq(Line)
        /\ segs'[N].lines = Append(segs[N].lines, cur)
    BY <1>5, LineAdded
  <2>2. ASSUME NEW i \in 1..N PROVE Begins(segs[i].lines, segs'[i].lines)
    <3>1. CASE i = N
      BY <2>1, <3>1, BeginsAppended
    <3>2. CASE i # N
      <4>1. segs'[i] = segs[i]
        BY <1>0, <2>1, <3>2
      <4> QED BY <1>00, <4>1
    <3> QED BY <3>1, <3>2
  <2>3. Events' = Append(Events, cur)
    <3>1. \A i \in 1..N-1 : segs'[i].lines = segs[i].lines
      BY <2>1
    <3>2. /\ Events = Upto(segs, N - 1) \o segs[N].lines
          /\ Events' = Upto(segs, N - 1) \o segs'[N].lines
          /\ Upto(segs, N - 1) \in Seq(Line)
      BY <1>0, <2>1, <3>1, LastExtendsLog
    <3> DEFINE a == Upto(segs, N - 1)
               l == segs[N].lines
    <3>3. a \in Seq(Line) /\ l \in Seq(Line) /\ cur \in Line
      BY <2>1, <3>2
    <3> HIDE DEF a, l
    <3>4. a \o Append(l, cur) = Append(a \o l, cur)
      BY <3>3
    <3> QED BY <2>1, <3>2, <3>4 DEF a, l
  <2> QED BY <1>5, <2>1, <2>2, <2>3
<1> QED BY <1>1, <1>3, <1>4, <1>5 DEF Interrupted

\* A file operation that is under way belongs to open() or to append().
LEMMA FaultType ==
  ASSUME Types, NEW kind \in {"process", "power", "io"}, Fault(kind)
  PROVE  /\ faults' \in 0..MaxFaults /\ happened' = happened \cup {kind}
         /\ happened' \subseteq {"process", "power", "io"}
         /\ \E kinds \in FaultModels : happened' \subseteq kinds
<1>1. faults' = faults + 1 /\ faults < MaxFaults /\ happened' = happened \cup {kind}
      /\ \E kinds \in FaultModels : happened \cup {kind} \subseteq kinds
  BY DEF Fault
<1>2. faults \in 0..MaxFaults /\ MaxFaults \in Nat /\ happened \subseteq {"process", "power", "io"}
  BY SegmentAssumption DEF Types
<1>3. faults' \in 0..MaxFaults
  BY <1>1, <1>2
<1> QED BY <1>1, <1>2, <1>3

LEMMA ProcessCrashKeeps == WInv /\ ProcessCrash => WInv'
<1> SUFFICES ASSUME WInv, ProcessCrash PROVE WInv'
  OBVIOUS
<1>1. /\ Fault("process") /\ Interrupted /\ pc' = "closed"
      /\ lastSeq' = 0 /\ segEvents' = 0 /\ segBytes' = 0 /\ cur' = NoLine
      /\ UNCHANGED <<appends, acked, forks>>
  BY DEF ProcessCrash, Forget
<1>2. /\ N' = N /\ segs' \in Seq(Segment) /\ HeaderFirst'
      /\ \A i \in 1..N' : End(segs'[i]) < FirstSeq + appends'
      /\ ~Corrupt => ~Corrupt'
  BY <1>1, InterruptedLeaves
<1>3. /\ faults' \in 0..MaxFaults /\ happened' = happened \cup {"process"}
      /\ happened' \subseteq {"process", "power", "io"}
      /\ \E kinds \in FaultModels : happened' \subseteq kinds
  BY <1>1, FaultType DEF WInv
<1>4. Types'
  BY <1>1, <1>2, <1>3 DEF WInv, Types, States
<1>5. Sound'
  BY <1>1, <1>2, <1>3 DEF WInv, Sound, Safe, Clean, Calm
<1>6. Place' /\ Remembered' /\ Pending' /\ Counted'
  BY <1>1, <1>2 DEF Place, Remembered, Pending, Counted, Working, Creating
<1> QED BY <1>2, <1>4, <1>5, <1>6 DEF WInv

LEMMA IoErrorKeeps == WInv /\ IoError => WInv'
<1> SUFFICES ASSUME WInv, IoError PROVE WInv'
  OBVIOUS
<1>1. /\ Fault("io") /\ Interrupted /\ cur' = NoLine
      /\ \/ pc' = "poisoned" /\ cur # NoLine /\ UNCHANGED <<lastSeq, segEvents, segBytes>>
         \/ pc' = "closed" /\ lastSeq' = 0 /\ segEvents' = 0 /\ segBytes' = 0
      /\ UNCHANGED <<appends, acked, forks>>
  BY DEF IoError, Forget, position
<1>2. /\ N' = N /\ segs' \in Seq(Segment) /\ HeaderFirst'
      /\ \A i \in 1..N' : End(segs'[i]) < FirstSeq + appends'
      /\ ~Corrupt => ~Corrupt'
  BY <1>1, InterruptedLeaves
<1>3. /\ faults' \in 0..MaxFaults /\ happened' = happened \cup {"io"}
      /\ happened' \subseteq {"process", "power", "io"}
      /\ \E kinds \in FaultModels : happened' \subseteq kinds
  BY <1>1, FaultType DEF WInv
<1>4. Types'
  BY <1>1, <1>2, <1>3 DEF WInv, Types, States
<1>5. Sound'
  <2>1. cur # NoLine => ~Corrupt
    BY AtWork DEF WInv, Pending, Working
  <2> QED BY <1>1, <1>2, <1>3, <2>1 DEF WInv, Sound, Safe, Clean, Calm
<1>6. Place' /\ Remembered' /\ Pending' /\ Counted'
  BY <1>1, <1>2 DEF Place, Remembered, Pending, Counted, Working, Creating
<1> QED BY <1>2, <1>4, <1>5, <1>6 DEF WInv

\* What power loss leaves of one segment.
Left(s, i) ==
  /\ s \in Segment /\ s.first = segs[i].first /\ s.linked
  /\ s.header => /\ segs[i].header
                 /\ Begins(s.lines, segs[i].lines)
                 /\ segs[i].durable <= Len(s.lines) /\ s.durable = Len(s.lines)
                 /\ s.torn => segs[i].torn \/ Len(s.lines) < Len(segs[i].lines)
                              \/ (i = N /\ pc \in {"header", "write"})
  /\ ~s.header => s.lines = <<>> /\ s.durable = -1 /\ segs[i].durable = -1

LEMMA RemainsLeft ==
  ASSUME WInv, NEW i \in 1..N, NEW s \in Remains(i)
  PROVE  Left(s, i)
<1> DEFINE r == segs[i]
<1>1. /\ r \in Segment /\ r.lines \in Seq(Line) /\ Len(r.lines) \in Nat /\ r.durable \in Int
  BY SegmentFields DEF WInv, Types, N
<1>2. CASE \E x \in (0..Len(r.lines)) \X BOOLEAN :
             /\ s = [r EXCEPT !.lines = SubSeq(r.lines, 1, x[1]), !.torn = x[2], !.durable = x[1], !.linked = TRUE]
             /\ r.header /\ x[1] >= r.durable
             /\ x[2] => r.torn \/ x[1] < Len(r.lines) \/ (i = N /\ pc \in {"header", "write"})
  <2>1. PICK n \in 0..Len(r.lines), t \in BOOLEAN :
             /\ s = [r EXCEPT !.lines = SubSeq(r.lines, 1, n), !.torn = t, !.durable = n, !.linked = TRUE]
             /\ r.header /\ n >= r.durable
             /\ t => r.torn \/ n < Len(r.lines) \/ (i = N /\ pc \in {"header", "write"})
    BY <1>2
  <2> DEFINE l == r.lines
             p == SubSeq(l, 1, n)
  <2>2. p \in Seq(Line) /\ Len(p) = n /\ Begins(p, l)
    <3>1. l \in Seq(Line) /\ n \in 0..Len(l) /\ Len(l) \in Nat
      BY <1>1
    <3> HIDE DEF l
    <3>2. 1 \in Int /\ n \in Int /\ \A k \in 1..n : l[k] \in Line
      BY <3>1
    <3>3. p \in Seq(Line) /\ Len(p) = (IF 1 <= n THEN n - 1 + 1 ELSE 0)
      BY <3>2, SubSeqProperties
    <3>4. Len(p) = n
      <4>1. (IF 1 <= n THEN n - 1 + 1 ELSE 0) = n
        <5>1. CASE n = 0
          BY <5>1
        <5>2. CASE n # 0
          BY <3>1, <5>2
        <5> QED BY <5>1, <5>2
      <4> QED BY <3>3, <4>1
    <3>5. \A k \in 1..n : p[k] = l[k]
      BY <3>1
    <3> QED BY <3>1, <3>3, <3>4, <3>5 DEF Begins
  <2>3. s = [r EXCEPT !.lines = p, !.torn = t, !.durable = n, !.linked = TRUE] /\ n \in Int
    BY <2>1
  <2>4. /\ s \in Segment /\ s.first = r.first /\ s.header = r.header /\ s.lines = p
        /\ s.torn = t /\ s.linked = TRUE /\ s.durable = n
    <3> HIDE DEF r, p
    <3> QED BY <1>1, <2>2, <2>3 DEF Segment
  <2> HIDE DEF p
  <2> QED BY <2>1, <2>2, <2>4 DEF Left
<1>3. CASE \E t \in BOOLEAN : /\ s = [r EXCEPT !.header = FALSE, !.lines = <<>>, !.torn = t, !.linked = TRUE]
                              /\ r.durable = -1
  <2>1. PICK t \in BOOLEAN : /\ s = [r EXCEPT !.header = FALSE, !.lines = <<>>, !.torn = t, !.linked = TRUE]
                             /\ r.durable = -1
    BY <1>3
  <2> DEFINE p == <<>>
  <2>2. p \in Seq(Line) /\ s = [r EXCEPT !.header = FALSE, !.lines = p, !.torn = t, !.linked = TRUE]
    BY <2>1
  <2>3. /\ s \in Segment /\ s.first = r.first /\ s.header = FALSE /\ s.lines = p
        /\ s.linked = TRUE /\ s.durable = r.durable
    <3> HIDE DEF r, p
    <3> QED BY <1>1, <2>2 DEF Segment
  <2> QED BY <2>1, <2>3 DEF Left
<1> QED BY <1>2, <1>3 DEF Remains

\* Power loss leaves something of every segment; a file whose name was not synced may be gone.
LEMMA PowerLossLeaves ==
  ASSUME WInv, PowerLoss
  PROVE  /\ N' \in {N, N - 1} /\ N' \in 0..N /\ (N' # N => N > 0 /\ ~segs[N].linked)
         /\ segs' \in Seq(Segment) /\ \A i \in 1..N' : Left(segs'[i], i)
<1>1. PICK n \in {N} \cup { N - 1 : x \in { i \in 1..N : i = N /\ ~segs[i].linked } } :
         segs' \in { s \in [1..n -> UNION { Remains(i) : i \in 1..n }] :
                     \A i \in 1..n : s[i] \in Remains(i) }
  BY DEF PowerLoss
<1>2. N \in Nat
  BY DEF WInv, Types, N
<1>3. n \in {N, N - 1} /\ n \in 0..N /\ (n # N => N > 0 /\ ~segs[N].linked)
  BY <1>1, <1>2
<1>4. DOMAIN segs' = 1..n /\ segs' = [i \in 1..n |-> segs'[i]] /\ \A i \in 1..n : segs'[i] \in Remains(i)
  BY <1>1
<1>5. \A i \in 1..n : Left(segs'[i], i)
  BY <1>2, <1>3, <1>4, RemainsLeft
<1>6. \A i \in 1..n : segs'[i] \in Segment
  BY <1>5 DEF Left
<1>7. segs' \in Seq(Segment) /\ Len(segs') = n
  BY <1>3, <1>4, <1>6
<1> QED BY <1>3, <1>5, <1>7 DEF N

\* After a power loss that no process death or file error came before.
LEMMA PowerLossSafe ==
  ASSUME SInv, PowerLoss, Clean
  PROVE  /\ ~Corrupt /\ ~Corrupt'
         /\ \A i \in 1..N' : segs'[i].lines = segs[i].lines \/ (i = N /\ Begins(segs'[i].lines, segs[i].lines))
         /\ N' # N => N > 0 /\ segs[N].lines = <<>>
         /\ \A i \in 1..N'-1 : segs'[i].durable = Len(segs'[i].lines) /\ segs'[i].linked
         /\ N' > 0 => segs'[N'].linked
                      /\ segs'[N'].durable = IF segs'[N'].header THEN Len(segs'[N'].lines) ELSE -1
         /\ \A line \in acked : Kept(line)'
<1>1. /\ N' \in {N, N - 1} /\ N' \in 0..N /\ (N' # N => N > 0 /\ ~segs[N].linked)
      /\ segs' \in Seq(Segment) /\ \A i \in 1..N' : Left(segs'[i], i)
      /\ N \in Nat /\ segs \in Seq(Segment) /\ N = Len(segs) /\ N' = Len(segs') /\ N' \in Nat
  BY PowerLossLeaves DEF SInv, WInv, Types, N
<1>2. ~Corrupt /\ Intact(segs) /\ WInv
  BY Undamaged DEF SInv, WInv, Sound, Safe
<1>3. /\ \A i \in 1..N-1 : segs[i].durable = Len(segs[i].lines) /\ segs[i].linked
      /\ N > 0 => LastDurable
  BY DEF SInv, OnDisk
<1>4. ASSUME NEW i \in 1..N'
      PROVE  /\ segs'[i] \in Segment /\ segs'[i].lines \in Seq(Line) /\ segs[i].lines \in Seq(Line)
             /\ Len(segs'[i].lines) \in Nat /\ Len(segs[i].lines) \in Nat /\ i \in 1..N
             /\ segs[i].durable \in Int /\ segs'[i].durable \in Int
  <2>1. i \in 1..Len(segs') /\ i \in 1..Len(segs)
    BY <1>1
  <2> QED BY <1>1, <2>1, SegmentFields
<1>5. ASSUME NEW i \in 1..N', i # N
      PROVE  /\ segs'[i].lines = segs[i].lines /\ segs'[i].header /\ ~segs'[i].torn
             /\ segs'[i].durable = Len(segs'[i].lines) /\ segs'[i].linked
  <2>1. i \in 1..N-1 /\ i < Len(segs) /\ i \in 1..Len(segs)
    BY <1>1, <1>5
  <2>2. segs[i].header /\ ~segs[i].torn /\ segs[i].durable = Len(segs[i].lines)
    BY <1>2, <1>3, <2>1 DEF Intact
  <2>3. Left(segs'[i], i)
    BY <1>1
  <2>4. segs'[i].header
    BY <1>4, <2>2, <2>3 DEF Left
  <2>5. Begins(segs'[i].lines, segs[i].lines) /\ Len(segs[i].lines) <= Len(segs'[i].lines)
    BY <2>2, <2>3, <2>4 DEF Left
  <2>6. segs'[i].lines = segs[i].lines
    <3> DEFINE p == segs'[i].lines
               q == segs[i].lines
    <3>1. p \in Seq(Line) /\ q \in Seq(Line) /\ Begins(p, q) /\ Len(q) <= Len(p)
      BY <1>4, <2>5
    <3> HIDE DEF p, q
    <3>2. p = q
      <4>1. p = SubSeq(q, 1, Len(p))
        BY <3>1, BeginsIs
      <4>2. Len(p) = Len(q)
        BY <3>1 DEF Begins
      <4>3. SubSeq(q, 1, Len(q)) = q
        BY <3>1, SubSeqFull
      <4> QED BY <4>1, <4>2, <4>3
    <3> QED BY <3>2 DEF p, q
  <2>7. segs'[i].linked /\ segs'[i].durable = Len(segs'[i].lines)
    BY <2>3, <2>4 DEF Left
  <2>8. ~segs'[i].torn
    <3>1. segs'[i].torn => segs[i].torn \/ Len(segs'[i].lines) < Len(segs[i].lines) \/ i = N
      BY <2>3, <2>4 DEF Left
    <3>2. ~(Len(segs'[i].lines) < Len(segs[i].lines))
      BY <1>4, <2>6
    <3> QED BY <1>5, <2>2, <3>1, <3>2
  <2> QED BY <2>4, <2>6, <2>7, <2>8
<1>6. ASSUME N' # N PROVE N > 0 /\ segs[N].lines = <<>>
  <2>1. pc \in Creating
    BY <1>1, <1>3, <1>6 DEF LastDurable
  <2> QED BY <1>1, <1>2, <1>6, <2>1 DEF WInv, Place
<1>7. ASSUME NEW i \in 1..N'
      PROVE segs'[i].lines = segs[i].lines \/ (i = N /\ Begins(segs'[i].lines, segs[i].lines))
  <2>1. CASE i # N
    BY <1>5, <2>1
  <2>2. CASE i = N /\ segs'[i].header
    BY <1>1, <2>2 DEF Left
  <2>3. CASE i = N /\ ~segs'[i].header
    <3>1. segs'[i].lines = <<>>
      BY <1>1, <2>3 DEF Left
    <3> QED BY <1>4, <2>3, <3>1 DEF Begins
  <2> QED BY <2>1, <2>2, <2>3
<1>8. ~Corrupt'
  <2>1. ASSUME NEW i \in 1..N' PROVE After(segs', i - 1) = After(segs, i - 1)
    <3>1. i = 1 \/ (i - 1 \in 1..N' /\ i - 1 # N)
      BY <1>1
    <3>2. CASE i # 1
      <4>1. segs'[i-1].lines = segs[i-1].lines /\ segs'[i-1].first = segs[i-1].first
        BY <1>1, <1>5, <3>1, <3>2 DEF Left
      <4> QED BY <4>1 DEF After
    <3> QED BY <3>1, <3>2 DEF After
  <2>2. ASSUME NEW i \in 1..N'
        PROVE  /\ i < N' => segs'[i].header /\ ~segs'[i].torn
               /\ segs'[i].header => segs'[i].first = After(segs', i - 1)
               /\ Numbers(segs'[i])
    <3>1. i < N' => i # N
      BY <1>1
    <3>2. segs'[i].first = segs[i].first /\ (segs'[i].header => segs[i].header)
      BY <1>1 DEF Left
    <3>3. Numbers(segs[i]) /\ (segs[i].header => segs[i].first = After(segs, i - 1))
      BY <1>1, <1>2, <1>4 DEF Intact
    <3>4. Numbers(segs'[i])
      <4>1. CASE segs'[i].lines = segs[i].lines
        BY <3>2, <3>3, <4>1 DEF Numbers
      <4>2. CASE Begins(segs'[i].lines, segs[i].lines)
        <5>1. ASSUME NEW k \in 1..Len(segs'[i].lines)
              PROVE  segs'[i].lines[k].seq = segs'[i].first + k - 1
          <6>1. k \in 1..Len(segs[i].lines) /\ segs'[i].lines[k] = segs[i].lines[k]
            BY <1>4, <4>2 DEF Begins
          <6> QED BY <3>2, <3>3, <6>1 DEF Numbers
        <5> QED BY <5>1 DEF Numbers
      <4> QED BY <1>7, <4>1, <4>2
    <3> QED BY <1>5, <2>1, <3>1, <3>2, <3>3, <3>4
  <2>3. Intact(segs')
    BY <1>1, <2>2 DEF Intact
  <2> QED BY <2>3, UndamagedNext
<1>9. ASSUME NEW i \in 1..N'-1 PROVE segs'[i].durable = Len(segs'[i].lines) /\ segs'[i].linked
  <2>1. i \in 1..N' /\ i # N
    BY <1>1
  <2> QED BY <1>5, <2>1
<1>10. ASSUME N' > 0
       PROVE  /\ segs'[N'].linked
              /\ segs'[N'].durable = IF segs'[N'].header THEN Len(segs'[N'].lines) ELSE -1
  <2>1. Left(segs'[N'], N')
    <3>1. N' \in 1..N'
      BY <1>1, <1>10
    <3> QED BY <1>1, <3>1
  <2> QED BY <2>1 DEF Left
<1>11. ASSUME NEW line \in acked PROVE Kept(line)'
  <2>0. PICK i \in 1..N : \E k \in 1..Len(segs[i].lines) : segs[i].lines[k] = line /\ k <= segs[i].durable
    BY DEF SInv, Promises, Kept, Safe
  <2>1. PICK k \in 1..Len(segs[i].lines) : segs[i].lines[k] = line /\ k <= segs[i].durable
    BY <2>0
  <2>2. i \in 1..N'
    <3>1. CASE i = N /\ N' # N
      <4>1. segs[i].lines = <<>>
        BY <1>6, <3>1
      <4> QED BY <2>1, <4>1
    <3> QED BY <1>1, <3>1
  <2>3. CASE i # N
    <3>1. segs'[i].lines = segs[i].lines /\ segs'[i].durable = Len(segs'[i].lines)
      BY <1>5, <2>2, <2>3
    <3> QED BY <1>4, <2>1, <2>2, <3>1 DEF Kept
  <2>4. CASE i = N
    <3>1. Left(segs'[i], i)
      BY <1>1, <2>2
    <3>2. segs'[i].header
      BY <1>4, <2>1, <2>2, <3>1 DEF Left
    <3>3. /\ Begins(segs'[i].lines, segs[i].lines) /\ segs[i].durable <= Len(segs'[i].lines)
          /\ segs'[i].durable = Len(segs'[i].lines)
      BY <3>1, <3>2 DEF Left
    <3>4. k \in 1..Len(segs'[i].lines) /\ k <= segs'[i].durable
      BY <1>4, <2>1, <2>2, <3>3
    <3>5. segs'[i].lines[k] = line
      BY <2>1, <3>3, <3>4 DEF Begins
    <3> QED BY <2>2, <3>4, <3>5 DEF Kept
  <2> QED BY <2>3, <2>4
<1> QED BY <1>2, <1>6, <1>7, <1>8, <1>9, <1>10, <1>11

LEMMA PowerLossKeeps == SInv /\ PowerLoss => WInv'
<1> SUFFICES ASSUME SInv, PowerLoss PROVE WInv'
  OBVIOUS
<1>1. /\ Fault("power") /\ pc' = "closed"
      /\ lastSeq' = 0 /\ segEvents' = 0 /\ segBytes' = 0 /\ cur' = NoLine
      /\ UNCHANGED <<appends, acked, forks>>
  BY DEF PowerLoss, Forget
<1>2. /\ N' \in 0..N /\ segs' \in Seq(Segment) /\ \A i \in 1..N' : Left(segs'[i], i)
      /\ N \in Nat /\ segs \in Seq(Segment) /\ N = Len(segs) /\ N' = Len(segs') /\ WInv
  BY PowerLossLeaves DEF SInv, WInv, Types, N
<1>3. /\ faults' \in 0..MaxFaults /\ happened' = happened \cup {"power"}
      /\ happened' \subseteq {"process", "power", "io"}
      /\ \E kinds \in FaultModels : happened' \subseteq kinds
  BY <1>1, <1>2, FaultType DEF WInv
<1>4. Types'
  BY <1>1, <1>2, <1>3 DEF WInv, Types, States
<1>5. ASSUME NEW i \in 1..N'
      PROVE  /\ ~segs'[i].header => segs'[i].lines = <<>> /\ segs'[i].durable = -1
             /\ segs'[i].durable <= Len(segs'[i].lines)
             /\ End(segs'[i]) < FirstSeq + appends
  <2>1. Left(segs'[i], i) /\ i \in 1..N
    BY <1>2
  <2>2. /\ Len(segs'[i].lines) \in Nat /\ Len(segs[i].lines) \in Nat
        /\ segs[i].first \in Nat /\ segs'[i].first = segs[i].first
    <3>1. i \in 1..Len(segs') /\ i \in 1..Len(segs)
      BY <1>2
    <3> QED BY <1>2, <2>1, <3>1, SegmentFields DEF Left
  <2>3. Len(segs'[i].lines) <= Len(segs[i].lines)
    <3>1. segs'[i].lines = <<>> => Len(segs'[i].lines) = 0
      OBVIOUS
    <3> QED BY <2>1, <2>2, <3>1 DEF Left, Begins
  <2>4. segs'[i].durable <= Len(segs'[i].lines)
    BY <2>1, <2>2 DEF Left
  <2>5. End(segs'[i]) < FirstSeq + appends
    <3> DEFINE first == segs[i].first
               m == Len(segs'[i].lines)
               n == Len(segs[i].lines)
    <3>1. first \in Nat /\ m \in Nat /\ n \in Nat /\ m <= n
      BY <2>2, <2>3
    <3>2. End(segs'[i]) = first + m - 1
      BY <2>2 DEF End
    <3>3. first + n - 1 < FirstSeq + appends
      BY <1>2, <2>1 DEF End, WInv, Counted
    <3>4. FirstSeq \in Nat /\ appends \in Nat
      BY <1>2, SegmentAssumption DEF WInv, Types
    <3> HIDE DEF first, m, n
    <3> QED BY <3>1, <3>2, <3>3, <3>4
  <2> QED BY <2>1, <2>4, <2>5 DEF Left
<1>6. HeaderFirst' /\ Counted'
  BY <1>1, <1>5 DEF HeaderFirst, Counted
<1>7. Sound'
  <2>1. Safe' => Clean
    BY <1>3 DEF Safe, Clean, Calm
  <2> QED BY <1>1, <2>1, PowerLossSafe DEF Sound
<1>8. Place' /\ Remembered' /\ Pending'
  BY <1>1 DEF Place, Remembered, Pending, Working, Creating
<1> QED BY <1>4, <1>6, <1>7, <1>8 DEF WInv

----------------------------------------------------------------------------
(* What every step keeps of the promises. *)

\* Every acknowledged line is in the log, at the place its seq says.
LEMMA AckedAre ==
  ASSUME SInv, Safe
  PROVE  /\ ~Corrupt /\ Events \in Seq(Line) /\ Numbered(Events)
         /\ \A line \in acked : \E n \in 1..Len(Events) : Events[n] = line /\ line.seq = FirstSeq + n - 1
<1>1. ~Corrupt /\ Types /\ HeaderFirst
  BY DEF SInv, WInv, Sound
<1>2. Events \in Seq(Line) /\ Numbered(Events) /\ \A i \in 1..N : Spread(Events, segs[i])
  BY <1>1, LogFound
<1>3. ASSUME NEW line \in acked
      PROVE  \E n \in 1..Len(Events) : Events[n] = line /\ line.seq = FirstSeq + n - 1
  <2>1. PICK i \in 1..N : \E k \in 1..Len(segs[i].lines) : segs[i].lines[k] = line
    BY DEF SInv, Promises, Kept
  <2>2. PICK k \in 1..Len(segs[i].lines) : segs[i].lines[k] = line
    BY <2>1
  <2> DEFINE n == segs[i].first - FirstSeq + k
  <2>3. n \in 1..Len(Events) /\ Events[n] = line
    BY <1>2, <2>2 DEF Spread
  <2> HIDE DEF n
  <2>4. Events[n].seq = FirstSeq + n - 1
    BY <1>2, <2>3 DEF Numbered
  <2> QED BY <2>3, <2>4
<1> QED BY <1>1, <1>2, <1>3

LEMMA KeptStays ==
  ASSUME Types, NEW line, Kept(line), Clean' => Clean,
         \A i \in 1..N :
           \/ segs[i].lines = <<>>
           \/ /\ i \in 1..N'
              /\ segs'[i].durable \in Int
              /\ Begins(segs[i].lines, segs'[i].lines)
              /\ Len(segs'[i].lines) \in Nat
              /\ Clean' => segs[i].durable <= segs'[i].durable
  PROVE  Kept(line)'
<1>1. PICK i \in 1..N : \E k \in 1..Len(segs[i].lines) :
                          segs[i].lines[k] = line /\ (Clean => k <= segs[i].durable)
  BY DEF Kept
<1>2. PICK k \in 1..Len(segs[i].lines) : segs[i].lines[k] = line /\ (Clean => k <= segs[i].durable)
  BY <1>1
<1>3. segs[i].lines # <<>>
  BY <1>2
<1>4. /\ i \in 1..N' /\ segs'[i].durable \in Int /\ Begins(segs[i].lines, segs'[i].lines)
      /\ Len(segs'[i].lines) \in Nat /\ (Clean' => segs[i].durable <= segs'[i].durable)
  BY <1>3
<1>5. segs[i].durable \in Int /\ Len(segs[i].lines) \in Nat
  BY SegmentFields DEF Types, N
<1>6. k \in 1..Len(segs'[i].lines) /\ segs'[i].lines[k] = line
  BY <1>2, <1>4, <1>5 DEF Begins
<1>7. Clean' => k <= segs'[i].durable
  BY <1>2, <1>4, <1>5
<1> QED BY <1>4, <1>6, <1>7 DEF Kept

LEMMA InheritedStays ==
  ASSUME SInv, forks' = forks, Safe' => Safe, Calm' => Calm,
         Calm' => Events' = Events \/ (cur \in Line /\ Events' = Append(Events, cur))
  PROVE  Inherited'
<1>1. Safe' => \A f \in forks' : f \in Seq(Line)
  BY DEF SInv, Inherited
<1>2. ASSUME Calm', NEW f \in forks PROVE IsPrefix(f, Events')
  <2>1. Calm /\ Safe
    BY <1>2 DEF Safe
  <2>2. f \in Seq(Line) /\ IsPrefix(f, Events)
    BY <2>1 DEF SInv, Inherited
  <2>3. Events \in Seq(Line)
    BY <2>1, AckedAre
  <2>4. CASE Events' = Events
    BY <2>2, <2>4
  <2>5. CASE cur \in Line /\ Events' = Append(Events, cur)
    <3> DEFINE e == Events
    <3>1. Begins(f, e) /\ e \in Seq(Line) /\ IsPrefix(f, e)
      BY <2>2, <2>3, BeginsIs
    <3> HIDE DEF e
    <3>2. Begins(f, Append(e, cur)) /\ Append(e, cur) \in Seq(Line)
      BY <2>2, <2>5, <3>1 DEF Begins
    <3>3. IsPrefix(f, Append(e, cur))
      BY <2>2, <3>2, BeginsIs
    <3> QED BY <2>5, <3>3 DEF e
  <2> QED BY <1>2, <2>4, <2>5
<1> QED BY <1>1, <1>2 DEF Inherited

\* The files are as before.
LEMMA FilesStay ==
  ASSUME SInv, segs' = segs, acked' = acked, happened' = happened,
         \/ pc' = pc /\ cur' = cur
         \/ /\ pc \notin Creating \cup {"sync"}
            /\ pc' \notin Creating \cup {"sync", "poisoned"}
  PROVE  OnDisk' /\ Promises'
<1>1. N' = N /\ Clean' = Clean /\ Safe' = Safe
  BY DEF N, Clean, Calm, Safe
<1>2. LastDurable => LastDurable'
  BY <1>1 DEF LastDurable, Creating
<1>3. OnDisk'
  BY <1>1, <1>2 DEF SInv, OnDisk
<1>4. ASSUME NEW line PROVE Kept(line)' = Kept(line)
  BY <1>1 DEF Kept
<1>5. Promises'
  BY <1>1, <1>4 DEF SInv, Promises
<1> QED BY <1>3, <1>5

LEMMA QuietSafe ==
  ASSUME SInv, UNCHANGED vars
  PROVE  SInv'
<1>1. UNCHANGED <<segs, pc, lastSeq, segEvents, segBytes, cur, appends, faults, happened, acked, forks>>
  BY DEF vars
<1>2. WInv'
  BY <1>1, QuietKeeps DEF SInv
<1>3. OnDisk' /\ Promises'
  BY <1>1, FilesStay
<1>4. Events' = Events /\ Safe' = Safe /\ Calm' = Calm
  BY <1>1 DEF Events, N, Safe, Clean, Calm
<1>5. Inherited'
  BY <1>1, <1>4, InheritedStays
<1> QED BY <1>2, <1>3, <1>5 DEF SInv

\* Steps that leave the files alone.
LEMMA StepOnSameFiles ==
  ASSUME SInv, WInv', segs' = segs, acked' = acked, happened' = happened, forks' = forks,
         pc \notin Creating \cup {"sync"}, pc' \notin Creating \cup {"sync", "poisoned"}
  PROVE  SInv' /\ Events' = Events
<1>1. OnDisk' /\ Promises'
  BY FilesStay
<1>2. Events' = Events /\ Safe' = Safe /\ Calm' = Calm
  BY DEF Events, N, Safe, Clean, Calm
<1>3. Inherited'
  BY <1>2, InheritedStays
<1> QED BY <1>1, <1>2, <1>3 DEF SInv

\* Steps that create a segment.
LEMMA StepToNewFile ==
  ASSUME SInv, WInv', NEW first \in Nat, NewSegment(first), ~Corrupt, N > 0 => segs[N].header /\ ~segs[N].torn,
         appends' \in Int, appends <= appends', first - 1 < FirstSeq + appends',
         acked' = acked, happened' = happened, forks' = forks,
         pc \in {"scan", "rescan", "idle"}, pc' = "header"
  PROVE  SInv' /\ Events' = Events
<1>1. /\ N' = N + 1 /\ segs' \in Seq(Segment) /\ N \in Nat
      /\ segs'[N'].header = FALSE /\ segs'[N'].durable = -1
      /\ \A i \in 1..N : segs'[i] = segs[i]
      /\ Events' = Events
  BY SegmentAdded DEF SInv
<1>2. Clean' = Clean /\ Safe' = Safe /\ Calm' = Calm
  BY DEF Clean, Safe, Calm
<1>3. OnDisk'
  <2> SUFFICES ASSUME Clean
               PROVE  /\ \A i \in 1..N : segs[i].durable = Len(segs[i].lines) /\ segs[i].linked
                      /\ LastDurable'
    <3>1. pc' # "poisoned" /\ N' - 1 = N
      BY <1>1
    <3>2. ASSUME NEW i \in 1..N, segs[i].durable = Len(segs[i].lines) /\ segs[i].linked
          PROVE  segs'[i].durable = Len(segs'[i].lines) /\ segs'[i].linked
      BY <1>1, <3>2
    <3> QED BY <1>2, <3>1, <3>2 DEF OnDisk
  <2>1. ASSUME NEW i \in 1..N PROVE segs[i].durable = Len(segs[i].lines) /\ segs[i].linked
    <3>1. CASE i = N
      BY <1>1, <3>1 DEF SInv, OnDisk, LastDurable, Creating
    <3>2. CASE i # N
      <4>1. i \in 1..N-1
        BY <1>1, <3>2
      <4> QED BY <4>1 DEF SInv, OnDisk
    <3> QED BY <3>1, <3>2
  <2>2. LastDurable'
    BY <1>1 DEF LastDurable, Creating
  <2> QED BY <2>1, <2>2
<1>4. Promises'
  <2>1. ASSUME NEW line, Kept(line) PROVE Kept(line)'
    <3>1. PICK i \in 1..N : \E k \in 1..Len(segs[i].lines) :
                        segs[i].lines[k] = line /\ (Clean => k <= segs[i].durable)
      BY <2>1 DEF Kept
    <3>2. i \in 1..N' /\ segs'[i] = segs[i]
      BY <1>1
    <3> QED BY <1>2, <3>1, <3>2 DEF Kept
  <2> QED BY <1>2, <2>1 DEF SInv, Promises
<1>5. Inherited'
  BY <1>1, <1>2, InheritedStays
<1> QED BY <1>1, <1>3, <1>4, <1>5 DEF SInv

LEMMA CreateFirstSafe ==
  ASSUME SInv, WInv', N = 0, ~Corrupt, CreateFirst, pc \in {"scan", "rescan"},
         UNCHANGED <<appends, happened, acked, forks>>
  PROVE  SInv' /\ Events' = Events
<1>1. FirstSeq \in Nat /\ N \in Nat /\ appends \in Nat /\ NewSegment(FirstSeq) /\ pc' = "header"
  BY SegmentAssumption DEF SInv, WInv, Types, N, CreateFirst
<1>2. N > 0 => segs[N].header /\ ~segs[N].torn
  BY <1>1
<1>3. appends' \in Int /\ appends <= appends' /\ FirstSeq - 1 < FirstSeq + appends'
  BY <1>1
<1> QED BY <1>1, <1>2, <1>3, StepToNewFile

\* Steps that change the last segment, whose lines stay.
LEMMA StepOnLastFile ==
  ASSUME SInv, WInv', N > 0, N' = N, segs' \in Seq(Segment),
         \A i \in 1..N-1 : segs'[i] = segs[i],
         Begins(segs[N].lines, segs'[N].lines),
         Clean => segs[N].durable <= segs'[N].durable,
         happened' = happened, forks' = forks,
         pc' # "poisoned", Clean => LastDurable'
  PROVE  /\ OnDisk'
         /\ \A line : Kept(line) => Kept(line)'
         /\ Clean' = Clean /\ Safe' = Safe /\ Calm' = Calm
<1>1. Clean' = Clean /\ Safe' = Safe /\ Calm' = Calm
  BY DEF Clean, Safe, Calm
<1>2. OnDisk'
  BY <1>1 DEF SInv, OnDisk
<1>3. ASSUME NEW line, Kept(line) PROVE Kept(line)'
  <2>1. N \in Nat /\ segs \in Seq(Segment) /\ N = Len(segs) /\ N = Len(segs') /\ Types
    BY DEF SInv, WInv, Types, N
  <2>2. ASSUME NEW i \in 1..N
        PROVE  /\ i \in 1..N' /\ segs'[i].durable \in Int /\ Begins(segs[i].lines, segs'[i].lines)
               /\ Len(segs'[i].lines) \in Nat /\ (Clean' => segs[i].durable <= segs'[i].durable)
    <3>1. /\ segs'[i].durable \in Int /\ Len(segs'[i].lines) \in Nat
          /\ segs[i].durable \in Int /\ segs[i].lines \in Seq(Line)
      <4>1. i \in 1..Len(segs) /\ i \in 1..Len(segs')
        BY <2>1
      <4> QED BY <2>1, <4>1, SegmentFields
    <3>2. CASE i = N
      BY <1>1, <3>1, <3>2
    <3>3. CASE i # N
      <4>1. segs'[i] = segs[i]
        BY <2>1, <3>3
      <4> QED BY <3>1, <4>1, BeginsItself
    <3> QED BY <3>2, <3>3
  <2> QED BY <1>1, <1>3, <2>1, <2>2, KeptStays
<1> QED BY <1>1, <1>2, <1>3

\* ... and all of them are there as before.
LEMMA StepOnLastHeader ==
  ASSUME SInv, WInv', N > 0, NEW s \in Segment, segs' = [segs EXCEPT ![N] = s],
         s.lines = segs[N].lines,
         Clean => segs[N].durable <= s.durable,
         happened' = happened, forks' = forks, acked' = acked,
         pc' \notin {"sync", "poisoned"},
         Clean => /\ s.durable = IF pc' \in {"header", "syncheader"} \/ ~s.header THEN -1 ELSE Len(s.lines)
                  /\ pc' \notin Creating => s.linked
  PROVE  SInv' /\ Events' = Events
<1>1. segs \in Seq(Segment) /\ N = Len(segs) /\ N \in Nat
  BY DEF SInv, WInv, Types, N
<1>2. N' = N /\ segs' \in Seq(Segment) /\ segs'[N] = s /\ \A i \in 1..N-1 : segs'[i] = segs[i]
  BY <1>1, WithLast DEF N
<1>3. segs[N].lines \in Seq(Line)
  BY LastFields DEF SInv, WInv
<1>4. Begins(segs[N].lines, segs'[N].lines)
  BY <1>2, <1>3, BeginsItself
<1>5. Clean => LastDurable'
  BY <1>2 DEF LastDurable
<1>6. /\ OnDisk'
      /\ \A line : Kept(line) => Kept(line)'
      /\ Clean' = Clean /\ Safe' = Safe /\ Calm' = Calm
  BY <1>2, <1>4, <1>5, StepOnLastFile
<1>7. Promises'
  BY <1>6 DEF SInv, Promises
<1>8. Events' = Events
  <2>1. \A i \in 1..N-1 : segs'[i].lines = segs[i].lines
    BY <1>2
  <2>2. /\ Events = Upto(segs, N - 1) \o segs[N].lines
        /\ Events' = Upto(segs, N - 1) \o segs'[N].lines
    BY <1>1, <1>2, <2>1, LastExtendsLog
  <2> QED BY <1>2, <2>2
<1>9. Inherited'
  BY <1>6, <1>8, InheritedStays
<1> QED BY <1>6, <1>7, <1>8, <1>9 DEF SInv

LEMMA OpenForWriteSafe == SInv /\ OpenForWrite => SInv' /\ Events' = Events
<1> SUFFICES ASSUME SInv, OpenForWrite PROVE SInv' /\ Events' = Events
  OBVIOUS
<1>1. /\ segs' = segs /\ acked' = acked /\ happened' = happened /\ forks' = forks
      /\ pc = "closed" /\ pc' = "scan"
  BY DEF OpenForWrite
<1>2. WInv'
  BY OpenForWriteKeeps DEF SInv
<1> QED BY <1>1, <1>2, StepOnSameFiles DEF Creating

LEMMA CopyTailSafe == SInv /\ CopyTail => SInv' /\ Events' = Events
<1> SUFFICES ASSUME SInv, CopyTail PROVE SInv' /\ Events' = Events
  OBVIOUS
<1>1. /\ segs' = segs /\ acked' = acked /\ happened' = happened /\ forks' = forks
      /\ pc = "copy" /\ pc' = "cut"
  BY DEF CopyTail
<1>2. WInv'
  BY CopyTailKeeps DEF SInv
<1> QED BY <1>1, <1>2, StepOnSameFiles DEF Creating

LEMMA CloseSafe == SInv /\ Close => SInv' /\ Events' = Events
<1> SUFFICES ASSUME SInv, Close PROVE SInv' /\ Events' = Events
  OBVIOUS
<1>1. /\ segs' = segs /\ acked' = acked /\ happened' = happened /\ forks' = forks
      /\ pc \in {"idle", "poisoned"} /\ pc' = "closed"
  BY DEF Close
<1>2. WInv'
  BY CloseKeeps DEF SInv
<1> QED BY <1>1, <1>2, StepOnSameFiles DEF Creating

LEMMA ForkSafe == ASSUME SInv, NEW seq \in Int, Fork(seq) PROVE SInv' /\ Events' = Events
<1>1. /\ UNCHANGED <<segs, pc, lastSeq, segEvents, segBytes, cur, appends, faults, happened, acked>>
      /\ FirstSeq <= seq /\ seq <= SummarySeq
      /\ forks' = forks \cup {SubSeq(Events, 1, seq - FirstSeq + 1)}
  BY DEF Fork, position
<1>2. WInv'
  BY <1>1, QuietKeeps DEF SInv
<1>3. OnDisk' /\ Promises'
  BY <1>1, FilesStay
<1>4. Events' = Events /\ Safe' = Safe /\ Calm' = Calm
  BY <1>1 DEF Events, N, Safe, Clean, Calm
<1>5. ASSUME Safe
      PROVE  LET f == SubSeq(Events, 1, seq - FirstSeq + 1) IN f \in Seq(Line) /\ IsPrefix(f, Events)
  <2>1. ~Corrupt /\ Types /\ HeaderFirst /\ Events \in Seq(Line)
    BY <1>5, AckedAre DEF SInv, WInv
  <2>2. seq - FirstSeq + 1 \in 0..Len(Events)
    <3>1. FirstSeq \in Nat
      BY SegmentAssumption
    <3>2. N > 0 /\ segs[N].lines # <<>>
      BY <1>1, <3>1, <2>1 DEF SummarySeq, Types, N
    <3>3. N \in 1..N /\ N \in Nat
      BY <2>1, <3>2, LastFields
    <3>4. segs[N].header
      BY <2>1, <3>2, <3>3 DEF HeaderFirst
    <3>5. SummarySeq = LastOwnSeq
      BY <2>1, <3>2, <3>3, <3>4, LogFound DEF SummarySeq, End
    <3>6. Len(Events) \in Nat
      BY <2>1
    <3> QED BY <1>1, <3>1, <3>5, <3>6 DEF LastOwnSeq
  <2> DEFINE m == seq - FirstSeq + 1
             e == Events
  <2>3. m \in 0..Len(e) /\ e \in Seq(Line) /\ Len(e) \in Nat
    BY <2>1, <2>2
  <2> HIDE DEF m, e
  <2>4. 1 \in Int /\ m \in Int /\ \A i \in 1..m : e[i] \in Line
    BY <2>3
  <2>5. SubSeq(e, 1, m) \in Seq(Line) /\ Len(SubSeq(e, 1, m)) <= Len(e)
    <3>1. SubSeq(e, 1, m) \in Seq(Line) /\ Len(SubSeq(e, 1, m)) = IF 1 <= m THEN m - 1 + 1 ELSE 0
      BY <2>4, SubSeqProperties
    <3>2. (IF 1 <= m THEN m - 1 + 1 ELSE 0) <= Len(e)
      BY <2>3
    <3> QED BY <3>1, <3>2
  <2>6. Begins(SubSeq(e, 1, m), e)
    <3>1. SubSeq(e, 1, m) = [i \in 1..m |-> e[i]]
      BY <2>3, <2>4
    <3>2. \A i \in 1..Len(SubSeq(e, 1, m)) : SubSeq(e, 1, m)[i] = e[i]
      BY <2>3, <3>1
    <3> QED BY <2>5, <3>2 DEF Begins
  <2>7. IsPrefix(SubSeq(e, 1, m), e)
    BY <2>3, <2>5, <2>6, BeginsIs
  <2> QED BY <2>5, <2>7 DEF e, m
<1>6. Inherited'
  <2>1. Safe => \A f \in forks' : f \in Seq(Line)
    BY <1>1, <1>5 DEF SInv, Inherited
  <2>2. Calm => \A f \in forks' : IsPrefix(f, Events)
    BY <1>1, <1>5 DEF SInv, Inherited, Safe
  <2> QED BY <1>4, <2>1, <2>2 DEF Inherited
<1> QED BY <1>2, <1>3, <1>4, <1>6 DEF SInv

LEMMA ScanSafe == SInv /\ Scan => SInv' /\ Events' = Events
<1> SUFFICES ASSUME SInv, Scan PROVE SInv' /\ Events' = Events
  OBVIOUS
<1>1. pc = "scan" /\ UNCHANGED <<appends, happened, acked, forks>>
  BY DEF Scan
<1>2. WInv'
  BY ScanKeeps DEF SInv
<1>3. CASE segs' = segs /\ pc' \in {"closed", "copy", "idle"}
  BY <1>1, <1>2, <1>3, StepOnSameFiles DEF Creating
<1>4. CASE ~Corrupt /\ N = 0 /\ CreateFirst
  BY <1>1, <1>2, <1>4, CreateFirstSafe
<1> QED BY <1>3, <1>4 DEF Scan

LEMMA RescanSafe == SInv /\ Rescan => SInv' /\ Events' = Events
<1> SUFFICES ASSUME SInv, Rescan PROVE SInv' /\ Events' = Events
  OBVIOUS
<1>1. pc = "rescan" /\ UNCHANGED <<appends, happened, acked, forks>> /\ ~Corrupt
  BY DEF Rescan, SInv, WInv, Sound
<1>2. WInv'
  BY RescanKeeps DEF SInv
<1>3. CASE segs' = segs /\ pc' \in {"closed", "idle"}
  BY <1>1, <1>2, <1>3, StepOnSameFiles DEF Creating
<1>4. CASE N = 0 /\ CreateFirst
  BY <1>1, <1>2, <1>4, CreateFirstSafe
<1> QED BY <1>3, <1>4 DEF Rescan

LEMMA CutTailSafe == SInv /\ CutTail => SInv' /\ Events' = Events
<1> SUFFICES ASSUME SInv, CutTail PROVE SInv' /\ Events' = Events
  OBVIOUS
<1>1. /\ pc = "cut" /\ UNCHANGED <<cur, appends, faults, happened, acked, forks>>
      /\ ~Corrupt /\ TornTail /\ N > 0 /\ WInv /\ Types
  BY DEF CutTail, SInv, WInv, Place, Sound, TornTail, HeaderOnly
<1>2. WInv'
  BY CutTailKeeps DEF SInv
<1>3. /\ N \in 1..N /\ N \in Nat /\ N = Len(segs) /\ segs \in Seq(Segment) /\ Intact(segs)
      /\ segs[N] \in Segment /\ segs[N].durable \in Int /\ Len(segs[N].lines) \in Nat
  BY <1>1, LastFields, Undamaged DEF Types
<1>4. CASE HeaderOnly
  <2>1. segs' = Front(segs) /\ pc' = "rescan"
    BY <1>4 DEF CutTail
  <2>2. segs[N].lines = <<>>
    BY <1>1, <1>3, <1>4 DEF HeaderOnly, WInv, HeaderFirst
  <2>3. /\ N' = N - 1 /\ segs' \in Seq(Segment) /\ \A i \in 1..N-1 : segs'[i] = segs[i]
        /\ Events' = Events
    BY <1>1, <2>1, <2>2, SegmentDropped
  <2>4. Clean' = Clean /\ Safe' = Safe /\ Calm' = Calm
    BY <1>1 DEF Clean, Safe, Calm
  <2>5. OnDisk'
    <3> SUFFICES ASSUME Clean
                 PROVE  /\ \A i \in 1..N'-1 : segs'[i].durable = Len(segs'[i].lines) /\ segs'[i].linked
                        /\ N' > 0 => LastDurable'
      BY <2>1, <2>4 DEF OnDisk
    <3>1. \A i \in 1..N-1 : segs'[i].durable = Len(segs'[i].lines) /\ segs'[i].linked
      BY <2>3 DEF SInv, OnDisk
    <3>2. ASSUME N' > 0 PROVE LastDurable'
      <4>1. N' \in 1..N-1 /\ N' < Len(segs) /\ N' \in 1..Len(segs)
        BY <1>3, <2>3, <3>2
      <4>2. segs'[N'].header
        BY <1>3, <2>3, <4>1 DEF Intact
      <4> QED BY <2>1, <3>1, <4>1, <4>2 DEF LastDurable
    <3> QED BY <1>3, <2>3, <3>1, <3>2
  <2>6. Promises'
    <3>1. ASSUME NEW line, Kept(line) PROVE Kept(line)'
      <4>1. PICK i \in 1..N : \E k \in 1..Len(segs[i].lines) :
                          segs[i].lines[k] = line /\ (Clean => k <= segs[i].durable)
        BY <3>1 DEF Kept
      <4>2. i \in 1..N-1
        <5>1. i # N
          BY <2>2, <4>1
        <5> QED BY <1>3, <5>1
      <4> QED BY <2>3, <2>4, <4>1, <4>2 DEF Kept
    <3> QED BY <2>1, <2>4, <3>1, <1>1 DEF SInv, Promises
  <2>7. Inherited'
    BY <1>1, <2>3, <2>4, InheritedStays
  <2> QED BY <1>2, <2>3, <2>5, <2>6, <2>7 DEF SInv
<1>5. CASE ~HeaderOnly
  <2> DEFINE r == segs[N]
             n == Len(segs[N].lines)
             s == [r EXCEPT !.torn = FALSE, !.linked = TRUE, !.durable = n]
  <2>1. segs' = [segs EXCEPT ![N] = s] /\ pc' = "idle"
    BY <1>5 DEF CutTail
  <2>2. s \in Segment /\ s.lines = r.lines /\ s.header = r.header /\ s.durable = n /\ s.linked = TRUE
    <3>1. r \in Segment /\ n \in Int
      BY <1>3
    <3> HIDE DEF r, n
    <3> QED BY <3>1 DEF Segment
  <2>3. segs[N].durable <= n /\ segs[N].header
    BY <1>1, <1>3, <1>5 DEF WInv, HeaderFirst, HeaderOnly
  <2> HIDE DEF s
  <2> QED BY <1>1, <1>2, <2>1, <2>2, <2>3, StepOnLastHeader DEF Creating
<1> QED BY <1>4, <1>5

LEMMA WriteHeaderSafe == SInv /\ WriteHeader => SInv' /\ Events' = Events
<1> SUFFICES ASSUME SInv, WriteHeader PROVE SInv' /\ Events' = Events
  OBVIOUS
<1> DEFINE r == segs[N]
           s == [r EXCEPT !.header = TRUE]
<1>1. /\ pc = "header" /\ pc' = "syncheader" /\ segs' = [segs EXCEPT ![N] = s]
      /\ happened' = happened /\ forks' = forks /\ acked' = acked /\ WInv
  BY DEF WriteHeader, SInv
<1>2. N > 0 /\ r \in Segment /\ r.durable \in Int
  <2>1. N > 0
    BY <1>1, AtWork DEF Working, Creating
  <2> QED BY <1>1, <2>1, LastFields DEF WInv
<1>3. s \in Segment /\ s.lines = r.lines /\ s.header = TRUE /\ s.durable = r.durable
  <2> HIDE DEF r
  <2> QED BY <1>2 DEF Segment
<1>4. Clean => r.durable = -1
  BY <1>1, <1>2 DEF SInv, OnDisk, LastDurable
<1>5. WInv'
  BY WriteHeaderKeeps DEF SInv
<1> HIDE DEF s
<1>6. s.lines = segs[N].lines /\ (Clean => segs[N].durable <= s.durable)
  BY <1>2, <1>3, <1>4
<1>7. Clean => /\ s.durable = IF pc' \in {"header", "syncheader"} \/ ~s.header THEN -1 ELSE Len(s.lines)
               /\ pc' \notin Creating => s.linked
  <2> HIDE DEF r
  <2> QED BY <1>1, <1>2, <1>3, <1>4, <1>5 DEF Creating
<1>8. pc' \notin {"sync", "poisoned"}
  BY <1>1
<1> HIDE DEF r
<1> QED BY <1>1, <1>2, <1>3, <1>5, <1>6, <1>7, <1>8, StepOnLastHeader

LEMMA SyncHeaderSafe == SInv /\ SyncHeader => SInv' /\ Events' = Events
<1> SUFFICES ASSUME SInv, SyncHeader PROVE SInv' /\ Events' = Events
  OBVIOUS
<1> DEFINE r == segs[N]
           s == [r EXCEPT !.durable = 0]
<1>1. /\ pc = "syncheader" /\ pc' = "syncdir" /\ segs' = [segs EXCEPT ![N] = s]
      /\ happened' = happened /\ forks' = forks /\ acked' = acked /\ WInv
  BY DEF SyncHeader, SInv
<1>2. N > 0 /\ r \in Segment /\ r.header /\ r.lines = <<>>
  <2>1. N > 0
    BY <1>1, AtWork DEF Working, Creating
  <2> QED BY <1>1, <2>1, LastFields DEF WInv, Place, Working, Creating
<1>3. s \in Segment /\ s.lines = r.lines /\ s.header = r.header /\ s.durable = 0
  <2>1. r \in Segment
    BY <1>2
  <2> HIDE DEF r
  <2> QED BY <2>1 DEF Segment
<1>4. Clean => r.durable = -1
  BY <1>1, <1>2 DEF SInv, OnDisk, LastDurable
<1>5. WInv' /\ Len(r.lines) = 0
  BY <1>2, SyncHeaderKeeps DEF SInv
<1> HIDE DEF s
<1>6. s.lines = segs[N].lines /\ (Clean => segs[N].durable <= s.durable)
  BY <1>2, <1>3, <1>4
<1>7. Clean => /\ s.durable = IF pc' \in {"header", "syncheader"} \/ ~s.header THEN -1 ELSE Len(s.lines)
               /\ pc' \notin Creating => s.linked
  <2> HIDE DEF r
  <2> QED BY <1>1, <1>2, <1>3, <1>4, <1>5 DEF Creating
<1>8. pc' \notin {"sync", "poisoned"}
  BY <1>1
<1> HIDE DEF r
<1> QED BY <1>1, <1>2, <1>3, <1>5, <1>6, <1>7, <1>8, StepOnLastHeader

LEMMA SyncDirectorySafe == SInv /\ SyncDirectory => SInv' /\ Events' = Events
<1> SUFFICES ASSUME SInv, SyncDirectory PROVE SInv' /\ Events' = Events
  OBVIOUS
<1> DEFINE r == segs[N]
           s == [r EXCEPT !.linked = TRUE]
<1>1. /\ pc = "syncdir" /\ pc' \in {"idle", "write"} /\ segs' = [segs EXCEPT ![N] = s]
      /\ happened' = happened /\ forks' = forks /\ acked' = acked /\ WInv
  BY DEF SyncDirectory, SInv
<1>2. N > 0 /\ r \in Segment /\ r.durable \in Int
  <2>1. N > 0
    BY <1>1, AtWork DEF Working, Creating
  <2> QED BY <1>1, <2>1, LastFields DEF WInv
<1>3. s \in Segment /\ s.lines = r.lines /\ s.header = r.header /\ s.durable = r.durable /\ s.linked = TRUE
  <2> HIDE DEF r
  <2> QED BY <1>2 DEF Segment
<1>4. Clean => r.durable = IF ~r.header THEN -1 ELSE Len(r.lines)
  BY <1>1, <1>2 DEF SInv, OnDisk, LastDurable
<1>5. WInv'
  BY SyncDirectoryKeeps DEF SInv
<1> HIDE DEF s
<1>6. s.lines = segs[N].lines /\ (Clean => segs[N].durable <= s.durable)
  BY <1>2, <1>3, <1>4
<1>7. Clean => /\ s.durable = IF pc' \in {"header", "syncheader"} \/ ~s.header THEN -1 ELSE Len(s.lines)
               /\ pc' \notin Creating => s.linked
  <2> HIDE DEF r
  <2> QED BY <1>1, <1>2, <1>3, <1>4, <1>5 DEF Creating
<1>8. pc' \notin {"sync", "poisoned"}
  BY <1>1
<1> HIDE DEF r
<1> QED BY <1>1, <1>2, <1>3, <1>5, <1>6, <1>7, <1>8, StepOnLastHeader

LEMMA AppendStartSafe == ASSUME SInv, NEW size \in Sizes, AppendStart(size) PROVE SInv' /\ Events' = Events
<1>1. /\ pc = "idle" /\ N > 0 /\ segs[N].header /\ ~segs[N].torn /\ ~Corrupt
      /\ lastSeq \in Nat /\ appends' = appends + 1 /\ appends \in Nat
      /\ lastSeq + 1 < FirstSeq + appends'
  BY AppendStarts DEF SInv
<1>2. UNCHANGED <<happened, acked, forks>> /\ WInv'
  BY AppendStartKeeps DEF AppendStart, SInv
<1>3. CASE NewSegment(lastSeq + 1) /\ pc' = "header"
  <2>1. /\ lastSeq + 1 \in Nat /\ appends' \in Int /\ appends <= appends'
        /\ (lastSeq + 1) - 1 < FirstSeq + appends'
    BY <1>1, SegmentAssumption
  <2>2. N > 0 => segs[N].header /\ ~segs[N].torn
    BY <1>1
  <2> QED BY <1>1, <1>2, <1>3, <2>1, <2>2, StepToNewFile
<1>4. CASE pc' = "write" /\ UNCHANGED segs
  BY <1>1, <1>2, <1>4, StepOnSameFiles DEF Creating
<1> QED BY <1>3, <1>4 DEF AppendStart

\* The pending line was not acknowledged before.
LEMMA PendingIsNew == ASSUME SInv, Safe, pc = "write" PROVE cur \notin acked
<1>1. cur.seq = lastSeq + 1 /\ lastSeq = End(segs[N])
  BY DEF SInv, WInv, Pending, Remembered, Working
<1>2. LastOwnSeq = End(segs[N]) /\ LastOwnSeq \in Nat
  <2>1. N > 0 /\ segs[N].header /\ ~Corrupt /\ Types /\ HeaderFirst
    BY DEF SInv, WInv, Place, Sound, Working, Creating
  <2> QED BY <2>1, LogFound
<1>3. ASSUME cur \in acked PROVE FALSE
  <2>1. PICK n \in 1..Len(Events) : cur.seq = FirstSeq + n - 1
    BY <1>3, AckedAre
  <2>2. Len(Events) \in Nat /\ FirstSeq \in Nat /\ LastOwnSeq = FirstSeq - 1 + Len(Events)
    BY AckedAre, SegmentAssumption DEF LastOwnSeq
  <2>3. FirstSeq + n - 1 = LastOwnSeq + 1
    BY <1>1, <1>2, <2>1
  <2> QED BY <1>2, <2>1, <2>2, <2>3
<1> QED BY <1>3

LEMMA WriteLineSafe == SInv /\ WriteLine => SInv' /\ cur \in Line /\ Events' = Append(Events, cur)
<1> SUFFICES ASSUME SInv, WriteLine PROVE SInv' /\ cur \in Line /\ Events' = Append(Events, cur)
  OBVIOUS
<1>1. /\ pc = "write" /\ pc' = "sync" /\ segs' = [segs EXCEPT ![N].lines = Append(@, cur)]
      /\ UNCHANGED <<cur, appends, happened, acked, forks>> /\ WInv
  BY DEF WriteLine, SInv
<1>2. /\ N' = N /\ N > 0 /\ segs' \in Seq(Segment)
      /\ \A i \in 1..N-1 : segs'[i] = segs[i]
      /\ cur \in Line /\ segs[N].lines \in Seq(Line)
      /\ segs'[N].lines = Append(segs[N].lines, cur)
      /\ segs'[N].header = segs[N].header
      /\ segs'[N].durable = segs[N].durable /\ segs'[N].linked = segs[N].linked
      /\ segs[N].header
  BY <1>1, LineAdded
<1>3. WInv'
  BY WriteLineKeeps DEF SInv
<1>4. segs[N].durable \in Int /\ Len(segs[N].lines) \in Nat /\ Len(segs'[N].lines) = Len(segs[N].lines) + 1
  <2>1. segs[N].durable \in Int /\ Len(segs[N].lines) \in Nat
    BY <1>1, <1>2, LastFields DEF WInv
  <2>2. Len(Append(segs[N].lines, cur)) = Len(segs[N].lines) + 1
    BY <1>2
  <2> QED BY <1>2, <2>1, <2>2
<1>5. Begins(segs[N].lines, segs'[N].lines)
  BY <1>2, BeginsAppended
<1>6. Clean => LastDurable'
  <2>1. Clean => segs[N].durable = Len(segs[N].lines) /\ segs[N].linked
    BY <1>1, <1>2 DEF SInv, OnDisk, LastDurable, Creating
  <2> QED BY <1>1, <1>2, <1>4, <2>1 DEF LastDurable
<1>7. /\ OnDisk'
      /\ \A line : Kept(line) => Kept(line)'
      /\ Clean' = Clean /\ Safe' = Safe /\ Calm' = Calm
  BY <1>1, <1>2, <1>3, <1>4, <1>5, <1>6, StepOnLastFile
<1>8. Promises'
  BY <1>1, <1>7, PendingIsNew DEF SInv, Promises
<1>9. Events' = Append(Events, cur)
  <2>1. Interrupted /\ appends' = appends
    BY <1>1 DEF Interrupted
  <2>2. \A i \in 1..N-1 : segs'[i].lines = segs[i].lines
    BY <1>2
  <2>3. /\ Events = Upto(segs, N - 1) \o segs[N].lines
        /\ Events' = Upto(segs, N - 1) \o segs'[N].lines
        /\ Upto(segs, N - 1) \in Seq(Line)
    BY <1>1, <1>2, <2>2, LastExtendsLog DEF WInv, Types
  <2> DEFINE a == Upto(segs, N - 1)
             l == segs[N].lines
  <2>4. a \in Seq(Line) /\ l \in Seq(Line) /\ cur \in Line
    BY <1>2, <2>3
  <2> HIDE DEF a, l
  <2>5. a \o Append(l, cur) = Append(a \o l, cur)
    BY <2>4
  <2> QED BY <1>2, <2>3, <2>5 DEF a, l
<1>10. Inherited'
  BY <1>1, <1>2, <1>7, <1>9, InheritedStays
<1> QED BY <1>2, <1>3, <1>7, <1>8, <1>9, <1>10 DEF SInv

LEMMA SyncLineSafe == SInv /\ SyncLine => SInv' /\ Events' = Events
<1> SUFFICES ASSUME SInv, SyncLine PROVE SInv' /\ Events' = Events
  OBVIOUS
<1> DEFINE r == segs[N]
           n == Len(r.lines)
           s == [r EXCEPT !.durable = n]
<1>1. /\ pc = "sync" /\ pc' = "idle" /\ segs' = [segs EXCEPT ![N] = s]
      /\ acked' = acked \cup {cur} /\ UNCHANGED <<appends, happened, forks>> /\ WInv
  BY DEF SyncLine, SInv
<1>2. /\ N > 0 /\ r \in Segment /\ r.durable \in Int /\ r.lines \in Seq(Line) /\ r.header
      /\ r.durable <= n /\ n \in Nat
  <2>1. N > 0 /\ r.durable <= n
    BY <1>1, AtWork DEF Working
  <2> QED BY <1>1, <2>1, LastFields DEF WInv, Place, Working, Creating
<1>3. s \in Segment /\ s.lines = r.lines /\ s.header = r.header /\ s.durable = n /\ s.linked = r.linked
  <2>1. r \in Segment /\ n \in Int
    BY <1>2
  <2> HIDE DEF r, n
  <2> QED BY <2>1 DEF Segment
<1>4. Clean => r.linked
  BY <1>1, <1>2 DEF SInv, OnDisk, LastDurable, Creating
<1>5. WInv'
  BY SyncLineKeeps DEF SInv
<1>6. segs \in Seq(Segment) /\ N = Len(segs) /\ N \in Nat
  BY <1>1 DEF WInv, Types, N
<1> HIDE DEF s
<1>7. N' = N /\ segs' \in Seq(Segment) /\ segs'[N] = s /\ \A i \in 1..N-1 : segs'[i] = segs[i]
  BY <1>1, <1>2, <1>3, <1>6, WithLast DEF N
<1>8. Begins(segs[N].lines, segs'[N].lines)
  BY <1>2, <1>3, <1>7, BeginsItself
<1>9. Clean => LastDurable'
  BY <1>1, <1>2, <1>3, <1>4, <1>7 DEF LastDurable
<1>10. /\ OnDisk'
       /\ \A line : Kept(line) => Kept(line)'
       /\ Clean' = Clean /\ Safe' = Safe /\ Calm' = Calm
  BY <1>1, <1>2, <1>3, <1>5, <1>7, <1>8, <1>9, StepOnLastFile
<1>11. ASSUME NEW line, line = cur PROVE Kept(line)'
  <2>1. r.lines # <<>> /\ r.lines[n] = line
    BY <1>1, <1>11 DEF WInv, Remembered
  <2>2. n \in 1..n /\ N \in 1..N
    BY <1>2, <1>6, <2>1
  <2>3. n \in 1..Len(segs'[N].lines) /\ segs'[N].lines[n] = line /\ n <= segs'[N].durable /\ N \in 1..N'
    BY <1>2, <1>3, <1>7, <2>1, <2>2
  <2> HIDE DEF n, r
  <2>4. \E k \in 1..Len(segs'[N].lines) : segs'[N].lines[k] = line /\ (Clean' => k <= segs'[N].durable)
    BY <2>3
  <2>5. \E i \in 1..N' : \E k \in 1..Len(segs'[i].lines) :
           segs'[i].lines[k] = line /\ (Clean' => k <= segs'[i].durable)
    BY <2>3, <2>4
  <2> QED BY <2>5 DEF Kept
<1>12. Promises'
  <2>1. ASSUME Safe', NEW line \in acked' PROVE Kept(line)'
    <3>1. CASE line = cur
      BY <1>11, <3>1
    <3>2. CASE line \in acked
      BY <1>10, <2>1, <3>2 DEF SInv, Promises
    <3> QED BY <1>1, <3>1, <3>2
  <2> QED BY <1>1, <2>1 DEF Promises
<1>13. Events' = Events
  <2>1. \A i \in 1..N-1 : segs'[i].lines = segs[i].lines
    BY <1>7
  <2>2. /\ Events = Upto(segs, N - 1) \o segs[N].lines
        /\ Events' = Upto(segs, N - 1) \o segs'[N].lines
    BY <1>2, <1>6, <1>7, <2>1, LastExtendsLog
  <2> QED BY <1>3, <1>7, <2>2
<1>14. Inherited'
  BY <1>1, <1>10, <1>13, InheritedStays
<1> QED BY <1>5, <1>10, <1>12, <1>13, <1>14 DEF SInv

\* A process death or a failed file operation.
LEMMA InterruptedSafe ==
  ASSUME SInv, WInv', Interrupted, appends' = appends, acked' = acked, forks' = forks,
         pc' \notin {"sync"}, NEW kind \in {"process", "io"}, happened' = happened \cup {kind}
  PROVE  SInv'
<1>1. ~Clean' /\ (Calm' => Calm) /\ (Safe' => Calm' /\ Safe)
  BY DEF Clean, Calm, Safe
<1>2. /\ N' = N /\ segs' \in Seq(Segment)
      /\ \A i \in 1..N : Begins(segs[i].lines, segs'[i].lines)
      /\ Events' = Events \/ (pc = "write" /\ cur \in Line /\ Events' = Append(Events, cur))
  BY InterruptedLeaves DEF SInv
<1>3. ASSUME NEW line, Kept(line) PROVE Kept(line)'
  <2>1. \A i \in 1..N : segs'[i].durable \in Int /\ Len(segs'[i].lines) \in Nat
    BY <1>2, SegmentFields DEF N
  <2>2. Types
    BY DEF SInv, WInv
  <2> QED BY <1>1, <1>2, <1>3, <2>1, <2>2, KeptStays
<1>4. OnDisk' /\ Promises'
  BY <1>1, <1>3 DEF SInv, OnDisk, Promises
<1>5. Inherited'
  BY <1>1, <1>2, InheritedStays
<1> QED BY <1>4, <1>5 DEF SInv

LEMMA ProcessCrashSafe == SInv /\ ProcessCrash => SInv'
<1> SUFFICES ASSUME SInv, ProcessCrash PROVE SInv'
  OBVIOUS
<1>1. /\ Interrupted /\ UNCHANGED <<appends, acked, forks>> /\ pc' = "closed"
      /\ happened' = happened \cup {"process"}
  BY DEF ProcessCrash, Fault
<1>2. WInv'
  BY ProcessCrashKeeps DEF SInv
<1> QED BY <1>1, <1>2, InterruptedSafe

LEMMA IoErrorSafe == SInv /\ IoError => SInv'
<1> SUFFICES ASSUME SInv, IoError PROVE SInv'
  OBVIOUS
<1>1. /\ Interrupted /\ UNCHANGED <<appends, acked, forks>> /\ pc' \in {"closed", "poisoned"}
      /\ happened' = happened \cup {"io"}
  BY DEF IoError, Fault
<1>2. WInv'
  BY IoErrorKeeps DEF SInv
<1>3. pc' \notin {"sync"}
  BY <1>1
<1> QED BY <1>1, <1>2, <1>3, InterruptedSafe

LEMMA PowerLossIsSafe == SInv /\ PowerLoss => SInv'
<1> SUFFICES ASSUME SInv, PowerLoss PROVE SInv'
  OBVIOUS
<1>1. /\ pc' = "closed" /\ UNCHANGED <<appends, acked, forks>>
      /\ happened' = happened \cup {"power"}
  BY DEF PowerLoss, Fault
<1>2. WInv'
  BY PowerLossKeeps DEF SInv
<1>3. Clean' = Clean /\ ~Calm' /\ Safe' = Clean'
  BY <1>1 DEF Clean, Calm, Safe
<1>4. OnDisk'
  <2> SUFFICES ASSUME Clean
               PROVE  /\ \A i \in 1..N'-1 : segs'[i].durable = Len(segs'[i].lines) /\ segs'[i].linked
                      /\ N' > 0 => LastDurable'
    BY <1>1, <1>3 DEF OnDisk
  <2>1. N' > 0 => LastDurable'
    BY <1>1, PowerLossSafe DEF LastDurable, Creating
  <2> QED BY <2>1, PowerLossSafe
<1>5. Promises'
  BY <1>1, <1>3, PowerLossSafe DEF Promises
<1>6. Inherited'
  BY <1>1, <1>3 DEF SInv, Inherited, Safe
<1> QED BY <1>2, <1>4, <1>5, <1>6 DEF SInv

----------------------------------------------------------------------------
(* The invariant, and what follows from it. *)

LEMMA InitSInv == Init => SInv
<1> SUFFICES ASSUME Init PROVE SInv
  OBVIOUS
<1>1. /\ segs = <<>> /\ N = 0 /\ pc = "closed" /\ cur = NoLine /\ acked = {} /\ forks = {}
      /\ lastSeq = 0 /\ segEvents = 0 /\ segBytes = 0 /\ appends = 0 /\ faults = 0 /\ happened = {}
  BY DEF Init, N
<1>2. \E kinds \in FaultModels : happened \subseteq kinds
  BY <1>1, SegmentAssumption
<1>3. Types
  <2>1. <<>> \in Seq(Segment)
    OBVIOUS
  <2> QED BY <1>1, <1>2, <2>1, SegmentAssumption DEF Types, States
<1>4. HeaderFirst /\ Sound /\ Place /\ Remembered /\ Pending /\ Counted
  BY <1>1 DEF HeaderFirst, Sound, Corrupt, Place, Remembered, Pending, Counted, Working, Creating
<1>5. OnDisk /\ Promises /\ Inherited
  BY <1>1 DEF OnDisk, Promises, Inherited
<1> QED BY <1>3, <1>4, <1>5 DEF SInv, WInv

LEMMA NextSInv == SInv /\ [Next]_vars => SInv'
<1> SUFFICES ASSUME SInv, [Next]_vars PROVE SInv'
  OBVIOUS
<1>1. CASE UNCHANGED vars
  BY <1>1, QuietSafe
<1>2. CASE OpenStep
  BY <1>2, OpenForWriteSafe, ScanSafe, CopyTailSafe, CutTailSafe, RescanSafe DEF OpenStep
<1>3. CASE CreateStep
  BY <1>3, WriteHeaderSafe, SyncHeaderSafe, SyncDirectorySafe DEF CreateStep
<1>4. CASE AppendStep
  BY <1>4, AppendStartSafe, WriteLineSafe, SyncLineSafe DEF AppendStep
<1>5. CASE Close
  BY <1>5, CloseSafe
<1>6. CASE \E seq \in FirstSeq .. FirstSeq + MaxAppends : Fork(seq)
  <2>1. PICK seq \in FirstSeq .. FirstSeq + MaxAppends : Fork(seq)
    BY <1>6
  <2>2. seq \in Int
    BY SegmentAssumption
  <2> QED BY <2>1, <2>2, ForkSafe
<1>7. CASE FaultStep
  BY <1>7, ProcessCrashSafe, IoErrorSafe, PowerLossIsSafe DEF FaultStep
<1> QED BY <1>1, <1>2, <1>3, <1>4, <1>5, <1>6, <1>7 DEF Next

LEMMA Invariant == Spec => []SInv
BY InitSInv, NextSInv, PTL DEF Spec

LEMMA SafeHolds == ASSUME PowerApart, Types PROVE Safe
<1>1. PICK kinds \in FaultModels : happened \subseteq kinds
  BY DEF Types
<1>2. CASE "power" \in kinds
  BY <1>1, <1>2 DEF PowerApart, Safe, Clean
<1>3. CASE "power" \notin kinds
  BY <1>1, <1>3 DEF Safe, Calm
<1> QED BY <1>2, <1>3

LEMMA SInvReadable == SInv /\ Safe => AckedReadable
BY AckedAre DEF AckedReadable

LEMMA SInvPosition == SInv => PositionExact
<1> SUFFICES ASSUME SInv, pc = "idle"
             PROVE  /\ ~TornTail /\ lastSeq = LastOwnSeq
                    /\ segEvents = Len(segs[N].lines) /\ segBytes = Bytes(segs[N])
  BY DEF PositionExact
<1>1. /\ ~Corrupt /\ N > 0 /\ ~segs[N].torn /\ segs[N].header /\ Types /\ HeaderFirst
      /\ lastSeq = End(segs[N])
      /\ segEvents = Len(segs[N].lines) /\ segBytes = Bytes(segs[N])
  BY DEF SInv, WInv, Sound, Place, Remembered, Working, Creating
<1>2. LastOwnSeq = End(segs[N])
  BY <1>1, LogFound
<1> QED BY <1>1, <1>2 DEF TornTail, HeaderOnly

LEMMA SInvForks == SInv => ForkHistoryStable
BY DEF ForkHistoryStable, SInv, WInv, Sound, Inherited, Safe, Calm

LEMMA SInvTypes == SInv /\ Safe => TypeOK
BY DEF SInv, WInv, Types, Inherited, TypeOK

(* The writer's position is what a scan would find (event-store.ts),       *)
(* whatever faults may happen together.                                    *)
THEOREM PositionIsExact == Spec => []PositionExact
BY Invariant, SInvPosition, PTL

(* What a fork inherited stays the beginning of its ancestor's log         *)
(* (session-store.ts, readSessionItems), as long as power is not lost.     *)
THEOREM ForksKeepHistory == Spec => []ForkHistoryStable
BY Invariant, SInvForks, PTL

(* An acknowledged append can be read through every crash and reopening    *)
(* (event-store.ts, #appendNow), if power is not lost after other faults.  *)
THEOREM AckedStayReadable == ASSUME PowerApart PROVE Spec => []AckedReadable
<1>1. SInv => AckedReadable
  BY PowerApart, SafeHolds, SInvReadable DEF SInv, WInv
<1> QED BY <1>1, Invariant, PTL

(* The state keeps its types (event-store.ts, segments.ts).                *)
THEOREM TypeCorrect == ASSUME PowerApart PROVE Spec => []TypeOK
<1>1. SInv => TypeOK
  BY PowerApart, SafeHolds, SInvTypes DEF SInv, WInv
<1> QED BY <1>1, Invariant, PTL

----------------------------------------------------------------------------
(* The refinement of DurableLog. *)

\* Where the acknowledged lines of a log are, and the last of these places.
Where(e, lines) == { i \in 1..Len(e) : e[i] \in lines }
Last0(places) == IF places = {} THEN 0 ELSE CHOOSE n \in places : \A i \in places : i <= n

LEMMA PromisedIs == Promised = Last0(Where(Events, acked)) /\ Promised' = Last0(Where(Events', acked'))
BY DEF Promised, Where, Last0

LEMMA LastIs ==
  ASSUME NEW n \in Nat, NEW T, T \subseteq 1..n
  PROVE  /\ Last0(T) \in 0..n
         /\ \A m \in T : (\A i \in T : i <= m) => Last0(T) = m
<1> DEFINE Bounds == { k \in Nat : \A i \in T : i <= k }
<1>1. n \in Bounds /\ Bounds \subseteq Nat
  OBVIOUS
<1>2. PICK m \in Bounds : \A k \in Bounds : m <= k
  BY <1>1, Smallest
<1>3. CASE T = {}
  BY <1>3 DEF Last0
<1>4. CASE T # {}
  <2>1. m \in T
    <3> SUFFICES ASSUME m \notin T PROVE FALSE
      OBVIOUS
    <3>1. \A i \in T : i \in Nat /\ i >= 1 /\ i <= m /\ i # m
      BY <1>2
    <3>2. m \in Nat /\ m >= 1
      <4>1. PICK i \in T : TRUE
        BY <1>4
      <4>2. m \in Nat /\ i \in Nat /\ i >= 1 /\ i <= m
        BY <1>2, <3>1, <4>1
      <4> QED BY <4>2
    <3>3. \A i \in T : i <= m - 1
      BY <3>1, <3>2
    <3>4. m - 1 \in Bounds
      BY <3>2, <3>3
    <3> QED BY <1>2, <3>2, <3>4
  <2>2. \A i \in T : i <= m
    BY <1>2
  <2>3. Last0(T) = CHOOSE x \in T : \A i \in T : i <= x
    BY <1>4 DEF Last0
  <2>4. Last0(T) \in T /\ \A i \in T : i <= Last0(T)
    BY <2>1, <2>2, <2>3
  <2>5. PICK y \in T : y = Last0(T) /\ \A i \in T : i <= y
    BY <2>4
  <2>6. \A i \in T : i \in Nat /\ i <= n
    OBVIOUS
  <2>7. y \in 0..n
    BY <2>6
  <2>8. ASSUME NEW x \in T, \A i \in T : i <= x PROVE y = x
    <3>1. y <= x /\ x <= y /\ x \in Nat /\ y \in Nat
      BY <2>5, <2>6, <2>8
    <3> QED BY <3>1
  <2> QED BY <2>5, <2>7, <2>8
<1> QED BY <1>3, <1>4

LEMMA WhereIs == ASSUME NEW e \in Seq(Line), NEW lines PROVE Len(e) \in Nat /\ Where(e, lines) \subseteq 1..Len(e)
BY DEF Where

\* An event reaches the log.
LEMMA StepWrites ==
  ASSUME SInv, Safe, acked' = acked, cur \in Line, cur \notin acked, Events' = Append(Events, cur)
  PROVE  Durable!Write(cur)
<1> DEFINE e == Events
<1>1. e \in Seq(Line)
  BY AckedAre
<1> HIDE DEF e
<1>2. Where(Append(e, cur), acked) = Where(e, acked)
  <2>1. Len(Append(e, cur)) = Len(e) + 1 /\ Append(e, cur)[Len(e) + 1] = cur /\ Len(e) \in Nat
        /\ \A i \in 1..Len(e) : Append(e, cur)[i] = e[i]
    BY <1>1
  <2> QED BY <2>1 DEF Where
<1> QED BY <1>2, PromisedIs DEF e, Durable!Write

\* append() resolves.
LEMMA StepPromises ==
  ASSUME SInv, Safe, Events' = Events, acked' = acked \cup {cur}, pc = "sync"
  PROVE  Durable!Promise
<1> DEFINE e == Events
           n == Len(e)
<1>1. e \in Seq(Line) /\ n \in Nat
  BY AckedAre
<1>2. cur \notin acked
  BY DEF SInv, Promises
<1>3. n > 0 /\ e[n] = cur
  <2>1. /\ N > 0 /\ segs[N].header /\ ~Corrupt /\ Types /\ HeaderFirst /\ WInv
        /\ segs[N].lines # <<>> /\ segs[N].lines[Len(segs[N].lines)] = cur
    BY DEF SInv, WInv, Place, Sound, Remembered, Working, Creating
  <2>2. LastOwnSeq = End(segs[N]) /\ Spread(e, segs[N])
    <3>1. N \in 1..N
      BY <2>1, LogFound
    <3> QED BY <2>1, <3>1, LogFound
  <2> DEFINE r == segs[N]
             k == Len(r.lines)
  <2>3. r.first \in Int /\ FirstSeq \in Int /\ k \in Nat /\ r.lines \in Seq(Line)
    BY <2>1, LastFields, SegmentAssumption
  <2>4. k \in 1..k
    BY <2>1, <2>3
  <2>5. r.first - FirstSeq + k \in 1..n /\ e[r.first - FirstSeq + k] = cur
    BY <2>1, <2>2, <2>4 DEF Spread
  <2>6. FirstSeq - 1 + n = r.first + k - 1
    BY <2>2 DEF LastOwnSeq, End
  <2> HIDE DEF r, k, e, n
  <2>7. r.first - FirstSeq + k = n
    BY <1>1, <2>3, <2>6
  <2> QED BY <1>1, <2>5, <2>7
<1> HIDE DEF e
<1>4. Last0(Where(e, acked)) \in 0..n - 1
  <2>1. Where(e, acked) \subseteq 1..n - 1
    BY <1>1, <1>2, <1>3 DEF Where
  <2>2. n - 1 \in Nat
    BY <1>1, <1>3
  <2> QED BY <2>1, <2>2, LastIs
<1>5. Last0(Where(e, acked')) = n
  <2>1. n \in Where(e, acked') /\ Where(e, acked') \subseteq 1..n
    BY <1>1, <1>3 DEF Where
  <2>2. ASSUME NEW i \in Where(e, acked') PROVE i <= n
    <3>1. i \in 1..n
      BY <2>1
    <3> HIDE DEF n
    <3> QED BY <1>1, <3>1
  <2> QED BY <1>1, <2>1, <2>2, LastIs
<1>6. Promised \in 0..n - 1 /\ Promised' = n
  BY <1>4, <1>5, PromisedIs DEF e
<1>7. Promised' \in Promised + 1 .. n
  BY <1>1, <1>6
<1> QED BY <1>7 DEF e, Durable!Promise

\* Power is lost.
LEMMA LogShortens ==
  ASSUME SInv, PowerLoss, Clean
  PROVE  Events \in Seq(Line) /\ Events' \in Seq(Line) /\ Begins(Events', Events)
<1>1. /\ segs \in Seq(Segment) /\ segs' \in Seq(Segment) /\ N \in Nat /\ N' \in {N, N - 1} /\ N' \in 0..N
      /\ N = Len(segs) /\ N' = Len(segs')
  BY PowerLossLeaves DEF SInv, WInv, Types, N
<1>2. /\ \A i \in 1..N' : segs'[i].lines = segs[i].lines \/ (i = N /\ Begins(segs'[i].lines, segs[i].lines))
      /\ N' # N => N > 0 /\ segs[N].lines = <<>>
  BY PowerLossSafe
<1>3. Events = Upto(segs, N) /\ Events' = Upto(segs', N') /\ Events \in Seq(Line) /\ Events' \in Seq(Line)
  BY <1>1, EventsAre, UptoType
<1>4. CASE N' # N
  <2>1. N' = N - 1 /\ N \in 1..Len(segs) /\ N - 1 \in 0..Len(segs) /\ N - 1 \in Nat
    BY <1>1, <1>2, <1>4
  <2>2. \A i \in 1..N-1 : segs'[i].lines = segs[i].lines
    BY <1>1, <1>2, <2>1
  <2>3. Upto(segs', N - 1) = Upto(segs, N - 1) /\ Upto(segs, N - 1) \in Seq(Line)
    BY <1>1, <2>1, <2>2, UptoSame, UptoType
  <2>4. Upto(segs, N) = Upto(segs, N - 1) \o <<>>
    BY <1>1, <1>2, <1>4, <2>1, UptoNext
  <2>5. Events' = Events
    BY <1>3, <2>1, <2>3, <2>4
  <2> QED BY <1>3, <2>5, BeginsItself
<1>5. CASE N' = N /\ N = 0
  <2>1. Events' = Events
    BY <1>3, <1>5, UptoNone
  <2> QED BY <1>3, <2>1, BeginsItself
<1>6. CASE N' = N /\ N > 0
  <2>1. N \in 1..N' /\ \A i \in 1..N-1 : segs'[i].lines = segs[i].lines
    BY <1>1, <1>2, <1>6
  <2> DEFINE u == Upto(segs, N - 1)
             x == segs[N].lines
             y == segs'[N].lines
  <2>2. u \in Seq(Line) /\ x \in Seq(Line) /\ y \in Seq(Line) /\ Events = u \o x /\ Events' = u \o y
    BY <1>1, <1>6, <2>1, LastExtendsLog
  <2>3. Begins(y, x)
    BY <1>2, <2>1, <2>2, BeginsItself
  <2> HIDE DEF u, x, y
  <2>4. Begins(u \o y, u \o x)
    <3> DEFINE p == u \o y
               q == u \o x
    <3>1. /\ Len(p) = Len(u) + Len(y) /\ Len(q) = Len(u) + Len(x)
          /\ \A k \in 1..Len(p) : p[k] = IF k <= Len(u) THEN u[k] ELSE y[k - Len(u)]
          /\ \A k \in 1..Len(q) : q[k] = IF k <= Len(u) THEN u[k] ELSE x[k - Len(u)]
          /\ Len(u) \in Nat /\ Len(x) \in Nat /\ Len(y) \in Nat
      BY <2>2
    <3> HIDE DEF p, q
    <3>2. Len(y) <= Len(x) /\ \A k \in 1..Len(y) : y[k] = x[k]
      BY <2>3 DEF Begins
    <3>3. ASSUME NEW k \in 1..Len(p) PROVE p[k] = q[k]
      <4>1. k \in 1..Len(q)
        BY <3>1, <3>2
      <4>2. CASE k <= Len(u)
        BY <3>1, <4>1, <4>2
      <4>3. CASE ~(k <= Len(u))
        <5>1. k - Len(u) \in 1..Len(y)
          BY <3>1, <4>3
        <5> QED BY <3>1, <3>2, <4>1, <4>3, <5>1
      <4> QED BY <4>2, <4>3
    <3>4. Len(p) <= Len(q)
      BY <3>1, <3>2
    <3> QED BY <3>3, <3>4 DEF Begins, p, q
  <2> QED BY <1>3, <2>2, <2>4
<1> QED BY <1>1, <1>4, <1>5, <1>6

\* Every acknowledged line is at the place its seq says.
Placed == \A line \in acked : \E n \in 1..Len(Events) : Events[n] = line /\ line.seq = FirstSeq + n - 1

LEMMA AckedPlaced == SInv /\ Safe => Placed
BY AckedAre DEF Placed

LEMMA PlacedNext == SInv' /\ Safe' => Placed'
BY AckedPlaced, PTL

LEMMA StepLoses ==
  ASSUME SInv, SInv', Safe', PowerLoss
  PROVE  Durable!Lose
<1>1. Clean /\ acked' = acked /\ Safe
  BY DEF PowerLoss, Fault, Safe, Clean, Calm
<1> DEFINE e == Events
           d == Events'
<1>2. e \in Seq(Line) /\ d \in Seq(Line) /\ Begins(d, e) /\ Numbered(e)
  BY <1>1, LogShortens, AckedAre
<1>3. ASSUME NEW line \in acked
      PROVE  \E n \in 1..Len(d) : d[n] = line /\ line.seq = FirstSeq + n - 1
  BY <1>1, <1>3, PlacedNext DEF Placed
<1> HIDE DEF e, d
<1>4. Len(d) \in Nat /\ Len(e) \in Nat /\ Len(d) <= Len(e) /\ \A k \in 1..Len(d) : d[k] = e[k]
  BY <1>2 DEF Begins
<1>5. ASSUME NEW i \in 1..Len(e), e[i] \in acked PROVE i \in 1..Len(d)
  <2>1. PICK n \in 1..Len(d) : e[i].seq = FirstSeq + n - 1
    BY <1>3, <1>5
  <2>2. e[i].seq = FirstSeq + i - 1
    BY <1>2 DEF Numbered
  <2>3. i = n
    BY <1>4, <2>1, <2>2, SegmentAssumption
  <2> QED BY <2>3
<1>6. Where(d, acked) = Where(e, acked)
  BY <1>4, <1>5 DEF Where
<1>7. Last0(Where(d, acked)) \in 0..Len(d)
  BY <1>2, WhereIs, LastIs
<1>8. Promised' = Promised /\ Promised \in 0..Len(d)
  BY <1>1, <1>6, <1>7, PromisedIs DEF d, e
<1>9. d = SubSeq(e, 1, Len(d)) /\ Len(d) \in Promised .. Len(e)
  BY <1>2, <1>4, <1>8, BeginsIs
<1> QED BY <1>8, <1>9 DEF d, e, Durable!Lose

\* No event comes or goes.
LEMMA StepRests ==
  ASSUME Events' = Events, acked' = acked
  PROVE  UNCHANGED <<Events, Promised>>
BY PromisedIs

LEMMA InitImplements == Init => Durable!Init
<1> SUFFICES ASSUME Init PROVE Events = <<>> /\ Promised = 0
  BY DEF Durable!Init
<1>1. N = 0 /\ acked = {}
  BY DEF Init, N
<1>2. Events = <<>>
  BY <1>1, EventsAre, UptoNone
<1>3. Where(Events, acked) = {}
  BY <1>1 DEF Where
<1> QED BY <1>2, <1>3, PromisedIs DEF Last0

LEMMA InterruptedImplements ==
  ASSUME SInv, Safe, Interrupted, appends' = appends, acked' = acked
  PROVE  [Durable!Next]_<<Events, Promised>>
<1>1. Events' = Events \/ (pc = "write" /\ cur \in Line /\ Events' = Append(Events, cur))
  BY InterruptedLeaves DEF SInv
<1>2. CASE Events' = Events
  BY <1>2, StepRests
<1>3. CASE pc = "write" /\ cur \in Line /\ Events' = Append(Events, cur)
  BY <1>3, PendingIsNew, StepWrites DEF Durable!Next
<1> QED BY <1>1, <1>2, <1>3

LEMMA NextImplements ==
  ASSUME SInv, Safe, SInv', Safe', [Next]_vars
  PROVE  [Durable!Next]_<<Events, Promised>>
<1>1. CASE UNCHANGED vars
  <2>1. Events' = Events /\ acked' = acked
    BY <1>1 DEF vars, Events, N
  <2> QED BY <2>1, StepRests
<1>2. CASE OpenStep
  <2>1. Events' = Events
    BY <1>2, OpenForWriteSafe, ScanSafe, CopyTailSafe, CutTailSafe, RescanSafe DEF OpenStep
  <2>2. acked' = acked
    BY <1>2 DEF OpenStep, OpenForWrite, Scan, CopyTail, CutTail, Rescan
  <2> QED BY <2>1, <2>2, StepRests
<1>3. CASE CreateStep
  <2>1. Events' = Events
    BY <1>3, WriteHeaderSafe, SyncHeaderSafe, SyncDirectorySafe DEF CreateStep
  <2>2. acked' = acked
    BY <1>3 DEF CreateStep, WriteHeader, SyncHeader, SyncDirectory
  <2> QED BY <2>1, <2>2, StepRests
<1>4. CASE \E size \in Sizes : AppendStart(size)
  <2>1. PICK size \in Sizes : AppendStart(size)
    BY <1>4
  <2>2. Events' = Events
    BY <2>1, AppendStartSafe
  <2>3. acked' = acked
    BY <2>1 DEF AppendStart
  <2> QED BY <2>2, <2>3, StepRests
<1>5. CASE WriteLine
  <2>1. pc = "write" /\ acked' = acked
    BY <1>5 DEF WriteLine
  <2>2. cur \notin acked
    BY <2>1, PendingIsNew
  <2> QED BY <1>5, <2>1, <2>2, WriteLineSafe, StepWrites DEF Durable!Next
<1>6. CASE SyncLine
  <2>1. pc = "sync" /\ acked' = acked \cup {cur}
    BY <1>6 DEF SyncLine
  <2>2. Events' = Events
    BY <1>6, SyncLineSafe
  <2> QED BY <2>1, <2>2, StepPromises DEF Durable!Next
<1>7. CASE Close
  <2>1. acked' = acked
    BY <1>7 DEF Close
  <2> QED BY <1>7, <2>1, CloseSafe, StepRests
<1>8. CASE \E seq \in FirstSeq .. FirstSeq + MaxAppends : Fork(seq)
  <2>1. PICK seq \in FirstSeq .. FirstSeq + MaxAppends : Fork(seq)
    BY <1>8
  <2>2. seq \in Int /\ acked' = acked
    BY <2>1, SegmentAssumption DEF Fork
  <2> QED BY <2>1, <2>2, ForkSafe, StepRests
<1>9. CASE ProcessCrash \/ IoError
  <2>1. Interrupted /\ appends' = appends /\ acked' = acked
    BY <1>9 DEF ProcessCrash, IoError
  <2> QED BY <2>1, InterruptedImplements
<1>10. CASE PowerLoss
  BY <1>10, StepLoses DEF Durable!Next
<1> QED BY <1>1, <1>2, <1>3, <1>4, <1>5, <1>6, <1>7, <1>8, <1>9, <1>10 DEF Next, AppendStep, FaultStep

(* The segment files implement the log that append() promises              *)
(* (contracts/store.ts), if power is not lost after other faults.          *)
THEOREM FilesImplementLog == ASSUME PowerApart PROVE Spec => ImplementsDurableLog
<1>1. SInv => Safe
  BY PowerApart, SafeHolds DEF SInv, WInv
<1>2. SInv' => Safe'
  BY <1>1, PTL
<1>3. SInv /\ SInv' /\ [Next]_vars => [Durable!Next]_<<Events, Promised>>
  BY <1>1, <1>2, NextImplements
<1> QED BY <1>3, InitImplements, Invariant, PTL DEF Spec, ImplementsDurableLog, Durable!Spec
=============================================================================
