--------------------------- MODULE FixtureRun_proof ---------------------------
(***************************************************************************)
(* Proofs about FixtureRun, for any scripts, any loads, any concurrency    *)
(* and any number of slow reads and cancellations.                         *)
(***************************************************************************)
EXTENDS FixtureRun, Selection_proof, FiniteSetTheorems, SequenceTheorems, TLAPS

-----------------------------------------------------------------------------
(* The invariant                                                            *)

\* What a request leaves besides its place in the line.
RestOK ==
  /\ status \in [Requests -> {"none", "ok", "error"}] /\ deltas \in [Requests -> Seq(Nat)]
  /\ kind \in [Requests -> Kinds] /\ gone \in SUBSET Requests
  /\ handler \in [Requests -> {"new", "serving", "stalled", "done"}] /\ at \in [Requests -> Nat \ {0}]
  /\ overdue \in SUBSET Requests
  /\ load \in Loads /\ slow \in Nat /\ interrupts \in Nat /\ slow + interrupts \in 0..load.upsets

States == InFlight \cup {"new", "queued", "granted", "ended", "abandoned"}
PlaceOK ==
  /\ phase \in Phases /\ aborting \in BOOLEAN /\ load \in Loads
  /\ ready \in Seq(Requests) /\ waiting \in Seq(Requests) /\ client \in [Requests -> States]

\* Who is doing what in each phase.  Only a run that is aborted abandons a request.
ClientInv ==
  /\ \A r \in Requests \ Planned : client[r] = "new"
  /\ IF phase = "warmup" THEN client[Warmup] \in {"new"} \cup InFlight
                         ELSE client[Warmup] \in {"ended", "abandoned"}
  /\ \A r \in Range(Measured) :
       /\ phase \in {"warmup", "created"} => client[r] = "new"
       /\ phase = "measured" => client[r] # "new"
       /\ phase \notin {"warmup", "created", "measured"} => 
            client[r] \in {"new", "ended", "abandoned"} \cup (IF aborting THEN {"closing"} ELSE {})
       /\ aborting => client[r] \in {"new", "closing", "ended", "abandoned"}
  /\ ~aborting => \A r \in Requests : client[r] # "abandoned"
  /\ phase \in {"warmup", "created"} => ~aborting

\* A permit is free or somebody's, and nobody queues while one is free.
Holding == {"granted"} \cup InFlight
Holders == {r \in Range(Measured) : client[r] \in Holding}
PermitInv ==
  /\ permits \in Nat /\ permits + Cardinality(Holders) = Concurrency
  /\ waiting # <<>> => permits = 0

\* The measured requests in their declared order: first s that have started, then those up
\* to t that were handed a permit, then those that queue.
Line(s, t) ==
  /\ s <= t
  /\ ready = SubSeq(Measured, s + 1, t) /\ waiting = SubSeq(Measured, t + 1, Len(Measured))
  /\ \A i \in 1..Len(Measured) :
       client[Measured[i]] \in IF i <= s THEN InFlight \cup {"ended"}
                               ELSE IF i <= t THEN {"granted"} ELSE {"queued"}

\* What the lifecycle log has of a request.
Lifecycle == [kind : {"CLIENT_REQUEST_STARTED", "CLIENT_REQUEST_ENDED"}, of : Requests]
Mentioned(r) == \E i \in DOMAIN lifecycle : lifecycle[i].of = r
Ended(r) == \E i \in DOMAIN lifecycle : lifecycle[i] = Event("CLIENT_REQUEST_ENDED", r)
LogInv ==
  /\ lifecycle \in Seq(Lifecycle)
  /\ \A r \in Requests :
       /\ client[r] \in {"new", "queued", "granted"} => ~Mentioned(r)
       /\ client[r] \in InFlight => Mentioned(r) /\ ~Ended(r)
       /\ client[r] = "ended" => Ended(r)

\* The starts in the log are those of the first n measured requests, in their order.
Rank(log, i) == Cardinality({j \in StartPositions(log) : j <= i})
StartsAre(log, n) ==
  /\ Cardinality(StartPositions(log)) = n
  /\ \A k \in 1..n :
       /\ \E i \in StartPositions(log) : Rank(log, i) = k
       /\ \A i \in StartPositions(log) : Rank(log, i) = k => log[i].of = Measured[k]
StartedInv ==
  /\ \E n \in 0..Len(Measured) :
       /\ StartsAre(lifecycle, n)
       /\ phase \in {"warmup", "created"} => n = 0
       /\ phase = "measured" /\ ~aborting => \E t \in 0..Len(Measured) : Line(n, t)
  /\ phase \in {"warmup", "created"} \/ aborting => ready = <<>> /\ waiting = <<>>

\* The abstract closed loop, and what it takes for the requests that are running.
Running == ActiveAfter(lifecycle, Len(lifecycle)) \ {Warmup}
LoopStep == [Loop!Next]_(Loop!vars)

PlaceInv == PlaceOK /\ ClientInv /\ PermitInv /\ LogInv /\ StartedInv
IInv == RestOK /\ PlaceInv

-----------------------------------------------------------------------------
(* The measured requests and pieces of them                                 *)

LEMMA LoadFacts ==
  ASSUME load \in Loads
  PROVE  /\ Measured \in Seq(Requests) /\ Len(Measured) \in Nat /\ Len(Measured) >= 1
         /\ \A i \in 1..Len(Measured) : Measured[i] \in Range(Measured)
         /\ \A r \in Range(Measured) : \E i \in 1..Len(Measured) : r = Measured[i]
         /\ \A i, j \in 1..Len(Measured) : Measured[i] = Measured[j] => i = j
         /\ Range(Measured) \subseteq Requests /\ Warmup \notin Range(Measured) /\ Warmup \in Requests
         /\ Planned \subseteq Requests /\ load.upsets \in Nat
<1>1. /\ Measured \in Seq(Range(Measured)) /\ Warmup \notin Range(Measured)
      /\ Measured # <<>> /\ IsInjective(Measured) /\ load.upsets \in Nat
  BY FixtureAssumption DEF FixtureAssumption, Measured
<1>2. Range(Measured) \subseteq Requests /\ Warmup \in Requests
  BY DEF Requests, Measured
<1>3. Measured \in Seq(Requests)
  BY <1>1, <1>2, SeqMonotonic
<1>4. Len(Measured) \in Nat /\ Len(Measured) # 0 /\ DOMAIN Measured = 1..Len(Measured)
  BY <1>1, <1>3, LenProperties, EmptySeq
<1>5. /\ \A i \in 1..Len(Measured) : Measured[i] \in Range(Measured)
      /\ \A r \in Range(Measured) : \E i \in 1..Len(Measured) : r = Measured[i]
  BY <1>4 DEF Range
<1>6. \A i, j \in 1..Len(Measured) : Measured[i] = Measured[j] => i = j
  BY <1>1, <1>4 DEF IsInjective
<1> QED BY <1>1, <1>2, <1>3, <1>4, <1>5, <1>6 DEF Planned

\* Any two lists of the same elements are the same list, so a slice is known by its length and
\* what it has at each place.
LEMMA Slice ==
  ASSUME NEW S, NEW s \in Seq(S), NEW a \in 0..Len(s), NEW b \in a..Len(s)
  PROVE  /\ SubSeq(s, a + 1, b) \in Seq(S) /\ Len(SubSeq(s, a + 1, b)) = b - a
         /\ \A i \in 1..(b - a) : SubSeq(s, a + 1, b)[i] = s[a + i]
<1>1. Len(s) \in Nat /\ a \in Nat /\ b \in Nat /\ a <= b /\ b <= Len(s)
  BY LenProperties
<1>2. \A i \in (a + 1)..b : s[i] \in S
  BY <1>1, ElementOfSeq
<1>3. a + 1 \in Int /\ b \in Int
  BY <1>1
<1>4. /\ SubSeq(s, a + 1, b) \in Seq(S)
      /\ Len(SubSeq(s, a + 1, b)) = IF a + 1 <= b THEN b - (a + 1) + 1 ELSE 0
      /\ \A i \in 1..(b - (a + 1) + 1) : SubSeq(s, a + 1, b)[i] = s[a + 1 + i - 1]
  BY <1>2, <1>3, SubSeqProperties
<1>5. b - (a + 1) + 1 = b - a /\ (IF a + 1 <= b THEN b - (a + 1) + 1 ELSE 0) = b - a
  BY <1>1
<1>6. ASSUME NEW i \in 1..(b - a) PROVE SubSeq(s, a + 1, b)[i] = s[a + i]
  <2>1. i \in 1..(b - (a + 1) + 1) /\ a + 1 + i - 1 = a + i
    BY <1>1, <1>5
  <2>2. SubSeq(s, a + 1, b)[i] = s[a + 1 + i - 1]
    BY <1>4, <2>1
  <2> QED BY <2>1, <2>2
<1>7. Len(SubSeq(s, a + 1, b)) = b - a
  BY <1>4, <1>5
<1> QED BY <1>4, <1>6, <1>7

LEMMA SliceEmpty ==
  ASSUME NEW S, NEW s \in Seq(S), NEW a \in 0..Len(s), NEW b \in a..Len(s)
  PROVE  SubSeq(s, a + 1, b) = <<>> <=> a = b
<1>1. Len(s) \in Nat /\ a \in Nat /\ b \in Nat
  BY LenProperties
<1>2. ASSUME a = b PROVE SubSeq(s, a + 1, b) = <<>>
  BY <1>1, <1>2, SubSeqEmpty
<1>3. ASSUME SubSeq(s, a + 1, b) = <<>> PROVE a = b
  <2>1. Len(SubSeq(s, a + 1, b)) = b - a
    BY Slice
  <2> QED BY <1>1, <1>3, <2>1, EmptySeq
<1> QED BY <1>2, <1>3

LEMMA SliceEnds ==
  ASSUME NEW S, NEW s \in Seq(S), NEW a \in 0..Len(s), NEW b \in a..Len(s), a < b
  PROVE  Head(SubSeq(s, a + 1, b)) = s[a + 1] /\ Tail(SubSeq(s, a + 1, b)) = SubSeq(s, a + 2, b)
<1>1. Len(s) \in Nat /\ a \in Nat /\ b \in Nat
  BY LenProperties
<1>2. a + 1 \in 1..Len(s) /\ b \in (a + 1)..Len(s) /\ (a + 1) + 1 = a + 2
  BY <1>1
<1> QED BY <1>2, HeadTailOfSubSeq

LEMMA SliceGrows ==
  ASSUME NEW S, NEW s \in Seq(S), NEW a \in 0..Len(s), NEW b \in a..Len(s), b < Len(s)
  PROVE  Append(SubSeq(s, a + 1, b), s[b + 1]) = SubSeq(s, a + 1, b + 1)
<1>1. Len(s) \in Nat /\ a \in Nat /\ b \in Nat
  BY LenProperties
<1>2. a + 1 \in 1..Len(s) /\ b + 1 \in (a + 1)..Len(s) /\ (b + 1) - 1 = b /\ b + 1 \in 1..Len(s)
  BY <1>1
<1>3. SubSeq(s, a + 1, b + 1) = SubSeq(s, a + 1, b) \o <<s[b + 1]>>
  BY <1>2, SubSeqRecursiveSecond
<1>4. s[b + 1] \in S /\ SubSeq(s, a + 1, b) \in Seq(S)
  BY <1>2, ElementOfSeq, Slice
<1> QED BY <1>3, <1>4, AppendIsConcat

\* The first n measured requests are n.
LEMMA FirstOnes ==
  ASSUME load \in Loads, NEW n \in 0..Len(Measured)
  PROVE  /\ IsFiniteSet({Measured[i] : i \in 1..n}) /\ Cardinality({Measured[i] : i \in 1..n}) = n
         /\ Range(SubSeq(Measured, 1, n)) = {Measured[i] : i \in 1..n}
<1> DEFINE T == {Measured[i] : i \in 1..n}
           f == [i \in 1..n |-> Measured[i]]
<1>1. Measured \in Seq(Requests) /\ Len(Measured) \in Nat /\ n \in Nat /\ n <= Len(Measured)
      /\ \A i, j \in 1..n : Measured[i] = Measured[j] => i = j
  BY LoadFacts
<1>2. f \in Surjection(1..n, T) /\ f \in Injection(1..n, T)
  <2>1. f \in [1..n -> T] /\ \A t \in T : \E i \in 1..n : f[i] = t
    OBVIOUS
  <2>2. \A i, j \in 1..n : f[i] = f[j] => i = j
    BY <1>1
  <2> HIDE DEF f, T
  <2>3. f \in Surjection(1..n, T)
    BY <2>1 DEF Surjection
  <2>4. f \in Injection(1..n, T)
    BY <2>1, <2>2 DEF Injection, IsInjective
  <2> QED BY <2>3, <2>4
<1>3. IsFiniteSet(1..n) /\ Cardinality(1..n) = n
  BY <1>1, FS_Interval
<1>4. IsFiniteSet(T) /\ Cardinality(T) = n
  <2> HIDE DEF f, T
  <2> QED BY <1>2, <1>3, FS_Surjection
<1>5. Range(SubSeq(Measured, 1, n)) = T
  <2>1. /\ SubSeq(Measured, 0 + 1, n) \in Seq(Requests) /\ Len(SubSeq(Measured, 0 + 1, n)) = n - 0
        /\ \A i \in 1..(n - 0) : SubSeq(Measured, 0 + 1, n)[i] = Measured[0 + i]
    <3>1. 0 \in 0..Len(Measured) /\ n \in 0..Len(Measured)
      BY <1>1
    <3> QED BY <1>1, <3>1, Slice
  <2>2. /\ DOMAIN SubSeq(Measured, 1, n) = 1..n
        /\ \A i \in 1..n : SubSeq(Measured, 1, n)[i] = Measured[i]
    BY <1>1, <2>1, LenProperties
  <2> QED BY <2>2 DEF Range
<1> QED BY <1>4, <1>5

LEMMA MeasuredFinite ==
  ASSUME load \in Loads
  PROVE  IsFiniteSet(Range(Measured)) /\ \A S \in SUBSET Range(Measured) : IsFiniteSet(S) /\ Cardinality(S) \in Nat
<1>1. Range(Measured) = {Measured[i] : i \in 1..Len(Measured)} /\ Len(Measured) \in 0..Len(Measured)
  BY LoadFacts
<1>2. IsFiniteSet(Range(Measured))
  BY <1>1, FirstOnes
<1> QED BY <1>2, FS_Subset, FS_CardinalityType

-----------------------------------------------------------------------------
(* The starts in the log                                                    *)

LEMMA SeqIntro ==
  ASSUME NEW S, NEW n \in Nat, NEW f \in [1..n -> S]
  PROVE  f \in Seq(S) /\ Len(f) = n
<1>1. f \in UNION {[1..m -> S] : m \in Nat}
  OBVIOUS
<1>2. f \in Seq(S)
  BY <1>1, SeqDef
<1>3. Len(f) \in Nat /\ DOMAIN f = 1..Len(f) /\ DOMAIN f = 1..n
  BY <1>2, LenProperties
<1> QED BY <1>2, <1>3

LEMMA Positions ==
  ASSUME NEW log \in Seq(Lifecycle)
  PROVE  /\ StartPositions(log) \subseteq 1..Len(log) /\ Len(log) \in Nat /\ DOMAIN log = 1..Len(log)
         /\ IsFiniteSet(StartPositions(log)) /\ Cardinality(StartPositions(log)) \in Nat
         /\ \A i : Rank(log, i) \in Nat /\ Rank(log, i) <= Cardinality(StartPositions(log))
<1>1. Len(log) \in Nat /\ DOMAIN log = 1..Len(log)
  BY LenProperties
<1>2. StartPositions(log) \subseteq 1..Len(log)
  BY <1>1 DEF StartPositions
<1>3. IsFiniteSet(1..Len(log))
  BY <1>1, FS_Interval
<1>4. IsFiniteSet(StartPositions(log))
  BY <1>2, <1>3, FS_Subset
<1>5. \A i : Rank(log, i) \in Nat /\ Rank(log, i) <= Cardinality(StartPositions(log))
  <2> TAKE i
  <2>1. {j \in StartPositions(log) : j <= i} \in SUBSET StartPositions(log)
    OBVIOUS
  <2> QED BY <1>4, <2>1, FS_Subset, FS_CardinalityType DEF Rank
<1> QED BY <1>1, <1>2, <1>4, <1>5, FS_CardinalityType

\* A longer log has the same events at the same places.
LEMMA LongerLog ==
  ASSUME NEW log \in Seq(Lifecycle), NEW new \in Seq(Lifecycle)
  PROVE  /\ log \o new \in Seq(Lifecycle) /\ DOMAIN (log \o new) = 1..(Len(log) + Len(new))
         /\ Len(log) \in Nat /\ Len(new) \in Nat
         /\ \A i \in 1..Len(log) : i \in DOMAIN (log \o new) /\ (log \o new)[i] = log[i]
         /\ \A j \in 1..Len(new) : Len(log) + j \in DOMAIN (log \o new) /\ (log \o new)[Len(log) + j] = new[j]
         /\ \A i \in DOMAIN (log \o new) :
              i \in 1..Len(log) \/ \E j \in 1..Len(new) : i = Len(log) + j
<1>1. /\ log \o new \in Seq(Lifecycle) /\ Len(log \o new) = Len(log) + Len(new)
      /\ \A i \in 1..(Len(log) + Len(new)) : (log \o new)[i] = IF i <= Len(log) THEN log[i] ELSE new[i - Len(log)]
  BY ConcatProperties
<1>2. Len(log) \in Nat /\ Len(new) \in Nat /\ DOMAIN (log \o new) = 1..(Len(log) + Len(new))
  BY <1>1, LenProperties
<1>3. \A i \in 1..Len(log) : i \in DOMAIN (log \o new) /\ (log \o new)[i] = log[i]
  BY <1>1, <1>2
<1>4. \A j \in 1..Len(new) : Len(log) + j \in DOMAIN (log \o new) /\ (log \o new)[Len(log) + j] = new[j]
  <2> TAKE j \in 1..Len(new)
  <2>1. Len(log) + j \in 1..(Len(log) + Len(new)) /\ ~(Len(log) + j <= Len(log)) /\ (Len(log) + j) - Len(log) = j
    BY <1>2
  <2> QED BY <1>1, <1>2, <2>1
<1>5. ASSUME NEW i \in DOMAIN (log \o new), i \notin 1..Len(log)
      PROVE  \E j \in 1..Len(new) : i = Len(log) + j
  <2>1. i - Len(log) \in 1..Len(new) /\ i = Len(log) + (i - Len(log))
    BY <1>2, <1>5
  <2> QED BY <2>1
<1> QED BY <1>1, <1>2, <1>3, <1>4, <1>5

\* The events of others change nothing.
LEMMA OthersLogged ==
  ASSUME load \in Loads, NEW log \in Seq(Lifecycle), NEW new \in Seq(Lifecycle), NEW n,
         \A j \in 1..Len(new) : new[j].kind = "CLIENT_REQUEST_ENDED" \/ new[j].of = Warmup,
         StartsAre(log, n)
  PROVE  StartsAre(log \o new, n)
<1> DEFINE longer == log \o new
           L == Len(log)
           m == Len(new)
<1>1. /\ DOMAIN longer = 1..(L + m) /\ DOMAIN log = 1..L
      /\ \A i \in 1..L : i \in DOMAIN longer /\ longer[i] = log[i]
      /\ \A j \in 1..m : L + j \in DOMAIN longer /\ longer[L + j] = new[j]
      /\ \A i \in DOMAIN longer : i \in 1..L \/ \E j \in 1..m : i = L + j
  BY LongerLog, Positions
<1> HIDE DEF longer, L
<1>2. StartPositions(longer) = StartPositions(log)
  <2>1. \A i \in 1..L : i \in StartPositions(longer) <=> i \in StartPositions(log)
    BY <1>1 DEF StartPositions
  <2>2. \A j \in 1..m : ~(longer[L + j].kind = "CLIENT_REQUEST_STARTED" /\ longer[L + j].of # Warmup)
    BY <1>1
  <2>3. \A i \in StartPositions(longer) : i \in 1..L
    BY <1>1, <2>2 DEF StartPositions
  <2>4. \A i \in StartPositions(log) : i \in 1..L
    BY <1>1 DEF StartPositions
  <2> QED BY <2>1, <2>3, <2>4
<1>3. \A i : Rank(longer, i) = Rank(log, i)
  BY <1>2 DEF Rank
<1>4. \A i \in StartPositions(log) : longer[i] = log[i]
  BY <1>1 DEF StartPositions
<1>5. StartsAre(longer, n)
  BY <1>2, <1>3, <1>4 DEF StartsAre
<1> QED BY <1>5 DEF longer

\* The next starts add to the list.
LEMMA StartsLogged ==
  ASSUME load \in Loads, NEW log \in Seq(Lifecycle), NEW new \in Seq(Lifecycle), NEW n \in Nat,
         \A j \in 1..Len(new) : new[j].kind = "CLIENT_REQUEST_STARTED" /\ new[j].of # Warmup
                                /\ new[j].of = Measured[n + j],
         StartsAre(log, n)
  PROVE  StartsAre(log \o new, n + Len(new))
<1> DEFINE longer == log \o new
           L == Len(log)
           m == Len(new)
           old == StartPositions(log)
           all == StartPositions(longer)
<1>1. /\ DOMAIN longer = 1..(L + m) /\ DOMAIN log = 1..L /\ L \in Nat /\ m \in Nat
      /\ \A i \in 1..L : i \in DOMAIN longer /\ longer[i] = log[i]
      /\ \A j \in 1..m : L + j \in DOMAIN longer /\ longer[L + j] = new[j]
      /\ \A i \in DOMAIN longer : i \in 1..L \/ \E j \in 1..m : i = L + j
  BY LongerLog, Positions
<1>2. old \subseteq 1..L /\ IsFiniteSet(old) /\ Cardinality(old) = n
  BY Positions DEF StartsAre
<1> HIDE DEF longer, L, m
<1>3. all = old \cup ((L + 1)..(L + m))
  <2>1. \A i \in 1..L : i \in all <=> i \in old
    BY <1>1 DEF StartPositions
  <2>2. \A j \in 1..m : L + j \in all
    BY <1>1 DEF StartPositions, m
  <2>3. \A i \in all : i \in 1..L \/ \E j \in 1..m : i = L + j
    BY <1>1 DEF StartPositions
  <2>4. \A i \in (L + 1)..(L + m) : i - L \in 1..m /\ i = L + (i - L)
    BY <1>1
  <2>5. \A j \in 1..m : L + j \in (L + 1)..(L + m)
    BY <1>1
  <2> QED BY <1>2, <2>1, <2>2, <2>3, <2>4, <2>5
<1> HIDE DEF old, all
<1>4. \A k \in 0..m : /\ Cardinality(old \cup ((L + 1)..(L + k))) = n + k
                      /\ IsFiniteSet(old \cup ((L + 1)..(L + k)))
  <2> TAKE k \in 0..m
  <2>1. IsFiniteSet((L + 1)..(L + k)) /\ Cardinality((L + 1)..(L + k)) = k
    <3>1. L + 1 \in Int /\ L + k \in Int /\ k \in Nat
      BY <1>1
    <3>2. /\ IsFiniteSet((L + 1)..(L + k))
          /\ Cardinality((L + 1)..(L + k)) = IF L + 1 > L + k THEN 0 ELSE (L + k) - (L + 1) + 1
      BY <3>1, FS_Interval
    <3> QED BY <1>1, <3>1, <3>2
  <2>2. old \cap ((L + 1)..(L + k)) = {}
    BY <1>1, <1>2
  <2>3. Cardinality(old \cap ((L + 1)..(L + k))) = 0
    BY <2>2, FS_EmptySet
  <2> DEFINE more == (L + 1)..(L + k)
  <2>4. /\ IsFiniteSet(old \cup more)
        /\ Cardinality(old \cup more) = n + k - 0
    <3>1. IsFiniteSet(more) /\ Cardinality(more) = k /\ Cardinality(old \cap more) = 0
      BY <2>1, <2>3
    <3> HIDE DEF more
    <3> QED BY <1>2, <3>1, FS_Union
  <2> QED BY <1>1, <2>4
<1>5. Cardinality(all) = n + m
  <2>1. m \in 0..m
    BY <1>1
  <2>2. Cardinality(old \cup ((L + 1)..(L + m))) = n + m
    BY <1>4, <2>1
  <2> QED BY <1>3, <2>2
<1>6. \A i \in old : Rank(longer, i) = Rank(log, i) /\ Rank(longer, i) \in Nat /\ Rank(longer, i) <= n
  <2> TAKE i \in old
  <2>1. i \in 1..L
    BY <1>2
  <2>2. {j \in all : j <= i} = {j \in old : j <= i}
    BY <1>1, <1>2, <1>3, <2>1
  <2>3. Rank(longer, i) = Rank(log, i)
    BY <2>2 DEF Rank, all, old
  <2>4. Rank(log, i) \in Nat /\ Rank(log, i) <= n
    BY <1>2, Positions DEF old
  <2> QED BY <2>3, <2>4
<1>7. \A j \in 1..m : Rank(longer, L + j) = n + j
  <2> TAKE j \in 1..m
  <2>1. {i \in all : i <= L + j} = old \cup ((L + 1)..(L + j))
    <3>1. \A i \in old : i <= L + j
      BY <1>1, <1>2
    <3>2. \A i \in (L + 1)..(L + m) : i <= L + j <=> i \in (L + 1)..(L + j)
      BY <1>1
    <3>3. \A i \in (L + 1)..(L + j) : i \in (L + 1)..(L + m)
      BY <1>1
    <3> QED BY <1>3, <3>1, <3>2, <3>3
  <2>2. j \in 0..m
    BY <1>1
  <2> QED BY <1>4, <2>1, <2>2 DEF Rank, all
<1>8. ASSUME NEW k \in 1..(n + m)
      PROVE  /\ \E i \in all : Rank(longer, i) = k
             /\ \A i \in all : Rank(longer, i) = k => longer[i].of = Measured[k]
  <2>1. CASE k <= n
    <3>1. PICK i \in old : Rank(log, i) = k
      BY <1>8, <2>1 DEF StartsAre, old
    <3>2. Rank(longer, i) = k /\ i \in all
      BY <1>3, <1>6, <3>1
    <3>3. \A h \in all : Rank(longer, h) = k => h \in old
      <4> TAKE h \in all
      <4>1. CASE h \in (L + 1)..(L + m)
        <5>1. h - L \in 1..m /\ h = L + (h - L)
          BY <1>1, <4>1
        <5>2. Rank(longer, h) = n + (h - L)
          BY <1>7, <5>1
        <5> QED BY <1>1, <2>1, <5>1, <5>2
      <4> QED BY <1>3, <4>1
    <3>4. \A h \in old : Rank(longer, h) = k => longer[h].of = Measured[k]
      <4> TAKE h \in old
      <4> HAVE Rank(longer, h) = k
      <4>1. Rank(log, h) = k /\ k \in 1..n
        BY <1>6, <1>8, <2>1
      <4>2. log[h].of = Measured[k] /\ longer[h] = log[h]
        BY <1>1, <1>2, <4>1 DEF StartsAre, old
      <4> QED BY <4>2
    <3> QED BY <3>2, <3>3, <3>4
  <2>2. CASE k > n
    <3> DEFINE j == k - n
    <3>1. j \in 1..m /\ k = n + j /\ L + j \in (L + 1)..(L + m)
      BY <1>1, <1>8, <2>2
    <3>2. Rank(longer, L + j) = k /\ L + j \in all /\ longer[L + j].of = Measured[k]
      BY <1>1, <1>3, <1>7, <3>1 DEF m
    <3>3. \A h \in all : Rank(longer, h) = k => h = L + j
      <4> TAKE h \in all
      <4> HAVE Rank(longer, h) = k
      <4>1. h \notin old
        BY <1>6, <2>2, <1>8
      <4>2. h - L \in 1..m /\ h = L + (h - L)
        BY <1>1, <1>3, <4>1
      <4>3. n + (h - L) = k
        BY <1>7, <4>2
      <4> QED BY <1>1, <4>2, <4>3
    <3> QED BY <3>2, <3>3
  <2> QED BY <1>1, <1>8, <2>1, <2>2
<1> QED BY <1>5, <1>8 DEF StartsAre, all, longer, m

\* The list itself.
LEMMA StartedIs ==
  ASSUME load \in Loads, NEW log \in Seq(Lifecycle), NEW n \in 0..Len(Measured), StartsAre(log, n)
  PROVE  StartedOf(log) = SubSeq(Measured, 1, n)
<1> DEFINE starts == StartPositions(log)
           nth(k) == CHOOSE i \in starts : Cardinality({j \in starts : j <= i}) = k
           f == [k \in 1..n |-> Measured[k]]
<1>1. Measured \in Seq(Requests) /\ Len(Measured) \in Nat /\ n \in Nat /\ n <= Len(Measured)
  BY LoadFacts
<1>2. \A k \in 1..n : log[nth(k)].of = Measured[k]
  <2> TAKE k \in 1..n
  <2>1. \E i \in starts : Cardinality({j \in starts : j <= i}) = k
    BY DEF StartsAre, Rank
  <2>2. nth(k) \in starts /\ Cardinality({j \in starts : j <= nth(k)}) = k
    BY <2>1
  <2> HIDE DEF nth
  <2> QED BY <2>2 DEF StartsAre, Rank
<1>3. StartedOf(log) = f
  <2>1. StartedOf(log) = [k \in 1..Cardinality(starts) |-> log[nth(k)].of]
    BY DEF StartedOf
  <2>2. Cardinality(starts) = n
    BY DEF StartsAre
  <2> HIDE DEF nth, starts
  <2> QED BY <1>2, <2>1, <2>2
<1>4. f \in Seq(Requests) /\ Len(f) = n
  <2>1. f \in [1..n -> Requests]
    BY <1>1, ElementOfSeq
  <2> QED BY <1>1, <2>1, SeqIntro
<1>5. /\ SubSeq(Measured, 0 + 1, n) \in Seq(Requests) /\ Len(SubSeq(Measured, 0 + 1, n)) = n - 0
      /\ \A i \in 1..(n - 0) : SubSeq(Measured, 0 + 1, n)[i] = Measured[0 + i]
  <2>1. 0 \in 0..Len(Measured) /\ n \in 0..Len(Measured)
    BY <1>1
  <2> QED BY <1>1, <2>1, Slice
<1>6. f = SubSeq(Measured, 1, n)
  <2>1. \A i \in 1..n : f[i] = SubSeq(Measured, 1, n)[i]
    BY <1>1, <1>5
  <2>2. SubSeq(Measured, 1, n) \in Seq(Requests) /\ Len(SubSeq(Measured, 1, n)) = n
    BY <1>1, <1>5
  <2> HIDE DEF f
  <2> QED BY <1>4, <2>1, <2>2, SeqEqual
<1> QED BY <1>3, <1>6

-----------------------------------------------------------------------------
(* What a request leaves besides its place in the line                      *)

LEMMA Codecs ==
  /\ \A f : Tokens(f) \in Nat
  /\ \A seen, f : FrameFailure(seen, f) \in Kinds
  /\ \A seen, d, n : KindAtEof(seen, d, n) \in Kinds
  /\ "NONE" \in Kinds /\ "HTTP_STATUS" \in Kinds /\ "TRANSPORT" \in Kinds /\ "TIMEOUT" \in Kinds
  /\ "CANCELLED" \in Kinds
<1>1. \A f : Tokens(f) \in Nat
  BY DEF Tokens
<1>2. \A seen, f : FrameFailure(seen, f) \in Kinds
  BY DEF FrameFailure, Kinds
<1>3. \A seen, d, n : KindAtEof(seen, d, n) \in Kinds
  BY DEF KindAtEof, Kinds
<1> QED BY <1>1, <1>2, <1>3 DEF Kinds

LEMMA ChunkRest ==
  ASSUME RestOK, NEW r \in Requests, ReadChunk(r)
  PROVE  RestOK'
<1>1. PICK f \in Frames \cup {"text"} :
        \/ UNCHANGED <<kind, deltas>>
        \/ Decide(r, FrameFailure(Raw(evidence[r]), f)) /\ UNCHANGED deltas
        \/ deltas' = [deltas EXCEPT ![r] = IF f \in Data THEN Append(@, Tokens(f)) ELSE @] /\ UNCHANGED kind
  BY DEF ReadChunk
<1>2. UNCHANGED <<status, gone, overdue, handler, at, load, slow, interrupts>>
  BY DEF ReadChunk, KeepAround, serverVars
<1>3. kind' \in [Requests -> Kinds]
  <2> DEFINE k == FrameFailure(Raw(evidence[r]), f)
  <2>1. kind' = kind \/ kind' = [kind EXCEPT ![r] = k]
    BY <1>1 DEF Decide
  <2>2. k \in Kinds /\ kind \in [Requests -> Kinds]
    BY Codecs DEF RestOK
  <2> HIDE DEF k
  <2> QED BY <2>1, <2>2
<1>4. deltas' \in [Requests -> Seq(Nat)]
  <2>1. deltas[r] \in Seq(Nat) /\ Tokens(f) \in Nat
    BY Codecs DEF RestOK
  <2>2. Append(deltas[r], Tokens(f)) \in Seq(Nat)
    BY <2>1, AppendProperties
  <2>3. (IF f \in Data THEN Append(deltas[r], Tokens(f)) ELSE deltas[r]) \in Seq(Nat)
    BY <2>1, <2>2
  <2>4. CASE UNCHANGED deltas
    BY <2>4 DEF RestOK
  <2>5. CASE deltas' = [deltas EXCEPT ![r] = IF f \in Data THEN Append(@, Tokens(f)) ELSE @]
    BY <2>3, <2>5 DEF RestOK
  <2> QED BY <1>1, <2>4, <2>5
<1> QED BY <1>2, <1>3, <1>4 DEF RestOK

LEMMA ClientRest ==
  ASSUME RestOK, NEW r \in Requests, Client(r) \/ Timeout(r)
  PROVE  RestOK'
<1>1. CASE ReadHead(r)
  <2>1. UNCHANGED <<deltas, kind, gone, overdue, handler, at, load, slow, interrupts>>
    BY <1>1 DEF ReadHead, KeepAround, serverVars
  <2>2. \E s \in {"ok", "error"} : status' = [status EXCEPT ![r] = s]
    BY <1>1 DEF ReadHead
  <2> QED BY <2>1, <2>2 DEF RestOK
<1>2. CASE ReadChunk(r)
  BY <1>2, ChunkRest
<1>3. CASE ReadEof(r)
  <2>1. UNCHANGED <<status, deltas, gone, overdue, handler, at, load, slow, interrupts>>
    BY <1>3 DEF ReadEof, KeepAround, serverVars
  <2>2. \E k \in Kinds : kind' = [kind EXCEPT ![r] = k]
    BY <1>3, Codecs DEF ReadEof
  <2> QED BY <2>1, <2>2 DEF RestOK
<1>4. CASE ReadReset(r)
  <2>1. UNCHANGED <<status, deltas, gone, overdue, handler, at, load, slow, interrupts>>
    BY <1>4 DEF ReadReset, KeepAround, serverVars
  <2>2. \E k \in Kinds : kind' = [kind EXCEPT ![r] = k]
    BY <1>4, Codecs DEF ReadReset, Decide
  <2> QED BY <2>1, <2>2 DEF RestOK
<1>5. CASE Close(r)
  <2>1. UNCHANGED <<status, deltas, kind, handler, at, load, slow, interrupts>> /\ gone' = gone \cup {r}
        /\ (overdue' = overdue \/ overdue' = overdue \cup {r})
    BY <1>5 DEF Close, serverVars
  <2> QED BY <2>1 DEF RestOK
<1>6. CASE Timeout(r)
  <2>1. UNCHANGED <<status, deltas, gone, overdue, handler, at, load, interrupts>>
    BY <1>6 DEF Timeout, KeepAround, serverVars
  <2>2. \E k \in Kinds : kind' = [kind EXCEPT ![r] = k]
    BY <1>6, Codecs DEF Timeout, Decide
  <2>3. slow' = slow \/ (slow + interrupts < load.upsets /\ slow' = slow + 1)
    BY <1>6 DEF Timeout
  <2>4. load \in Loads /\ load.upsets \in Nat
    BY LoadFacts DEF RestOK
  <2>5. slow' \in Nat /\ slow' + interrupts \in 0..load.upsets
    BY <2>3, <2>4 DEF RestOK
  <2> QED BY <2>1, <2>2, <2>5 DEF RestOK
<1> QED BY <1>1, <1>2, <1>3, <1>4, <1>5, <1>6 DEF Client

LEMMA ServerRest ==
  ASSUME RestOK, NEW r \in Requests, Server(r)
  PROVE  RestOK'
<1>1. UNCHANGED <<status, deltas, kind, gone, overdue, load, slow, interrupts>>
  BY DEF Server, Accept, Act, StallEnds, Disconnected, CancelHandler, KeepClient, KeepRun, clientVars
<1>2. handler' = handler \/ \E h \in {"serving", "stalled", "done"} : handler' = [handler EXCEPT ![r] = h]
  BY DEF Server, Accept, Act, StallEnds, Disconnected, CancelHandler, Finish
<1>3. at' = at \/ at' = [at EXCEPT ![r] = @ + 1]
  BY DEF Server, Accept, Act, StallEnds, Disconnected, CancelHandler
<1>4. handler' \in [Requests -> {"new", "serving", "stalled", "done"}]
  BY <1>2 DEF RestOK
<1>5. at' \in [Requests -> Nat \ {0}]
  <2>1. at[r] + 1 \in Nat \ {0} /\ at \in [Requests -> Nat \ {0}]
    BY DEF RestOK
  <2> QED BY <1>3, <2>1
<1> QED BY <1>1, <1>4, <1>5 DEF RestOK

LEMMA RunnerRest ==
  ASSUME RestOK, Runner \/ Interrupt \/ UNCHANGED vars
  PROVE  RestOK'
<1>1. CASE Runner \/ UNCHANGED vars
  <2>1. UNCHANGED <<status, deltas, kind, gone, overdue, handler, at, load, slow, interrupts>>
    BY <1>1 DEF Runner, StartWarmup, StartTasks, Resume, Gathered, Stopped, KeepIdle, KeepRun, clientVars,
                serverVars, vars
  <2> QED BY <2>1 DEF RestOK
<1>2. CASE Interrupt
  <2>1. UNCHANGED <<status, deltas, overdue, handler, at, load, slow>>
        /\ slow + interrupts < load.upsets /\ interrupts' = interrupts + 1
    BY <1>2 DEF Interrupt, serverVars
  <2>2. load \in Loads /\ load.upsets \in Nat /\ Range(Measured) \subseteq Requests /\ Warmup \in Requests
    BY LoadFacts DEF RestOK
  <2>3. kind' \in [Requests -> Kinds]
    <3>1. \E S : kind' = [r \in Requests |-> IF r \in S THEN "CANCELLED" ELSE kind[r]]
      BY <1>2 DEF Interrupt
    <3> QED BY <3>1, Codecs DEF RestOK
  <2>4. gone' \in SUBSET Requests
    <3> DEFINE awaited == CASE phase = "warmup" -> {Warmup} [] phase = "measured" -> Range(Measured) [] OTHER -> {}
               lost == {r \in awaited : client[r] \in {"new", "queued", "granted", "closing"}}
    <3>1. gone' = gone \cup {r \in lost : client[r] = "closing"}
      BY <1>2 DEF Interrupt
    <3>2. awaited \subseteq Requests
      BY <2>2
    <3> QED BY <3>1, <3>2 DEF RestOK
  <2>5. interrupts' \in Nat /\ slow + interrupts' \in 0..load.upsets
    BY <2>1, <2>2 DEF RestOK
  <2> QED BY <2>1, <2>3, <2>4, <2>5 DEF RestOK
<1> QED BY <1>1, <1>2

LEMMA StepRest ==
  ASSUME RestOK, [Next]_vars PROVE RestOK'
BY ClientRest, ServerRest, RunnerRest DEF Next

-----------------------------------------------------------------------------
(* Steps that leave everybody in his place                                  *)

LEMMA SameLoad ==
  ASSUME load' = load
  PROVE  /\ Measured' = Measured /\ Planned' = Planned
         /\ \A n : StartsAre(lifecycle, n)' <=> StartsAre(lifecycle', n)
BY DEF Measured, Planned, StartsAre, Rank, StartPositions

LEMMA NothingMoves ==
  ASSUME PlaceInv, UNCHANGED <<phase, aborting, taskVars, client, lifecycle, load>>
  PROVE  PlaceInv'
<1>1. Measured' = Measured /\ Planned' = Planned
  BY SameLoad
<1>2. PlaceOK' /\ ClientInv'
  BY <1>1 DEF PlaceInv, PlaceOK, ClientInv, taskVars
<1>3. PermitInv'
  BY <1>1 DEF PlaceInv, PermitInv, Holders, taskVars
<1>4. LogInv'
  BY DEF PlaceInv, LogInv, Mentioned, Ended
<1>5. StartedInv'
  BY <1>1, SameLoad DEF PlaceInv, StartedInv, Line, taskVars
<1> QED BY <1>2, <1>3, <1>4, <1>5 DEF PlaceInv

\* A request in flight goes on.
GoesOn(r) ==
  /\ client[r] \in InFlight \ {"closing"}
  /\ \E c \in InFlight : client' = [client EXCEPT ![r] = c]
  /\ UNCHANGED <<phase, aborting, taskVars, lifecycle, load>>

LEMMA GoingOn ==
  ASSUME PlaceInv, NEW r \in Requests, GoesOn(r)
  PROVE  PlaceInv'
<1>1. Measured' = Measured /\ Planned' = Planned
  BY SameLoad DEF GoesOn
<1>2. /\ client'[r] \in InFlight /\ client[r] \in InFlight /\ client' \in [Requests -> States]
      /\ \A c \in Requests \ {r} : client'[c] = client[c]
  BY DEF GoesOn, PlaceInv, PlaceOK, States
<1>3. UNCHANGED <<phase, aborting, ready, waiting, permits, lifecycle, load>>
  BY DEF GoesOn, taskVars
<1>4. PlaceOK'
  BY <1>2, <1>3 DEF PlaceInv, PlaceOK
<1>5. Range(Measured) \subseteq Requests /\ Warmup \in Requests
      /\ \A i \in 1..Len(Measured) : Measured[i] \in Requests
  BY LoadFacts DEF PlaceInv, PlaceOK
<1>6. ClientInv'
  <2>1. client[r] \in {"sending", "reading", "draining"} /\ client'[r] \in {"sending", "reading", "draining", "closing"}
    BY <1>2 DEF GoesOn, InFlight
  <2>2. r \in Planned
    BY <2>1 DEF PlaceInv, ClientInv
  <2>3. CASE r = Warmup
    <3>1. phase = "warmup" /\ \A c \in Range(Measured) : c # r
      BY <1>5, <2>1, <2>3, LoadFacts DEF PlaceInv, PlaceOK, ClientInv
    <3> QED BY <1>1, <1>2, <1>3, <1>5, <2>1, <2>2, <2>3, <3>1 DEF PlaceInv, ClientInv, InFlight
  <2>4. CASE r # Warmup
    <3>1. r \in Range(Measured) /\ phase = "measured" /\ ~aborting
      <4>1. r \in Range(Measured)
        BY <2>2, <2>4 DEF Planned
      <4> QED BY <2>1, <4>1 DEF PlaceInv, PlaceOK, ClientInv
    <3> QED BY <1>1, <1>2, <1>3, <1>5, <2>1, <2>2, <2>4, <3>1 DEF PlaceInv, ClientInv
  <2> QED BY <2>3, <2>4
<1>7. Holders' = Holders
  BY <1>1, <1>2, <1>5 DEF Holders, Holding
<1>8. PermitInv'
  BY <1>3, <1>7 DEF PlaceInv, PermitInv
<1>9. LogInv'
  BY <1>2, <1>3 DEF PlaceInv, LogInv, Mentioned, Ended, InFlight
<1>10. \A s, t \in 0..Len(Measured) : Line(s, t) => Line(s, t)'
  <2> TAKE s, t \in 0..Len(Measured)
  <2> HAVE Line(s, t)
  <2>1. \A i \in 1..Len(Measured) :
          client'[Measured[i]] \in IF i <= s THEN InFlight \cup {"ended"} ELSE IF i <= t THEN {"granted"} ELSE {"queued"}
    <3> TAKE i \in 1..Len(Measured)
    <3>1. client[Measured[i]] \in IF i <= s THEN InFlight \cup {"ended"} ELSE IF i <= t THEN {"granted"} ELSE {"queued"}
      BY DEF Line
    <3>2. CASE Measured[i] = r
      BY <1>2, <3>1, <3>2 DEF InFlight
    <3>3. CASE Measured[i] # r
      BY <1>2, <1>5, <3>1, <3>3
    <3> QED BY <3>2, <3>3
  <2> QED BY <1>1, <1>3, <2>1 DEF Line
<1>11. StartedInv'
  BY <1>1, <1>3, <1>10, SameLoad DEF PlaceInv, StartedInv
<1> QED BY <1>4, <1>6, <1>8, <1>9, <1>11 DEF PlaceInv

LEMMA ReadersGoOn ==
  ASSUME PlaceInv, NEW r \in Requests,
         ReadHead(r) \/ ReadChunk(r) \/ ReadEof(r) \/ ReadReset(r) \/ Timeout(r)
  PROVE  GoesOn(r)
<1> USE DEF GoesOn, InFlight
<1>1. CASE ReadHead(r)
  BY <1>1 DEF ReadHead, KeepAround
<1>2. CASE ReadChunk(r)
  <2>1. client[r] = "reading" /\ client \in [Requests -> States]
    BY <1>2 DEF ReadChunk, PlaceInv, PlaceOK
  <2>2. client' = client \/ client' = [client EXCEPT ![r] = "closing"]
    BY <1>2 DEF ReadChunk, Decide
  <2>3. client = [client EXCEPT ![r] = "reading"]
    BY <2>1
  <2>4. UNCHANGED <<phase, aborting, taskVars, lifecycle, load>>
    BY <1>2 DEF ReadChunk, KeepAround
  <2> QED BY <2>1, <2>2, <2>3, <2>4
<1>3. CASE ReadEof(r)
  BY <1>3 DEF ReadEof, KeepAround
<1>4. CASE ReadReset(r)
  BY <1>4 DEF ReadReset, KeepAround, Decide
<1>5. CASE Timeout(r)
  BY <1>5 DEF Timeout, KeepAround, Decide
<1> QED BY <1>1, <1>2, <1>3, <1>4, <1>5

LEMMA ServerMovesNobody ==
  ASSUME NEW r \in Requests, Server(r)
  PROVE  UNCHANGED <<phase, aborting, taskVars, client, lifecycle, load>>
BY DEF Server, Accept, Act, StallEnds, Disconnected, CancelHandler, KeepClient, KeepRun, clientVars, logVars

-----------------------------------------------------------------------------
(* Steps that log a start or an end                                         *)

LEMMA EventIs ==
  ASSUME NEW k, NEW o
  PROVE  /\ Event(k, o).kind = k /\ Event(k, o).of = o
         /\ \A l, p : Event(k, o) = Event(l, p) <=> k = l /\ o = p
BY DEF Event

LEMMA Logged ==
  ASSUME lifecycle \in Seq(Lifecycle), load \in Loads, load' = load,
         NEW k \in {"CLIENT_REQUEST_STARTED", "CLIENT_REQUEST_ENDED"}, NEW rs \in Seq(Requests),
         LogLifecycle(k, rs)
  PROVE  /\ lifecycle' \in Seq(Lifecycle)
         /\ \A c : Mentioned(c)' <=> Mentioned(c) \/ \E j \in 1..Len(rs) : c = rs[j]
         /\ \A c : Ended(c)' <=>
              Ended(c) \/ (k = "CLIENT_REQUEST_ENDED" /\ \E j \in 1..Len(rs) : c = rs[j])
         /\ \A n : StartsAre(lifecycle, n) /\ (k = "CLIENT_REQUEST_ENDED" \/ \A j \in 1..Len(rs) : rs[j] = Warmup)
                     => StartsAre(lifecycle, n)'
         /\ \A n \in Nat : (/\ StartsAre(lifecycle, n) /\ k = "CLIENT_REQUEST_STARTED"
                            /\ \A j \in 1..Len(rs) : rs[j] # Warmup /\ rs[j] = Measured[n + j])
                             => StartsAre(lifecycle, n + Len(rs))'
<1> DEFINE new == [i \in DOMAIN rs |-> Event(k, rs[i])]
           L == Len(lifecycle)
           m == Len(rs)
<1>1. lifecycle' = lifecycle \o new
  BY DEF LogLifecycle
<1>2. m \in Nat /\ DOMAIN rs = 1..m /\ \A j \in 1..m : rs[j] \in Requests
  BY LenProperties, ElementOfSeq
<1>3. \A j \in 1..m : new[j] = Event(k, rs[j]) /\ Event(k, rs[j]) \in Lifecycle
  BY <1>2 DEF Event, Lifecycle
<1>4. new \in Seq(Lifecycle) /\ Len(new) = m
  <2>1. new \in [1..m -> Lifecycle]
    BY <1>2, <1>3
  <2> HIDE DEF new, m
  <2> QED BY <1>2, <2>1, SeqIntro
<1> HIDE DEF new
<1>5. /\ lifecycle' \in Seq(Lifecycle) /\ L \in Nat /\ DOMAIN lifecycle = 1..L
      /\ \A i \in 1..L : i \in DOMAIN lifecycle' /\ lifecycle'[i] = lifecycle[i]
      /\ \A j \in 1..m : L + j \in DOMAIN lifecycle' /\ lifecycle'[L + j] = new[j]
      /\ \A i \in DOMAIN lifecycle' : i \in 1..L \/ \E j \in 1..m : i = L + j
  <2>1. /\ lifecycle \o new \in Seq(Lifecycle)
        /\ \A i \in 1..L : i \in DOMAIN (lifecycle \o new) /\ (lifecycle \o new)[i] = lifecycle[i]
        /\ \A j \in 1..m :
             L + j \in DOMAIN (lifecycle \o new) /\ (lifecycle \o new)[L + j] = new[j]
        /\ \A i \in DOMAIN (lifecycle \o new) : i \in 1..L \/ \E j \in 1..m : i = L + j
    <3>1. Len(new) = m
      BY <1>4
    <3> HIDE DEF m
    <3> QED BY <1>4, <3>1, LongerLog
  <2>2. L \in Nat /\ DOMAIN lifecycle = 1..L
    BY Positions
  <2> HIDE DEF m, L
  <2> QED BY <1>1, <2>1, <2>2
<1> HIDE DEF m, L
<1>6. \A j \in 1..m : new[j].of = rs[j] /\ new[j].kind = k
  BY <1>3, EventIs
<1>7. ASSUME NEW c PROVE Mentioned(c)' <=> Mentioned(c) \/ \E j \in 1..m : c = rs[j]
  <2>1. (\E i \in DOMAIN lifecycle' : lifecycle'[i].of = c) <=>
          \/ \E i \in 1..L : lifecycle[i].of = c
          \/ \E j \in 1..m : new[j].of = c
    <3>1. ASSUME NEW i \in DOMAIN lifecycle', lifecycle'[i].of = c
          PROVE  (\E h \in 1..L : lifecycle[h].of = c) \/ \E j \in 1..m : new[j].of = c
      BY <1>5, <3>1
    <3>2. ASSUME NEW i \in 1..L, lifecycle[i].of = c
          PROVE  \E h \in DOMAIN lifecycle' : lifecycle'[h].of = c
      BY <1>5, <3>2
    <3>3. ASSUME NEW j \in 1..m, new[j].of = c
          PROVE  \E h \in DOMAIN lifecycle' : lifecycle'[h].of = c
      BY <1>5, <3>3
    <3> QED BY <3>1, <3>2, <3>3
  <2>2. Mentioned(c)' <=> \E i \in DOMAIN lifecycle' : lifecycle'[i].of = c
    BY DEF Mentioned
  <2>3. Mentioned(c) <=> \E i \in 1..L : lifecycle[i].of = c
    BY <1>5 DEF Mentioned
  <2>4. (\E j \in 1..m : new[j].of = c) <=> \E j \in 1..m : c = rs[j]
    BY <1>6
  <2> QED BY <2>1, <2>2, <2>3, <2>4
<1>8. ASSUME NEW c
      PROVE  Ended(c)' <=> Ended(c) \/ (k = "CLIENT_REQUEST_ENDED" /\ \E j \in 1..m : c = rs[j])
  <2>1. Ended(c)' <=> \E i \in DOMAIN lifecycle' : lifecycle'[i] = Event("CLIENT_REQUEST_ENDED", c)
    BY DEF Ended, Event
  <2>2. Ended(c) <=> \E i \in 1..L : lifecycle[i] = Event("CLIENT_REQUEST_ENDED", c)
    BY <1>5 DEF Ended
  <2>3. ASSUME NEW j \in 1..m
        PROVE  new[j] = Event("CLIENT_REQUEST_ENDED", c) <=> k = "CLIENT_REQUEST_ENDED" /\ c = rs[j]
    BY <1>3, <2>3, EventIs
  <2>4. (\E i \in DOMAIN lifecycle' : lifecycle'[i] = Event("CLIENT_REQUEST_ENDED", c)) <=>
          \/ \E i \in 1..L : lifecycle[i] = Event("CLIENT_REQUEST_ENDED", c)
          \/ \E j \in 1..m : new[j] = Event("CLIENT_REQUEST_ENDED", c)
    BY <1>5
  <2> QED BY <2>1, <2>2, <2>3, <2>4
<1>9. ASSUME NEW n, StartsAre(lifecycle, n), k = "CLIENT_REQUEST_ENDED" \/ \A j \in 1..m : rs[j] = Warmup
      PROVE  StartsAre(lifecycle, n)'
  <2>1. \A j \in 1..Len(new) : new[j].kind = "CLIENT_REQUEST_ENDED" \/ new[j].of = Warmup
    BY <1>4, <1>6, <1>9
  <2>2. StartsAre(lifecycle \o new, n)
    BY <1>4, <1>9, <2>1, OthersLogged
  <2> QED BY <1>1, <2>2, SameLoad
<1>10. ASSUME NEW n \in Nat, StartsAre(lifecycle, n), k = "CLIENT_REQUEST_STARTED",
              \A j \in 1..m : rs[j] # Warmup /\ rs[j] = Measured[n + j]
       PROVE  StartsAre(lifecycle, n + m)'
  <2>1. \A j \in 1..Len(new) : new[j].kind = "CLIENT_REQUEST_STARTED" /\ new[j].of # Warmup
                               /\ new[j].of = Measured[n + j]
    BY <1>4, <1>6, <1>10
  <2>2. StartsAre(lifecycle \o new, n + Len(new))
    BY <1>4, <1>10, <2>1, StartsLogged
  <2>3. StartsAre(lifecycle', n + m)
    BY <1>1, <1>4, <2>2
  <2> QED BY <2>3, SameLoad
<1>11. /\ \A c : Mentioned(c)' <=> Mentioned(c) \/ \E j \in 1..m : c = rs[j]
       /\ \A c : Ended(c)' <=>
            Ended(c) \/ (k = "CLIENT_REQUEST_ENDED" /\ \E j \in 1..m : c = rs[j])
  BY <1>7, <1>8
<1>12. \A n : StartsAre(lifecycle, n) /\ (k = "CLIENT_REQUEST_ENDED" \/ \A j \in 1..m : rs[j] = Warmup)
                => StartsAre(lifecycle, n)'
  BY <1>9
<1>13. \A n \in Nat : (/\ StartsAre(lifecycle, n) /\ k = "CLIENT_REQUEST_STARTED"
                       /\ \A j \in 1..m : rs[j] # Warmup /\ rs[j] = Measured[n + j])
                        => StartsAre(lifecycle, n + m)'
  BY <1>10
<1> QED BY <1>5, <1>11, <1>12, <1>13 DEF m

LEMMA LoggedOne ==
  ASSUME lifecycle \in Seq(Lifecycle), load \in Loads, load' = load,
         NEW k \in {"CLIENT_REQUEST_STARTED", "CLIENT_REQUEST_ENDED"}, NEW r \in Requests,
         LogLifecycle(k, <<r>>)
  PROVE  /\ lifecycle' \in Seq(Lifecycle)
         /\ \A c : Mentioned(c)' <=> Mentioned(c) \/ c = r
         /\ \A c : Ended(c)' <=> Ended(c) \/ (k = "CLIENT_REQUEST_ENDED" /\ c = r)
         /\ \A n : StartsAre(lifecycle, n) /\ (k = "CLIENT_REQUEST_ENDED" \/ r = Warmup)
                     => StartsAre(lifecycle, n)'
         /\ \A n \in Nat : StartsAre(lifecycle, n) /\ k = "CLIENT_REQUEST_STARTED" /\ r # Warmup
                           /\ r = Measured[n + 1] => StartsAre(lifecycle, n + 1)'
<1> DEFINE rs == <<r>>
<1>1. rs \in Seq(Requests) /\ Len(rs) = 1 /\ \A j \in 1..1 : j = 1 /\ rs[j] = r
  OBVIOUS
<1>2. LogLifecycle(k, rs)
  OBVIOUS
<1> HIDE DEF rs
<1>3. /\ lifecycle' \in Seq(Lifecycle)
      /\ \A c : Mentioned(c)' <=> Mentioned(c) \/ \E j \in 1..1 : c = rs[j]
      /\ \A c : Ended(c)' <=>
           Ended(c) \/ (k = "CLIENT_REQUEST_ENDED" /\ \E j \in 1..1 : c = rs[j])
      /\ \A n : StartsAre(lifecycle, n) /\ (k = "CLIENT_REQUEST_ENDED" \/ \A j \in 1..1 : rs[j] = Warmup)
                  => StartsAre(lifecycle, n)'
      /\ \A n \in Nat : (/\ StartsAre(lifecycle, n) /\ k = "CLIENT_REQUEST_STARTED"
                         /\ \A j \in 1..1 : rs[j] # Warmup /\ rs[j] = Measured[n + j])
                          => StartsAre(lifecycle, n + 1)'
  <2>1. /\ lifecycle' \in Seq(Lifecycle)
        /\ \A c : Mentioned(c)' <=> Mentioned(c) \/ \E j \in 1..Len(rs) : c = rs[j]
        /\ \A c : Ended(c)' <=>
             Ended(c) \/ (k = "CLIENT_REQUEST_ENDED" /\ \E j \in 1..Len(rs) : c = rs[j])
        /\ \A n : StartsAre(lifecycle, n) /\ (k = "CLIENT_REQUEST_ENDED" \/ \A j \in 1..Len(rs) : rs[j] = Warmup)
                    => StartsAre(lifecycle, n)'
        /\ \A n \in Nat : (/\ StartsAre(lifecycle, n) /\ k = "CLIENT_REQUEST_STARTED"
                           /\ \A j \in 1..Len(rs) : rs[j] # Warmup /\ rs[j] = Measured[n + j])
                            => StartsAre(lifecycle, n + Len(rs))'
    BY <1>1, <1>2, Logged
  <2> QED BY <1>1, <2>1
<1>4. \A c : (\E j \in 1..1 : c = rs[j]) <=> c = r
  BY <1>1
<1>5. (\A j \in 1..1 : rs[j] = Warmup) <=> r = Warmup
  BY <1>1
<1>6. \A n : r # Warmup /\ r = Measured[n + 1] => \A j \in 1..1 : rs[j] # Warmup /\ rs[j] = Measured[n + j]
  BY <1>1
<1> QED BY <1>3, <1>4, <1>5, <1>6

-----------------------------------------------------------------------------
(* What the abstract closed loop sees of the log                            *)

\* The instance brings its own copy of the library's operator.
LEMMA LoopCounts == \A S : Loop!Cardinality(S) = Cardinality(S)
BY DEF Cardinality, Loop!Cardinality

LEMMA ActiveIs ==
  ASSUME NEW log \in Seq(Lifecycle), NEW c
  PROVE  c \in ActiveAfter(log, Len(log)) <=>
           /\ \E i \in DOMAIN log : log[i].of = c
           /\ ~ \E i \in DOMAIN log : log[i] = Event("CLIENT_REQUEST_ENDED", c)
<1>1. DOMAIN log = 1..Len(log) /\ \A i \in DOMAIN log : log[i] \in Lifecycle
  BY LenProperties, ElementOfSeq
<1>2. \A e \in Lifecycle : /\ e.kind \in {"CLIENT_REQUEST_STARTED", "CLIENT_REQUEST_ENDED"}
                           /\ e = Event("CLIENT_REQUEST_ENDED", c) <=> e.kind = "CLIENT_REQUEST_ENDED" /\ e.of = c
  BY DEF Lifecycle, Event
<1> QED BY <1>1, <1>2 DEF ActiveAfter

LEMMA LoopSees ==
  ASSUME load \in Loads, load' = load, lifecycle \in Seq(Lifecycle), lifecycle' \in Seq(Lifecycle)
  PROVE  /\ \A n \in 0..Len(Measured) : StartsAre(lifecycle, n) => StartedOf(lifecycle) = SubSeq(Measured, 1, n)
         /\ \A n \in 0..Len(Measured) : StartsAre(lifecycle, n)' => StartedOf(lifecycle)' = SubSeq(Measured, 1, n)
         /\ \A c : c \in Running <=> Mentioned(c) /\ ~Ended(c) /\ c # Warmup
         /\ \A c : c \in Running' <=> Mentioned(c)' /\ ~Ended(c)' /\ c # Warmup
<1>1. PICK old \in Seq(Lifecycle) : old = lifecycle
  OBVIOUS
<1>2. PICK new \in Seq(Lifecycle) : new = lifecycle'
  OBVIOUS
<1>3. \A n \in 0..Len(Measured) : StartsAre(lifecycle, n) => StartedOf(lifecycle) = SubSeq(Measured, 1, n)
  <2>1. \A n \in 0..Len(Measured) : StartsAre(old, n) => StartedOf(old) = SubSeq(Measured, 1, n)
    BY StartedIs
  <2> QED BY <1>1, <2>1
<1>4. \A n \in 0..Len(Measured) : StartsAre(lifecycle, n)' => StartedOf(lifecycle)' = SubSeq(Measured, 1, n)
  <2>1. \A n \in 0..Len(Measured) : StartsAre(new, n) => StartedOf(new) = SubSeq(Measured, 1, n)
    BY StartedIs
  <2>2. \A n : StartsAre(lifecycle, n)' <=> StartsAre(new, n)
    BY <1>2, SameLoad
  <2>3. StartedOf(lifecycle)' = StartedOf(new)
    BY <1>2 DEF StartedOf, StartPositions
  <2> QED BY <2>1, <2>2, <2>3
<1>5. ASSUME NEW c PROVE c \in Running <=> Mentioned(c) /\ ~Ended(c) /\ c # Warmup
  <2>1. c \in ActiveAfter(old, Len(old)) <=>
          /\ \E i \in DOMAIN old : old[i].of = c
          /\ ~ \E i \in DOMAIN old : old[i] = Event("CLIENT_REQUEST_ENDED", c)
    BY ActiveIs
  <2> QED BY <1>1, <2>1 DEF Running, Mentioned, Ended
<1>6. ASSUME NEW c PROVE c \in Running' <=> Mentioned(c)' /\ ~Ended(c)' /\ c # Warmup
  <2>1. c \in ActiveAfter(new, Len(new)) <=>
          /\ \E i \in DOMAIN new : new[i].of = c
          /\ ~ \E i \in DOMAIN new : new[i] = Event("CLIENT_REQUEST_ENDED", c)
    BY ActiveIs
  <2>2. Running' = ActiveAfter(new, Len(new)) \ {Warmup}
    BY <1>2 DEF Running, ActiveAfter
  <2> QED BY <1>2, <2>1, <2>2 DEF Mentioned, Ended
<1> QED BY <1>3, <1>4, <1>5, <1>6

\* The warmup is not part of the load.
LEMMA LoopStutters ==
  ASSUME PlaceInv, load' = load, lifecycle' \in Seq(Lifecycle),
         \A n : StartsAre(lifecycle, n) => StartsAre(lifecycle, n)',
         \A c : c # Warmup => (Mentioned(c)' <=> Mentioned(c)) /\ (Ended(c)' <=> Ended(c))
  PROVE  LoopStep
<1>1. load \in Loads /\ lifecycle \in Seq(Lifecycle)
  BY DEF PlaceInv, PlaceOK, LogInv
<1>2. PICK n \in 0..Len(Measured) : StartsAre(lifecycle, n)
  BY DEF PlaceInv, StartedInv
<1>3. StartedOf(lifecycle)' = StartedOf(lifecycle)
  BY <1>1, <1>2, LoopSees
<1>4. Running' = Running
  <2>1. /\ \A c : c \in Running <=> Mentioned(c) /\ ~Ended(c) /\ c # Warmup
        /\ \A c : c \in Running' <=> Mentioned(c)' /\ ~Ended(c)' /\ c # Warmup
    BY <1>1, LoopSees
  <2>2. \A c : c \in Running' <=> c \in Running
    BY <2>1
  <2>3. Running' \subseteq Running /\ Running \subseteq Running'
    BY <2>2
  <2> QED BY <2>3
<1> QED BY <1>3, <1>4, SameLoad DEF LoopStep, Loop!vars, Running

\* The requests s + 1 to n start.  They and whoever was running hold a permit now.
LEMMA LoopStarts ==
  ASSUME PlaceInv, PlaceInv', load' = load, ~aborting,
         NEW s \in Nat, NEW n \in Nat, s < n, n <= Len(Measured),
         StartsAre(lifecycle, s), StartsAre(lifecycle, n)',
         \A c : Mentioned(c)' <=> Mentioned(c) \/ \E j \in (s + 1)..n : c = Measured[j],
         \A c : Ended(c)' <=> Ended(c),
         \A c \in Requests : client[c] \in InFlight => client'[c] \in InFlight,
         \A j \in (s + 1)..n : client'[Measured[j]] \in InFlight
  PROVE  LoopStep
<1> DEFINE new == {Measured[i] : i \in (s + 1)..n}
<1>1. load \in Loads /\ lifecycle \in Seq(Lifecycle) /\ lifecycle' \in Seq(Lifecycle)
      /\ Measured' = Measured /\ Planned' = Planned
  BY SameLoad DEF PlaceInv, PlaceOK, LogInv
<1>2. /\ Measured \in Seq(Requests) /\ Len(Measured) \in Nat
      /\ \A i \in 1..Len(Measured) : Measured[i] \in Range(Measured)
      /\ Range(Measured) \subseteq Requests /\ Warmup \notin Range(Measured)
  BY <1>1, LoadFacts
<1>3. s \in 0..Len(Measured) /\ n \in 0..Len(Measured) /\ (s + 1)..n \subseteq 1..Len(Measured)
  BY <1>2
<1>4. StartedOf(lifecycle) = SubSeq(Measured, 1, s) /\ StartedOf(lifecycle)' = SubSeq(Measured, 1, n)
  BY <1>1, <1>3, LoopSees
<1>5. Len(StartedOf(lifecycle)) = s
  <2>1. 0 \in 0..Len(Measured) /\ s \in 0..Len(Measured)
    BY <1>3
  <2>2. Len(SubSeq(Measured, 0 + 1, s)) = s - 0
    BY <1>2, <2>1, Slice
  <2> QED BY <1>4, <2>2
<1>6. /\ \A c : c \in Running <=> Mentioned(c) /\ ~Ended(c) /\ c # Warmup
      /\ \A c : c \in Running' <=> Mentioned(c)' /\ ~Ended(c)' /\ c # Warmup
  BY <1>1, LoopSees
<1>7. \A c \in new : c \in Range(Measured) /\ client'[c] \in InFlight /\ ~Ended(c)' /\ c # Warmup
  <2>1. \A c \in new : c \in Range(Measured) /\ client'[c] \in InFlight
    BY <1>2, <1>3
  <2>2. \A c \in Requests : client'[c] \in InFlight => ~Ended(c)'
    BY DEF PlaceInv, LogInv
  <2> HIDE DEF new
  <2> QED BY <1>2, <2>1, <2>2
<1>8. Running' = Running \cup new
  <2>1. \A c : c \in Running' <=> c \in Running \/ c \in new
    BY <1>6, <1>7
  <2>2. Running' \subseteq Running \cup new /\ Running \cup new \subseteq Running'
    BY <2>1
  <2> QED BY <2>2
<1>9. Cardinality(Running \cup new) <= Concurrency
  <2>1. ASSUME NEW c \in Running PROVE c \in Range(Measured) /\ client'[c] \in InFlight
    <3>1. Mentioned(c) /\ ~Ended(c) /\ c # Warmup
      BY <1>6
    <3>2. c \in Requests
      <4>1. DOMAIN lifecycle = 1..Len(lifecycle) /\ \A i \in 1..Len(lifecycle) : lifecycle[i] \in Lifecycle
        BY <1>1, LenProperties, ElementOfSeq
      <4> QED BY <3>1, <4>1 DEF Mentioned, Lifecycle
    <3>3. client[c] \in InFlight
      BY <3>1, <3>2 DEF PlaceInv, PlaceOK, LogInv, ClientInv, States
    <3>4. c \in Planned
      BY <3>2, <3>3 DEF PlaceInv, ClientInv, InFlight
    <3> QED BY <3>1, <3>2, <3>3, <3>4 DEF Planned
  <2>2. Running \cup new \subseteq Holders'
    BY <1>1, <1>7, <2>1 DEF Holders, Holding
  <2>3. IsFiniteSet(Holders') /\ Cardinality(Holders') \in Nat
    <3>1. Holders' \in SUBSET Range(Measured)
      BY <1>1 DEF Holders
    <3> QED BY <1>1, <3>1, MeasuredFinite
  <2>4. Cardinality(Running \cup new) <= Cardinality(Holders') /\ Cardinality(Running \cup new) \in Nat
    <3> HIDE DEF new
    <3> QED BY <2>2, <2>3, FS_Subset, FS_CardinalityType
  <2>5. permits' \in Nat /\ permits' + Cardinality(Holders') = Concurrency
    BY DEF PlaceInv, PermitInv
  <2> QED BY <2>3, <2>4, <2>5
<1>10. n \in (Len(StartedOf(lifecycle)) + 1)..Len(Measured)
  BY <1>2, <1>5
<1>11. Loop!Start
  <2> DEFINE started == StartedOf(lifecycle)
             running == ActiveAfter(lifecycle, Len(lifecycle)) \ {Warmup}
  <2>1. new = {Measured[i] : i \in (Len(started) + 1)..n} /\ n \in (Len(started) + 1)..Len(Measured)
    BY <1>5, <1>10
  <2>2. /\ Cardinality(running \cup new) <= Concurrency /\ started' = SubSeq(Measured, 1, n)
        /\ running' = running \cup new /\ Measured' = Measured
    BY <1>1, <1>4, <1>8, <1>9 DEF Running
  <2> HIDE DEF new, started, running
  <2>3. \E k \in (Len(started) + 1)..Len(Measured) :
          /\ Cardinality(running \cup {Measured[i] : i \in (Len(started) + 1)..k}) <= Concurrency
          /\ started' = SubSeq(Measured, 1, k)
          /\ running' = running \cup {Measured[i] : i \in (Len(started) + 1)..k}
          /\ Measured' = Measured
    BY <2>1, <2>2
  <2> QED BY <2>3, LoopCounts DEF started, running, Loop!Start
<1> QED BY <1>11 DEF LoopStep, Loop!Next

\* A measured request ends.
LEMMA LoopEnds ==
  ASSUME PlaceInv, load' = load, lifecycle' \in Seq(Lifecycle), NEW r \in Requests, r # Warmup,
         client[r] \in InFlight,
         \A n : StartsAre(lifecycle, n) => StartsAre(lifecycle, n)',
         \A c : Mentioned(c)' <=> Mentioned(c) \/ c = r,
         \A c : Ended(c)' <=> Ended(c) \/ c = r
  PROVE  LoopStep
<1>1. load \in Loads /\ lifecycle \in Seq(Lifecycle) /\ Measured' = Measured
  BY SameLoad DEF PlaceInv, PlaceOK, LogInv
<1>2. PICK n \in 0..Len(Measured) : StartsAre(lifecycle, n)
  BY DEF PlaceInv, StartedInv
<1>3. StartedOf(lifecycle)' = StartedOf(lifecycle)
  BY <1>1, <1>2, LoopSees
<1>4. /\ \A c : c \in Running <=> Mentioned(c) /\ ~Ended(c) /\ c # Warmup
      /\ \A c : c \in Running' <=> Mentioned(c)' /\ ~Ended(c)' /\ c # Warmup
  BY <1>1, LoopSees
<1>5. Mentioned(r) /\ ~Ended(r)
  BY DEF PlaceInv, LogInv
<1>6. r \in Running /\ Running' = Running \ {r}
  <2>1. \A c : c \in Running' <=> c \in Running \ {r}
    BY <1>4, <1>5
  <2>2. Running' \subseteq Running \ {r} /\ Running \ {r} \subseteq Running'
    BY <2>1
  <2> QED BY <1>4, <1>5, <2>2
<1>7. Loop!End(r) /\ r \in Running
  BY <1>1, <1>3, <1>6 DEF Loop!End, Running
<1> QED BY <1>7 DEF LoopStep, Loop!Next, Running

LEMMA StartWarmupStep == ASSUME PlaceInv, StartWarmup PROVE PlaceInv' /\ LoopStep
<1>1. /\ phase = "warmup" /\ client[Warmup] = "new" /\ client' = [client EXCEPT ![Warmup] = "sending"]
      /\ LogLifecycle("CLIENT_REQUEST_STARTED", <<Warmup>>)
      /\ UNCHANGED <<phase, aborting, ready, waiting, permits, load>>
  BY DEF StartWarmup, KeepIdle, taskVars
<1>2. /\ Measured' = Measured /\ Planned' = Planned /\ lifecycle \in Seq(Lifecycle) /\ load \in Loads
      /\ client \in [Requests -> States]
  BY <1>1, SameLoad DEF PlaceInv, PlaceOK, LogInv
<1>3. /\ Range(Measured) \subseteq Requests /\ Warmup \notin Range(Measured) /\ Warmup \in Requests
      /\ Warmup \in Planned
  BY <1>2, LoadFacts DEF Planned
<1>4. /\ client'[Warmup] = "sending" /\ client' \in [Requests -> States]
      /\ \A c \in Requests \ {Warmup} : client'[c] = client[c]
  BY <1>1, <1>2, <1>3 DEF States, InFlight
<1>5. /\ lifecycle' \in Seq(Lifecycle)
      /\ \A c : Mentioned(c)' <=> Mentioned(c) \/ c = Warmup
      /\ \A c : Ended(c)' <=> Ended(c)
      /\ \A n : StartsAre(lifecycle, n) => StartsAre(lifecycle, n)'
  BY <1>1, <1>2, <1>3, LoggedOne
<1>6. PlaceOK'
  BY <1>1, <1>4 DEF PlaceInv, PlaceOK
<1>7. ClientInv'
  BY <1>1, <1>2, <1>3, <1>4 DEF PlaceInv, ClientInv, InFlight
<1>8. PermitInv'
  <2>1. Holders' = Holders
    BY <1>2, <1>3, <1>4 DEF Holders
  <2> QED BY <1>1, <2>1 DEF PlaceInv, PermitInv
<1>9. LogInv'
  <2>1. ~Mentioned(Warmup) /\ ~Ended(Warmup)
    BY <1>1, <1>3 DEF PlaceInv, LogInv, Mentioned, Ended, Event
  <2> QED BY <1>3, <1>4, <1>5, <2>1 DEF PlaceInv, LogInv, InFlight
<1>10. StartedInv'
  BY <1>1, <1>2, <1>5 DEF PlaceInv, StartedInv
<1>11. LoopStep
  BY <1>1, <1>5, LoopStutters
<1> QED BY <1>6, <1>7, <1>8, <1>9, <1>10, <1>11 DEF PlaceInv

LEMMA StoppingStep == ASSUME PlaceInv, Gathered \/ Stopped PROVE PlaceInv'
<1>1. /\ UNCHANGED <<aborting, ready, waiting, permits, client, lifecycle, load>>
      /\ phase' \in Phases \ {"warmup", "created", "measured"} /\ phase \in {"measured", "stopping"}
  BY DEF Gathered, Stopped, KeepRun, taskVars, clientVars, logVars, Phases
<1>2. ASSUME ~aborting, phase = "measured", NEW r \in Range(Measured) PROVE client[r] = "ended"
  <2>1. Range(Measured) \subseteq Requests
    BY LoadFacts DEF PlaceInv, PlaceOK
  <2>2. \A c \in Range(Measured) : client[c] # "abandoned"
    BY <1>2, <2>1 DEF PlaceInv, ClientInv
  <2> QED BY <1>2, <2>2 DEF Gathered, Stopped
<1>3. Measured' = Measured /\ Planned' = Planned
  BY <1>1, SameLoad
<1>4. PlaceOK'
  BY <1>1 DEF PlaceInv, PlaceOK
<1>5. ClientInv'
  <2>1. ASSUME NEW r \in Range(Measured)
        PROVE  client[r] \in {"new", "ended", "abandoned"} \cup (IF aborting THEN {"closing"} ELSE {})
    <3>1. CASE aborting
      BY <2>1, <3>1 DEF PlaceInv, ClientInv
    <3>2. CASE ~aborting /\ phase = "measured"
      BY <1>2, <2>1, <3>2
    <3>3. CASE ~aborting /\ phase = "stopping"
      BY <2>1, <3>3 DEF PlaceInv, ClientInv
    <3> QED BY <1>1, <3>1, <3>2, <3>3
  <2> QED BY <1>1, <1>3, <2>1 DEF PlaceInv, ClientInv
<1>6. PermitInv'
  BY <1>1, <1>3 DEF PlaceInv, PermitInv, Holders
<1>7. LogInv'
  BY <1>1 DEF PlaceInv, LogInv, Mentioned, Ended
<1>8. StartedInv'
  BY <1>1, <1>3, SameLoad DEF PlaceInv, StartedInv
<1> QED BY <1>4, <1>5, <1>6, <1>7, <1>8 DEF PlaceInv

-----------------------------------------------------------------------------
(* The semaphore                                                            *)

LEMMA HoldersFinite ==
  ASSUME load \in Loads PROVE IsFiniteSet(Holders) /\ Cardinality(Holders) \in Nat
<1>1. Holders \in SUBSET Range(Measured)
  BY DEF Holders
<1> QED BY <1>1, MeasuredFinite

\* The first tasks find the semaphore free, the others queue.
LEMMA StartTasksStep == ASSUME PlaceInv, StartTasks PROVE PlaceInv' /\ LoopStep
<1>1. load \in Loads /\ load' = load
  BY DEF PlaceInv, PlaceOK, StartTasks, KeepIdle
<1>2. PICK m \in Nat : m = Len(Measured)
  BY <1>1, LoadFacts
<1>3. /\ Measured \in Seq(Requests) /\ m >= 1
      /\ \A i \in 1..m : Measured[i] \in Range(Measured)
      /\ \A r \in Range(Measured) : \E i \in 1..m : r = Measured[i]
      /\ \A i, j \in 1..m : Measured[i] = Measured[j] => i = j
      /\ Range(Measured) \subseteq Requests /\ Warmup \notin Range(Measured) /\ Warmup \in Requests
  BY <1>1, <1>2, LoadFacts
<1>4. PICK n \in Nat : /\ n = IF m < Concurrency THEN m ELSE Concurrency
                       /\ n \in 0..m /\ n <= Concurrency /\ Concurrency \in Nat /\ (n < m => n = Concurrency)
  BY <1>3, FixtureAssumption DEF FixtureAssumption
<1>5. PICK first \in Seq(Requests) : /\ first = SubSeq(Measured, 1, n)
                                     /\ Len(first) = n /\ \A j \in 1..n : first[j] = Measured[j]
  <2>1. /\ SubSeq(Measured, 0 + 1, n) \in Seq(Requests) /\ Len(SubSeq(Measured, 0 + 1, n)) = n - 0
        /\ \A i \in 1..(n - 0) : SubSeq(Measured, 0 + 1, n)[i] = Measured[0 + i]
    <3>1. 0 \in 0..Len(Measured) /\ n \in 0..Len(Measured)
      BY <1>2, <1>4
    <3> QED BY <1>3, <3>1, Slice
  <2>2. /\ SubSeq(Measured, 1, n) \in Seq(Requests) /\ Len(SubSeq(Measured, 1, n)) = n
        /\ \A i \in 1..n : SubSeq(Measured, 1, n)[i] = Measured[i]
    BY <1>4, <2>1
  <2> QED BY <2>2
<1>6. /\ phase = "created" /\ phase' = "measured"
      /\ client' = [r \in Requests |-> IF r \in Range(first) THEN "sending"
                                       ELSE IF r \in Range(Measured) THEN "queued" ELSE client[r]]
      /\ LogLifecycle("CLIENT_REQUEST_STARTED", first)
      /\ permits' = permits - n /\ waiting' = SubSeq(Measured, n + 1, m)
      /\ UNCHANGED <<ready, aborting>>
  BY <1>2, <1>4, <1>5 DEF StartTasks, KeepIdle
<1>7. /\ Measured' = Measured /\ Planned' = Planned /\ lifecycle \in Seq(Lifecycle)
      /\ client \in [Requests -> States]
  BY <1>1, SameLoad DEF PlaceInv, PlaceOK, LogInv
<1>8. /\ IsFiniteSet({Measured[i] : i \in 1..n}) /\ Cardinality({Measured[i] : i \in 1..n}) = n
      /\ Range(first) = {Measured[i] : i \in 1..n}
  BY <1>1, <1>2, <1>4, <1>5, FirstOnes
<1>9. /\ \A i \in 1..m : client'[Measured[i]] = IF i <= n THEN "sending" ELSE "queued"
      /\ \A r \in Requests \ Range(Measured) : client'[r] = client[r]
      /\ client' \in [Requests -> States]
  <2>1. \A i \in 1..m : Measured[i] \in Range(first) <=> i <= n
    BY <1>3, <1>4, <1>8
  <2>2. Range(first) \subseteq Range(Measured)
    BY <1>3, <1>4, <1>8
  <2> QED BY <1>1, <1>6, <1>2, <1>7, <1>3, <2>1, <2>2 DEF States, InFlight
<1>10. /\ lifecycle' \in Seq(Lifecycle)
       /\ \A c : Mentioned(c)' <=> Mentioned(c) \/ \E j \in 1..n : c = Measured[j]
       /\ \A c : Ended(c)' <=> Ended(c)
       /\ StartsAre(lifecycle, 0) => StartsAre(lifecycle, n)'
  <2> DEFINE k == "CLIENT_REQUEST_STARTED"
  <2>1. /\ lifecycle' \in Seq(Lifecycle)
        /\ \A c : Mentioned(c)' <=> Mentioned(c) \/ \E j \in 1..Len(first) : c = first[j]
        /\ \A c : Ended(c)' <=>
             Ended(c) \/ (k = "CLIENT_REQUEST_ENDED" /\ \E j \in 1..Len(first) : c = first[j])
        /\ \A p \in Nat : (/\ StartsAre(lifecycle, p) /\ k = "CLIENT_REQUEST_STARTED"
                           /\ \A j \in 1..Len(first) : first[j] # Warmup /\ first[j] = Measured[p + j])
                            => StartsAre(lifecycle, p + Len(first))'
    <3>1. LogLifecycle(k, first) /\ k \in {"CLIENT_REQUEST_STARTED", "CLIENT_REQUEST_ENDED"}
      BY <1>1, <1>6
    <3> HIDE DEF k
    <3> QED BY <1>1, <1>7, <1>5, <3>1, Logged
  <2>2. \A j \in 1..n : first[j] # Warmup /\ first[j] = Measured[0 + j]
    BY <1>3, <1>4, <1>5
  <2>3. 0 + n = n /\ 0 \in Nat
    BY <1>4
  <2>4. \A c : (\E j \in 1..n : c = first[j]) <=> \E j \in 1..n : c = Measured[j]
    BY <1>5
  <2>5. StartsAre(lifecycle, 0) => StartsAre(lifecycle, 0 + n)'
    BY <1>5, <2>1, <2>2, <2>3
  <2>6. StartsAre(lifecycle, 0 + n)' <=> StartsAre(lifecycle, n)'
    BY <2>3
  <2>7. \A c : Mentioned(c)' <=> Mentioned(c) \/ \E j \in 1..n : c = Measured[j]
    BY <1>5, <2>1, <2>4
  <2> QED BY <2>1, <2>5, <2>6, <2>7
<1>11. /\ ~aborting /\ ready = <<>> /\ waiting = <<>> /\ StartsAre(lifecycle, 0)
       /\ \A r \in Range(Measured) : client[r] = "new"
  BY <1>1, <1>6 DEF PlaceInv, ClientInv, StartedInv
<1>12. waiting' \in Seq(Requests) /\ (waiting' # <<>> => n < m)
  <2>1. m \in n..m /\ n \in 0..m
    BY <1>3, <1>4
  <2>2. SubSeq(Measured, n + 1, m) \in Seq(Requests) /\ (SubSeq(Measured, n + 1, m) = <<>> <=> n = m)
    <3>1. n \in 0..Len(Measured) /\ Len(Measured) \in n..Len(Measured)
      BY <1>2, <2>1
    <3>2. SubSeq(Measured, n + 1, Len(Measured)) \in Seq(Requests)
      BY <1>3, <1>4, <3>1, Slice
    <3>3. SubSeq(Measured, n + 1, Len(Measured)) = <<>> <=> n = Len(Measured)
      <4>1. Measured \in Seq(Requests)
        BY <1>3
      <4> QED BY <3>1, <4>1, SliceEmpty
    <3> QED BY <1>2, <3>2, <3>3
  <2> QED BY <1>1, <1>6, <1>3, <1>4, <2>2
<1>13. PlaceOK'
  BY <1>1, <1>6, <1>9, <1>12 DEF PlaceInv, PlaceOK, Phases
<1>14. ClientInv'
  <2>1. \A r \in Range(Measured) : client'[r] \in {"sending", "queued"}
    BY <1>3, <1>9
  <2>2. \A r \in Requests \ Planned : client'[r] = client[r] /\ r \in Requests \ Range(Measured)
    BY <1>9 DEF Planned
  <2>3. client'[Warmup] = client[Warmup]
    BY <1>3, <1>9
  <2>4. \A r \in Requests : client'[r] # "abandoned"
    BY <1>9, <1>11, <2>1 DEF PlaceInv, ClientInv
  <2> QED BY <1>1, <1>6, <1>2, <1>7, <1>11, <2>1, <2>2, <2>3, <2>4 DEF PlaceInv, ClientInv
<1>15. PermitInv'
  <2>1. Holders = {}
    BY <1>11 DEF Holders, Holding, InFlight
  <2>2. permits = Concurrency
    BY <1>4, <2>1, FS_EmptySet DEF PlaceInv, PermitInv
  <2>3. Holders' = {Measured[i] : i \in 1..n}
    <3>1. \A i \in 1..m : Measured[i] \in Holders' <=> i <= n
      BY <1>2, <1>7, <1>3, <1>9 DEF Holders, Holding, InFlight
    <3>2. \A r \in Holders' : \E i \in 1..m : r = Measured[i]
      BY <1>2, <1>7, <1>3 DEF Holders
    <3> QED BY <1>3, <1>4, <3>1, <3>2
  <2>4. permits' = Concurrency - n /\ Cardinality(Holders') = n
    BY <1>1, <1>6, <1>8, <2>2, <2>3
  <2> QED BY <1>4, <1>12, <2>4 DEF PermitInv
<1>16. LogInv'
  <2>1. \A r \in Range(Measured) : ~Mentioned(r) /\ ~Ended(r)
    BY <1>3, <1>11 DEF PlaceInv, LogInv, Mentioned, Ended, Event
  <2>2. ASSUME NEW r \in Range(Measured)
        PROVE  /\ client'[r] \in {"new", "queued", "granted"} => ~Mentioned(r)'
               /\ client'[r] \in InFlight => Mentioned(r)' /\ ~Ended(r)'
               /\ client'[r] = "ended" => Ended(r)'
    <3>1. PICK i \in 1..m : r = Measured[i]
      BY <1>3
    <3>2. ~Ended(r)'
      BY <1>10, <2>1
    <3>3. Mentioned(r)' <=> \E j \in 1..n : r = Measured[j]
      BY <1>10, <2>1
    <3>4. Mentioned(r)' <=> i <= n
      BY <1>3, <1>4, <3>1, <3>3
    <3>5. client'[r] = IF i <= n THEN "sending" ELSE "queued"
      BY <1>9, <3>1
    <3> QED BY <3>2, <3>4, <3>5 DEF InFlight
  <2>3. ASSUME NEW r \in Requests \ Range(Measured)
        PROVE  /\ client'[r] \in {"new", "queued", "granted"} => ~Mentioned(r)'
               /\ client'[r] \in InFlight => Mentioned(r)' /\ ~Ended(r)'
               /\ client'[r] = "ended" => Ended(r)'
    <3>1. (Mentioned(r)' <=> Mentioned(r)) /\ (Ended(r)' <=> Ended(r))
      BY <1>3, <1>4, <1>10
    <3> QED BY <1>9, <3>1 DEF PlaceInv, LogInv
  <2>4. \A r \in Requests :
          /\ client'[r] \in {"new", "queued", "granted"} => ~Mentioned(r)'
          /\ client'[r] \in InFlight => Mentioned(r)' /\ ~Ended(r)'
          /\ client'[r] = "ended" => Ended(r)'
    BY <1>3, <2>2, <2>3
  <2> QED BY <1>10, <2>4 DEF LogInv
<1>17. StartedInv'
  <2>1. Line(n, n)'
    <3>1. SubSeq(Measured, n + 1, n) = <<>>
      BY <1>4, SubSeqEmpty
    <3>2. ready' = SubSeq(Measured', n + 1, n) /\ waiting' = SubSeq(Measured', n + 1, Len(Measured'))
      BY <1>2, <1>11, <1>6, <1>7, <3>1
    <3>3. \A i \in 1..Len(Measured') :
            client'[Measured'[i]] \in IF i <= n THEN InFlight \cup {"ended"} ELSE IF i <= n THEN {"granted"} ELSE {"queued"}
      BY <1>2, <1>9, <1>7 DEF InFlight
    <3> QED BY <1>4, <3>2, <3>3 DEF Line
  <2> QED BY <1>1, <1>6, <1>2, <1>7, <1>4, <1>10, <1>11, <2>1 DEF StartedInv
<1>18. PlaceInv'
  BY <1>13, <1>14, <1>15, <1>16, <1>17 DEF PlaceInv
<1>19. LoopStep
  <2>1. \A j \in 1..n : client'[Measured[j]] \in InFlight
    BY <1>4, <1>9 DEF InFlight
  <2>2. \A c \in Requests : client[c] \in InFlight => client'[c] \in InFlight
    BY <1>9, <1>11 DEF InFlight
  <2>3. /\ \A c : Mentioned(c)' <=> Mentioned(c) \/ \E j \in (0 + 1)..n : c = Measured[j]
        /\ \A j \in (0 + 1)..n : client'[Measured[j]] \in InFlight
        /\ 0 \in Nat /\ 0 < n /\ n <= Len(Measured) /\ StartsAre(lifecycle, n)' /\ StartsAre(lifecycle, 0)
    BY <1>2, <1>3, <1>4, <1>10, <1>11, <2>1, FixtureAssumption DEF FixtureAssumption
  <2> QED BY <1>1, <1>4, <1>10, <1>11, <1>18, <2>2, <2>3, LoopStarts
<1> QED BY <1>18, <1>19

\* The next in line.
LEMMA InLine ==
  ASSUME PlaceInv, phase = "measured", ~aborting
  PROVE  \E s, t \in 0..Len(Measured) :
           /\ s <= t /\ Line(s, t) /\ StartsAre(lifecycle, s)
           /\ ready = <<>> <=> s = t
           /\ s < t => Head(ready) = Measured[s + 1] /\ Tail(ready) = SubSeq(Measured, s + 2, t)
           /\ waiting = <<>> <=> t = Len(Measured)
           /\ t < Len(Measured) => /\ Head(waiting) = Measured[t + 1]
                                   /\ Tail(waiting) = SubSeq(Measured, t + 2, Len(Measured))
                                   /\ Append(ready, Head(waiting)) = SubSeq(Measured, s + 1, t + 1)
<1>1. PICK s \in 0..Len(Measured), t \in 0..Len(Measured) : Line(s, t) /\ StartsAre(lifecycle, s)
  BY DEF PlaceInv, StartedInv
<1>2. s <= t /\ ready = SubSeq(Measured, s + 1, t) /\ waiting = SubSeq(Measured, t + 1, Len(Measured))
  BY <1>1 DEF Line
<1>3. Measured \in Seq(Requests) /\ Len(Measured) \in Nat
  BY LoadFacts DEF PlaceInv, PlaceOK
<1>4. s \in 0..Len(Measured) /\ t \in s..Len(Measured) /\ t \in 0..Len(Measured)
      /\ Len(Measured) \in t..Len(Measured)
  BY <1>2, <1>3
<1>5. /\ SubSeq(Measured, s + 1, t) = <<>> <=> s = t
      /\ SubSeq(Measured, t + 1, Len(Measured)) = <<>> <=> t = Len(Measured)
  <2>1. SubSeq(Measured, s + 1, t) = <<>> <=> s = t
    BY <1>3, <1>4, SliceEmpty
  <2>2. SubSeq(Measured, t + 1, Len(Measured)) = <<>> <=> t = Len(Measured)
    BY <1>3, <1>4, SliceEmpty
  <2> QED BY <2>1, <2>2
<1>6. s < t => /\ Head(SubSeq(Measured, s + 1, t)) = Measured[s + 1]
               /\ Tail(SubSeq(Measured, s + 1, t)) = SubSeq(Measured, s + 2, t)
  BY <1>3, <1>4, SliceEnds
<1>7. t < Len(Measured) => /\ Head(SubSeq(Measured, t + 1, Len(Measured))) = Measured[t + 1]
                           /\ Tail(SubSeq(Measured, t + 1, Len(Measured))) = SubSeq(Measured, t + 2, Len(Measured))
  BY <1>3, <1>4, SliceEnds
<1>8. t < Len(Measured) => Append(SubSeq(Measured, s + 1, t), Measured[t + 1]) = SubSeq(Measured, s + 1, t + 1)
  BY <1>3, <1>4, SliceGrows
<1> QED BY <1>1, <1>2, <1>5, <1>6, <1>7, <1>8

LEMMA ResumeStep == ASSUME PlaceInv, Resume PROVE PlaceInv' /\ LoopStep
<1>1. load \in Loads /\ load' = load /\ phase = "measured" /\ ready # <<>> /\ ~aborting
  BY DEF PlaceInv, PlaceOK, StartedInv, Resume, KeepIdle
<1>2. PICK m \in Nat : m = Len(Measured)
  BY <1>1, LoadFacts
<1>3. PICK s \in 0..m, t \in 0..m :
        /\ s <= t /\ Line(s, t) /\ StartsAre(lifecycle, s)
        /\ ready = <<>> <=> s = t
        /\ s < t => Head(ready) = Measured[s + 1] /\ Tail(ready) = SubSeq(Measured, s + 2, t)
        /\ waiting = <<>> <=> t = Len(Measured)
  BY <1>1, <1>2, InLine
<1>4. s < t /\ s \in Nat /\ s + 1 \in 1..m /\ t \in Nat /\ s + 1 <= t /\ (s + 1) + 1 = s + 2
  BY <1>1, <1>3
<1>5. /\ Measured \in Seq(Requests) /\ \A i \in 1..m : Measured[i] \in Range(Measured)
      /\ \A r \in Range(Measured) : \E i \in 1..m : r = Measured[i]
      /\ \A i, j \in 1..m : Measured[i] = Measured[j] => i = j
      /\ Range(Measured) \subseteq Requests /\ Warmup \notin Range(Measured) /\ Warmup \in Requests
  BY <1>1, <1>2, LoadFacts
<1>6. PICK r \in Range(Measured) : r = Head(ready) /\ r = Measured[s + 1]
  BY <1>3, <1>4, <1>5
<1>7. /\ client' = [client EXCEPT ![r] = "sending"] /\ ready' = Tail(ready)
      /\ LogLifecycle("CLIENT_REQUEST_STARTED", <<r>>)
      /\ UNCHANGED <<phase, permits, waiting, aborting>>
  BY <1>6 DEF Resume, KeepIdle
<1>8. /\ Measured' = Measured /\ Planned' = Planned /\ lifecycle \in Seq(Lifecycle)
      /\ client \in [Requests -> States] /\ r \in Requests /\ r # Warmup
  BY <1>1, <1>5, SameLoad DEF PlaceInv, PlaceOK, LogInv
<1>9. client[r] = "granted"
  <2>1. client[Measured[s + 1]] \in IF s + 1 <= s THEN InFlight \cup {"ended"}
                                    ELSE IF s + 1 <= t THEN {"granted"} ELSE {"queued"}
    BY <1>2, <1>3, <1>4 DEF Line
  <2> QED BY <1>4, <1>6, <2>1
<1>10. /\ client'[r] = "sending" /\ client' \in [Requests -> States]
       /\ \A c \in Requests \ {r} : client'[c] = client[c]
  BY <1>7, <1>8 DEF States, InFlight
<1>11. /\ lifecycle' \in Seq(Lifecycle)
       /\ \A c : Mentioned(c)' <=> Mentioned(c) \/ c = r
       /\ \A c : Ended(c)' <=> Ended(c)
       /\ StartsAre(lifecycle, s + 1)'
  <2> DEFINE k == "CLIENT_REQUEST_STARTED"
  <2>1. LogLifecycle(k, <<r>>) /\ k \in {"CLIENT_REQUEST_STARTED", "CLIENT_REQUEST_ENDED"}
        /\ k = "CLIENT_REQUEST_STARTED"
    BY <1>7
  <2> HIDE DEF k
  <2>2. /\ lifecycle' \in Seq(Lifecycle)
        /\ \A c : Mentioned(c)' <=> Mentioned(c) \/ c = r
        /\ \A c : Ended(c)' <=> Ended(c) \/ (k = "CLIENT_REQUEST_ENDED" /\ c = r)
        /\ \A n \in Nat : StartsAre(lifecycle, n) /\ k = "CLIENT_REQUEST_STARTED" /\ r # Warmup
                          /\ r = Measured[n + 1] => StartsAre(lifecycle, n + 1)'
    BY <1>1, <1>8, <2>1, LoggedOne
  <2>3. StartsAre(lifecycle, s + 1)'
    BY <1>3, <1>4, <1>6, <1>8, <2>1, <2>2
  <2> QED BY <2>1, <2>2, <2>3
<1>12. ready' = SubSeq(Measured, s + 2, t) /\ ready' \in Seq(Requests)
  <2>1. ready \in Seq(Requests) /\ ready # <<>>
    BY <1>1 DEF PlaceInv, PlaceOK
  <2>2. Tail(ready) \in Seq(Requests)
    BY <2>1, HeadTailProperties
  <2> QED BY <1>3, <1>4, <1>7, <2>2
<1>13. PlaceOK'
  BY <1>1, <1>7, <1>10, <1>12 DEF PlaceInv, PlaceOK
<1>14. ClientInv'
  <2>1. r \in Planned /\ Warmup \in Planned
    BY <1>6 DEF Planned
  <2> QED BY <1>1, <1>5, <1>7, <1>8, <1>10, <2>1 DEF PlaceInv, ClientInv
<1>15. PermitInv'
  <2>1. Holders' = Holders
    BY <1>5, <1>8, <1>9, <1>10 DEF Holders, Holding, InFlight
  <2> QED BY <1>7, <2>1 DEF PlaceInv, PermitInv
<1>16. LogInv'
  <2>1. ~Mentioned(r) /\ ~Ended(r)
    BY <1>8, <1>9 DEF PlaceInv, LogInv, Mentioned, Ended, Event
  <2> QED BY <1>8, <1>10, <1>11, <2>1 DEF PlaceInv, LogInv, InFlight
<1>17. Line(s + 1, t)'
  <2>1. ASSUME NEW i \in 1..m
        PROVE  client'[Measured[i]] \in IF i <= s + 1 THEN InFlight \cup {"ended"}
                                        ELSE IF i <= t THEN {"granted"} ELSE {"queued"}
    <3>1. client[Measured[i]] \in IF i <= s THEN InFlight \cup {"ended"}
                                  ELSE IF i <= t THEN {"granted"} ELSE {"queued"}
      BY <1>2, <1>3 DEF Line
    <3>2. CASE i = s + 1
      BY <1>6, <1>10, <3>2 DEF InFlight
    <3>3. CASE i # s + 1
      <4>1. Measured[i] \in Requests \ {r} /\ (i <= s + 1 <=> i <= s)
        BY <1>4, <1>5, <1>6, <3>3
      <4> QED BY <1>10, <3>1, <4>1
    <3> QED BY <3>2, <3>3
  <2>2. ready' = SubSeq(Measured', (s + 1) + 1, t) /\ waiting' = SubSeq(Measured', t + 1, Len(Measured'))
    BY <1>3, <1>4, <1>7, <1>8, <1>12 DEF Line
  <2>3. \A i \in 1..Len(Measured') :
          client'[Measured'[i]] \in IF i <= s + 1 THEN InFlight \cup {"ended"}
                                    ELSE IF i <= t THEN {"granted"} ELSE {"queued"}
    BY <1>2, <1>8, <2>1
  <2> QED BY <1>4, <2>2, <2>3 DEF Line
<1>18. StartedInv'
  <2>1. s + 1 \in 0..Len(Measured') /\ t \in 0..Len(Measured') /\ ~aborting' /\ phase' = "measured"
    BY <1>1, <1>2, <1>4, <1>7, <1>8
  <2> QED BY <1>11, <1>17, <2>1 DEF StartedInv
<1>19. PlaceInv'
  BY <1>13, <1>14, <1>15, <1>16, <1>18 DEF PlaceInv
<1>20. LoopStep
  <2>1. \A j \in (s + 1)..(s + 1) : j = s + 1 /\ client'[Measured[j]] \in InFlight
    BY <1>4, <1>6, <1>10 DEF InFlight
  <2>2. \A c \in Requests : client[c] \in InFlight => client'[c] \in InFlight
    BY <1>10 DEF InFlight
  <2>3. \A c : Mentioned(c)' <=> Mentioned(c) \/ \E j \in (s + 1)..(s + 1) : c = Measured[j]
    BY <1>4, <1>6, <1>11, <2>1
  <2>4. s + 1 \in Nat /\ s < s + 1 /\ s + 1 <= Len(Measured)
    BY <1>2, <1>4
  <2> QED BY <1>1, <1>3, <1>4, <1>11, <1>19, <2>1, <2>2, <2>3, <2>4, LoopStarts
<1> QED BY <1>19, <1>20

\* The end of a request is logged; somebody may be handed its permit.
LEMMA EndLogged ==
  ASSUME PlaceInv, NEW r \in Requests, client[r] \in InFlight, load' = load,
         LogLifecycle("CLIENT_REQUEST_ENDED", <<r>>), client'[r] = "ended",
         \A c \in Requests \ {r} : client'[c] = client[c] \/ (client[c] = "queued" /\ client'[c] = "granted")
  PROVE  LogInv' /\ (\A n : StartsAre(lifecycle, n) => StartsAre(lifecycle, n)') /\ LoopStep
<1>1. lifecycle \in Seq(Lifecycle) /\ load \in Loads
  BY DEF PlaceInv, PlaceOK, LogInv
<1>2. /\ lifecycle' \in Seq(Lifecycle)
      /\ \A c : Mentioned(c)' <=> Mentioned(c) \/ c = r
      /\ \A c : Ended(c)' <=> Ended(c) \/ c = r
      /\ \A n : StartsAre(lifecycle, n) => StartsAre(lifecycle, n)'
  <2> DEFINE k == "CLIENT_REQUEST_ENDED"
  <2>1. LogLifecycle(k, <<r>>) /\ k \in {"CLIENT_REQUEST_STARTED", "CLIENT_REQUEST_ENDED"}
        /\ k = "CLIENT_REQUEST_ENDED"
    OBVIOUS
  <2> HIDE DEF k
  <2>2. /\ lifecycle' \in Seq(Lifecycle)
        /\ \A c : Mentioned(c)' <=> Mentioned(c) \/ c = r
        /\ \A c : Ended(c)' <=> Ended(c) \/ (k = "CLIENT_REQUEST_ENDED" /\ c = r)
        /\ \A n : StartsAre(lifecycle, n) /\ (k = "CLIENT_REQUEST_ENDED" \/ r = Warmup)
                    => StartsAre(lifecycle, n)'
    BY <1>1, <2>1, LoggedOne
  <2> QED BY <2>1, <2>2
<1>3. ASSUME NEW c \in Requests
      PROVE  /\ client'[c] \in {"new", "queued", "granted"} => ~Mentioned(c)'
             /\ client'[c] \in InFlight => Mentioned(c)' /\ ~Ended(c)'
             /\ client'[c] = "ended" => Ended(c)'
  <2>1. /\ client[c] \in {"new", "queued", "granted"} => ~Mentioned(c)
        /\ client[c] \in InFlight => Mentioned(c) /\ ~Ended(c)
        /\ client[c] = "ended" => Ended(c)
    BY DEF PlaceInv, LogInv
  <2>2. CASE c = r
    BY <1>2, <2>2 DEF InFlight
  <2>3. CASE c # r
    BY <1>2, <2>1, <2>3 DEF InFlight
  <2> QED BY <2>2, <2>3
<1>4. LoopStep
  BY <1>2, LoopStutters, LoopEnds
<1> QED BY <1>2, <1>3, <1>4 DEF LogInv

LEMMA CloseWarmupStep == ASSUME PlaceInv, Close(Warmup) PROVE PlaceInv' /\ LoopStep
<1>1. /\ client[Warmup] \in {"draining", "closing"} /\ phase' = "created"
      /\ client' = [client EXCEPT ![Warmup] = "ended"]
      /\ LogLifecycle("CLIENT_REQUEST_ENDED", <<Warmup>>)
      /\ UNCHANGED <<aborting, ready, waiting, permits, load>>
  BY DEF Close, taskVars
<1>2. /\ load \in Loads /\ client \in [Requests -> States] /\ Measured' = Measured /\ Planned' = Planned
  BY <1>1, SameLoad DEF PlaceInv, PlaceOK
<1>3. /\ Range(Measured) \subseteq Requests /\ Warmup \notin Range(Measured) /\ Warmup \in Requests
      /\ Warmup \in Planned
  BY <1>2, LoadFacts DEF Planned
<1>4. /\ client'[Warmup] = "ended" /\ client' \in [Requests -> States]
      /\ \A c \in Requests \ {Warmup} : client'[c] = client[c]
  BY <1>1, <1>2, <1>3 DEF States, InFlight
<1>5. phase = "warmup" /\ client[Warmup] \in InFlight
  BY <1>1 DEF PlaceInv, ClientInv, InFlight
<1>6. LogInv' /\ LoopStep /\ \A n : StartsAre(lifecycle, n) => StartsAre(lifecycle, n)'
  BY <1>1, <1>3, <1>4, <1>5, EndLogged
<1>7. PlaceOK'
  BY <1>1, <1>4 DEF PlaceInv, PlaceOK, Phases
<1>8. ClientInv'
  BY <1>1, <1>2, <1>3, <1>4, <1>5 DEF PlaceInv, ClientInv
<1>9. PermitInv'
  <2>1. Holders' = Holders
    BY <1>2, <1>3, <1>4 DEF Holders
  <2> QED BY <1>1, <2>1 DEF PlaceInv, PermitInv
<1>10. StartedInv'
  BY <1>1, <1>2, <1>5, <1>6 DEF PlaceInv, StartedInv
<1> QED BY <1>6, <1>7, <1>8, <1>9, <1>10 DEF PlaceInv

\* What every end of a measured request has in common.
LEMMA ClosingFacts ==
  ASSUME PlaceInv, NEW r \in Requests, r # Warmup, Close(r)
  PROVE  /\ r \in Range(Measured) /\ client[r] \in InFlight /\ (phase = "measured" \/ aborting) /\ r \in Holders
         /\ LogLifecycle("CLIENT_REQUEST_ENDED", <<r>>)
         /\ UNCHANGED <<phase, aborting, load, Measured, Planned>>
         /\ load \in Loads /\ client \in [Requests -> States]
<1>1. client[r] \in InFlight
  BY DEF Close, InFlight
<1>2. r \in Range(Measured)
  <2>1. r \in Planned
    BY <1>1 DEF PlaceInv, ClientInv, InFlight
  <2> QED BY <2>1 DEF Planned
<1>3. (phase = "measured" \/ aborting) /\ r \in Holders
  BY <1>1, <1>2 DEF PlaceInv, ClientInv, InFlight, Holders, Holding
<1>4. LogLifecycle("CLIENT_REQUEST_ENDED", <<r>>) /\ UNCHANGED <<phase, aborting, load>>
  BY DEF Close
<1> QED BY <1>1, <1>2, <1>3, <1>4, SameLoad DEF PlaceInv, PlaceOK

\* Nobody queues: the permit is free again.
LEMMA CloseLastStep ==
  ASSUME PlaceInv, NEW r \in Requests, r # Warmup, Close(r), waiting = <<>>
  PROVE  PlaceInv' /\ LoopStep
<1>1. /\ r \in Range(Measured) /\ client[r] \in InFlight /\ (phase = "measured" \/ aborting) /\ r \in Holders
      /\ LogLifecycle("CLIENT_REQUEST_ENDED", <<r>>)
      /\ UNCHANGED <<phase, aborting, load, Measured, Planned>>
      /\ load \in Loads /\ client \in [Requests -> States]
  BY ClosingFacts
<1>2. /\ permits' = permits + 1 /\ UNCHANGED <<ready, waiting>>
      /\ client' = [c \in Requests |-> IF c = r THEN "ended" ELSE client[c]]
  BY DEF Close, Release
<1>3. /\ client'[r] = "ended" /\ client' \in [Requests -> States]
      /\ \A c \in Requests \ {r} : client'[c] = client[c]
  BY <1>1, <1>2 DEF States
<1>4. /\ Range(Measured) \subseteq Requests /\ Warmup \notin Range(Measured) /\ Warmup \in Requests
      /\ Range(Measured) \subseteq Planned /\ \A i \in 1..Len(Measured) : Measured[i] \in Requests
  BY <1>1, LoadFacts DEF Planned
<1>5. LogInv' /\ LoopStep /\ \A n : StartsAre(lifecycle, n) => StartsAre(lifecycle, n)'
  BY <1>1, <1>3, EndLogged
<1>6. PlaceOK'
  BY <1>1, <1>2, <1>3 DEF PlaceInv, PlaceOK
<1>7. ClientInv'
  BY <1>1, <1>3, <1>4 DEF PlaceInv, ClientInv
<1>8. PermitInv'
  <2>1. Holders' = Holders \ {r}
    BY <1>1, <1>3, <1>4 DEF Holders, Holding, InFlight
  <2>2. IsFiniteSet(Holders) /\ Cardinality(Holders) \in Nat
    BY <1>1, HoldersFinite
  <2>3. Cardinality(Holders \ {r}) = Cardinality(Holders) - 1
    BY <1>1, <2>2, FS_RemoveElement
  <2>4. Concurrency \in Nat /\ permits \in Nat /\ permits + Cardinality(Holders) = Concurrency
    BY FixtureAssumption DEF PlaceInv, PermitInv, FixtureAssumption
  <2> QED BY <1>2, <2>1, <2>2, <2>3, <2>4 DEF PermitInv
<1>9. \A s, t \in 0..Len(Measured) : Line(s, t) => Line(s, t)'
  <2> TAKE s, t \in 0..Len(Measured)
  <2> HAVE Line(s, t)
  <2>1. ASSUME NEW i \in 1..Len(Measured)
        PROVE  client'[Measured[i]] \in IF i <= s THEN InFlight \cup {"ended"}
                                        ELSE IF i <= t THEN {"granted"} ELSE {"queued"}
    <3>1. client[Measured[i]] \in IF i <= s THEN InFlight \cup {"ended"}
                                  ELSE IF i <= t THEN {"granted"} ELSE {"queued"}
      BY DEF Line
    <3>2. CASE Measured[i] = r
      BY <1>1, <1>3, <3>1, <3>2 DEF InFlight
    <3>3. CASE Measured[i] # r
      BY <1>3, <1>4, <3>1, <3>3
    <3> QED BY <3>2, <3>3
  <2> QED BY <1>1, <1>2, <2>1 DEF Line
<1>10. StartedInv'
  BY <1>1, <1>2, <1>5, <1>9 DEF PlaceInv, StartedInv
<1> QED BY <1>5, <1>6, <1>7, <1>8, <1>10 DEF PlaceInv

\* The permit goes to the first in the queue.
LEMMA CloseHandsOverStep ==
  ASSUME PlaceInv, NEW r \in Requests, r # Warmup, Close(r), waiting # <<>>
  PROVE  PlaceInv' /\ LoopStep
<1>1. /\ r \in Range(Measured) /\ client[r] \in InFlight /\ (phase = "measured" \/ aborting) /\ r \in Holders
      /\ LogLifecycle("CLIENT_REQUEST_ENDED", <<r>>)
      /\ UNCHANGED <<phase, aborting, load, Measured, Planned>>
      /\ load \in Loads /\ client \in [Requests -> States]
  BY ClosingFacts
<1>2. ~aborting
  BY DEF PlaceInv, StartedInv, PlaceOK
<1>3. PICK m \in Nat : m = Len(Measured)
  BY <1>1, LoadFacts
<1>4. /\ Measured \in Seq(Requests) /\ \A i \in 1..m : Measured[i] \in Range(Measured)
      /\ \A i, j \in 1..m : Measured[i] = Measured[j] => i = j
      /\ Range(Measured) \subseteq Requests /\ Warmup \notin Range(Measured) /\ Warmup \in Requests
      /\ Range(Measured) \subseteq Planned
  BY <1>1, <1>3, LoadFacts DEF Planned
<1>5. PICK s \in 0..m, t \in 0..m :
        /\ s <= t /\ Line(s, t) /\ StartsAre(lifecycle, s)
        /\ waiting = <<>> <=> t = Len(Measured)
        /\ t < Len(Measured) => /\ Head(waiting) = Measured[t + 1]
                                /\ Tail(waiting) = SubSeq(Measured, t + 2, Len(Measured))
                                /\ Append(ready, Head(waiting)) = SubSeq(Measured, s + 1, t + 1)
  BY <1>1, <1>2, <1>3, InLine
<1>6. t < m /\ t \in Nat /\ s \in Nat /\ t + 1 \in 1..m /\ s <= t + 1 /\ (t + 1) + 1 = t + 2 /\ ~(t + 1 <= s)
      /\ ~(t + 1 <= t)
  BY <1>3, <1>5
<1>7. PICK h \in Range(Measured) : h = Head(waiting) /\ h = Measured[t + 1]
  BY <1>3, <1>4, <1>5, <1>6
<1>8. /\ ready' = Append(ready, h) /\ waiting' = Tail(waiting) /\ UNCHANGED permits
      /\ client' = [c \in Requests |-> IF c = r THEN "ended" ELSE IF c = h THEN "granted" ELSE client[c]]
  BY <1>7 DEF Close, Release
<1>9. client[h] = "queued" /\ h # r
  <2>1. client[Measured[t + 1]] \in IF t + 1 <= s THEN InFlight \cup {"ended"}
                                    ELSE IF t + 1 <= t THEN {"granted"} ELSE {"queued"}
    BY <1>3, <1>5, <1>6 DEF Line
  <2> QED BY <1>1, <1>6, <1>7, <2>1 DEF InFlight
<1>10. /\ client'[r] = "ended" /\ client'[h] = "granted" /\ client' \in [Requests -> States]
       /\ \A c \in Requests \ {r, h} : client'[c] = client[c]
  BY <1>1, <1>4, <1>8, <1>9 DEF States
<1>11. LogInv' /\ LoopStep /\ \A n : StartsAre(lifecycle, n) => StartsAre(lifecycle, n)'
  <2>1. \A c \in Requests \ {r} : client'[c] = client[c] \/ (client[c] = "queued" /\ client'[c] = "granted")
    BY <1>9, <1>10
  <2> QED BY <1>1, <1>10, <2>1, EndLogged
<1>12. ready' = SubSeq(Measured, s + 1, t + 1) /\ waiting' = SubSeq(Measured, t + 2, m)
  BY <1>3, <1>5, <1>6, <1>7, <1>8
<1>13. ready' \in Seq(Requests) /\ waiting' \in Seq(Requests)
  <2>1. ready \in Seq(Requests) /\ waiting \in Seq(Requests) /\ h \in Requests /\ waiting # <<>>
    BY <1>4 DEF PlaceInv, PlaceOK
  <2>2. Append(ready, h) \in Seq(Requests)
    BY <2>1, AppendProperties
  <2>3. Tail(waiting) \in Seq(Requests)
    BY <2>1, HeadTailProperties
  <2> QED BY <1>8, <2>2, <2>3
<1>14. PlaceOK'
  BY <1>1, <1>10, <1>13 DEF PlaceInv, PlaceOK
<1>15. ClientInv'
  BY <1>1, <1>2, <1>4, <1>10 DEF PlaceInv, ClientInv
<1>16. PermitInv'
  <2>1. Holders' = (Holders \ {r}) \cup {h} /\ h \notin Holders \ {r}
    BY <1>1, <1>4, <1>9, <1>10 DEF Holders, Holding, InFlight
  <2>2. IsFiniteSet(Holders) /\ Cardinality(Holders) \in Nat
    BY <1>1, HoldersFinite
  <2>3. IsFiniteSet(Holders \ {r}) /\ Cardinality(Holders \ {r}) = Cardinality(Holders) - 1
    BY <1>1, <2>2, FS_RemoveElement
  <2>4. Cardinality((Holders \ {r}) \cup {h}) = Cardinality(Holders \ {r}) + 1
    BY <2>1, <2>3, FS_AddElement
  <2>5. permits = 0 /\ permits + Cardinality(Holders) = Concurrency /\ permits \in Nat
    BY DEF PlaceInv, PermitInv
  <2>6. Cardinality(Holders') = Cardinality(Holders)
    BY <2>1, <2>2, <2>3, <2>4
  <2> QED BY <1>8, <2>5, <2>6 DEF PermitInv
<1>17. Line(s, t + 1)'
  <2>1. ASSUME NEW i \in 1..m
        PROVE  client'[Measured[i]] \in IF i <= s THEN InFlight \cup {"ended"}
                                        ELSE IF i <= t + 1 THEN {"granted"} ELSE {"queued"}
    <3>1. client[Measured[i]] \in IF i <= s THEN InFlight \cup {"ended"}
                                  ELSE IF i <= t THEN {"granted"} ELSE {"queued"}
      BY <1>3, <1>5 DEF Line
    <3>2. CASE i = t + 1
      BY <1>6, <1>7, <1>10, <3>2
    <3>3. CASE i # t + 1 /\ Measured[i] = r
      BY <1>1, <1>10, <3>1, <3>3 DEF InFlight
    <3>4. CASE i # t + 1 /\ Measured[i] # r
      <4>1. Measured[i] \in Requests \ {r, h} /\ (i <= t + 1 <=> i <= t)
        BY <1>4, <1>6, <1>7, <3>4
      <4> QED BY <1>10, <3>1, <4>1
    <3> QED BY <3>2, <3>3, <3>4
  <2>2. ready' = SubSeq(Measured', s + 1, t + 1) /\ waiting' = SubSeq(Measured', (t + 1) + 1, Len(Measured'))
    BY <1>1, <1>3, <1>6, <1>12
  <2>3. \A i \in 1..Len(Measured') :
          client'[Measured'[i]] \in IF i <= s THEN InFlight \cup {"ended"}
                                    ELSE IF i <= t + 1 THEN {"granted"} ELSE {"queued"}
    BY <1>1, <1>3, <2>1
  <2> QED BY <1>6, <2>2, <2>3 DEF Line
<1>18. StartedInv'
  <2>1. s \in 0..Len(Measured') /\ t + 1 \in 0..Len(Measured') /\ ~aborting' /\ phase' = "measured"
    BY <1>1, <1>2, <1>3, <1>6
  <2>2. StartsAre(lifecycle, s)'
    BY <1>5, <1>11
  <2> QED BY <1>17, <2>1, <2>2 DEF StartedInv
<1> QED BY <1>11, <1>14, <1>15, <1>16, <1>18 DEF PlaceInv

\* A cancellation that the warmup takes for its own outcome.
LEMMA WarmupCaught ==
  ASSUME PlaceInv, Interrupt, phase = "warmup", client[Warmup] \in {"sending", "reading", "draining"}
  PROVE  GoesOn(Warmup)
<1> DEFINE awaited == CASE phase = "warmup" -> {Warmup} [] phase = "measured" -> Range(Measured) [] OTHER -> {}
           caught == {r \in awaited : client[r] \in {"sending", "reading", "draining"}}
           lost == {r \in awaited : client[r] \in {"new", "queued", "granted", "closing"}}
           held == {r \in lost \ {Warmup} : client[r] \in {"granted", "closing"}}
<1>1. caught = {Warmup} /\ lost = {} /\ held = {}
  OBVIOUS
<1>2. /\ client' = [r \in Requests |-> IF r \in caught THEN "closing" ELSE IF r \in lost THEN "abandoned" ELSE client[r]]
      /\ (phase = "warmup" /\ caught # {} => UNCHANGED <<phase, aborting, ready>>)
      /\ permits' = permits + Cardinality(held) /\ waiting' = <<>> /\ UNCHANGED <<lifecycle, load>>
  BY DEF Interrupt, logVars
<1> HIDE DEF caught, lost, held
<1>3. client \in [Requests -> States] /\ waiting = <<>> /\ permits \in Nat
  BY DEF PlaceInv, PlaceOK, StartedInv, PermitInv
<1>4. client' = [client EXCEPT ![Warmup] = "closing"]
  BY <1>1, <1>2, <1>3
<1>5. UNCHANGED <<phase, aborting, taskVars, lifecycle, load>>
  <2>1. permits' = permits
    BY <1>1, <1>2, <1>3, FS_EmptySet
  <2> QED BY <1>1, <1>2, <1>3, <2>1 DEF taskVars
<1> QED BY <1>4, <1>5 DEF GoesOn, InFlight

\* A cancellation that ends the run: every task closes its response or is abandoned, and its
\* permit is free again.
LEMMA AbortStep ==
  ASSUME PlaceInv, Interrupt, ~(phase = "warmup" /\ client[Warmup] \in {"sending", "reading", "draining"})
  PROVE  PlaceInv'
<1> DEFINE awaited == CASE phase = "warmup" -> {Warmup} [] phase = "measured" -> Range(Measured) [] OTHER -> {}
           caught == {r \in awaited : client[r] \in {"sending", "reading", "draining"}}
           lost == {r \in awaited : client[r] \in {"new", "queued", "granted", "closing"}}
           held == {r \in lost \ {Warmup} : client[r] \in {"granted", "closing"}}
<1>1. phase = "warmup" => caught = {}
  OBVIOUS
<1>2. /\ client' = [r \in Requests |-> IF r \in caught THEN "closing" ELSE IF r \in lost THEN "abandoned" ELSE client[r]]
      /\ aborting' = TRUE /\ ready' = <<>> /\ waiting' = <<>>
      /\ phase' = IF phase = "warmup" THEN "stopping" ELSE phase
      /\ phase \in {"warmup", "measured", "stopping"}
      /\ permits' = permits + Cardinality(held) /\ UNCHANGED <<lifecycle, load>>
  BY <1>1 DEF Interrupt, logVars
<1>3. /\ load \in Loads /\ client \in [Requests -> States] /\ Measured' = Measured /\ Planned' = Planned
  BY <1>2, SameLoad DEF PlaceInv, PlaceOK
<1>4. /\ Range(Measured) \subseteq Requests /\ Warmup \notin Range(Measured) /\ Warmup \in Requests
      /\ Planned = {Warmup} \cup Range(Measured)
  BY <1>3, LoadFacts DEF Planned
<1>5. \A r \in Requests :
        client'[r] = IF r \in awaited
                       THEN IF client[r] \in {"sending", "reading", "draining"} THEN "closing"
                            ELSE IF client[r] \in {"new", "queued", "granted", "closing"} THEN "abandoned"
                            ELSE client[r]
                       ELSE client[r]
  BY <1>2
<1>6. client' \in [Requests -> States]
  BY <1>2, <1>3 DEF States, InFlight
<1>7. PlaceOK'
  BY <1>2, <1>3, <1>6 DEF PlaceInv, PlaceOK, Phases
<1>8. ClientInv'
  <2>1. \A r \in Requests \ Planned : client'[r] = "new"
    <3>1. awaited \subseteq Planned
      BY <1>4
    <3> QED BY <1>5, <3>1 DEF PlaceInv, ClientInv
  <2>2. client'[Warmup] \in {"ended", "abandoned"} /\ phase' \in {"measured", "stopping"}
    <3>1. CASE phase = "warmup"
      <4>1. client[Warmup] \in {"new", "closing"} /\ Warmup \in awaited
        BY <3>1 DEF PlaceInv, ClientInv, InFlight
      <4> QED BY <1>2, <1>4, <1>5, <3>1, <4>1
    <3>2. CASE phase # "warmup"
      <4>1. client[Warmup] \in {"ended", "abandoned"} /\ Warmup \notin awaited
        BY <1>4, <3>2 DEF PlaceInv, ClientInv
      <4> QED BY <1>2, <1>4, <1>5, <3>2, <4>1
    <3> QED BY <3>1, <3>2
  <2>3. ASSUME NEW r \in Range(Measured)
        PROVE  /\ phase' = "measured" => client'[r] # "new"
               /\ client'[r] \in {"new", "closing", "ended", "abandoned"}
    <3>1. r \in Requests /\ r # Warmup
      BY <1>4
    <3>2. CASE phase = "warmup"
      <4>1. client[r] = "new" /\ r \notin awaited
        BY <3>1, <3>2 DEF PlaceInv, ClientInv
      <4> QED BY <1>2, <1>5, <3>1, <3>2, <4>1
    <3>3. CASE phase = "measured"
      <4>1. r \in awaited /\ client[r] # "new" /\ client[r] \in States
        BY <1>3, <3>1, <3>3 DEF PlaceInv, ClientInv
      <4>2. client'[r] = IF client[r] \in {"sending", "reading", "draining"} THEN "closing"
                         ELSE IF client[r] \in {"new", "queued", "granted", "closing"} THEN "abandoned"
                         ELSE client[r]
        BY <1>5, <3>1, <4>1
      <4> HIDE DEF awaited
      <4> QED BY <4>1, <4>2 DEF States, InFlight
    <3>4. CASE phase = "stopping"
      <4>1. r \notin awaited /\ client'[r] = client[r] /\ phase' = phase
        BY <1>2, <1>5, <3>1, <3>4
      <4>2. client[r] \in {"new", "closing", "ended", "abandoned"}
        BY <3>4 DEF PlaceInv, PlaceOK, ClientInv
      <4> QED BY <3>4, <4>1, <4>2
    <3> QED BY <1>2, <3>2, <3>3, <3>4
  <2> HIDE DEF awaited, caught, lost, held
  <2> QED BY <1>2, <1>3, <2>1, <2>2, <2>3 DEF ClientInv
<1>9. PermitInv'
  <2>1. ASSUME NEW r \in Range(Measured) PROVE client'[r] \in Holding <=> client[r] \in Holding /\ r \notin held
    <3>1. r \in Requests /\ r # Warmup
      BY <1>4
    <3>2. CASE phase = "warmup"
      <4>1. client[r] = "new" /\ r \notin awaited
        BY <3>1, <3>2 DEF PlaceInv, ClientInv
      <4> QED BY <1>5, <3>1, <4>1 DEF Holding, InFlight
    <3>3. CASE phase = "measured"
      <4>1. r \in awaited
        BY <3>3
      <4>2. r \in held <=> client[r] \in {"granted", "closing"}
        BY <3>1, <4>1
      <4>3. client'[r] = IF client[r] \in {"sending", "reading", "draining"} THEN "closing"
                         ELSE IF client[r] \in {"new", "queued", "granted", "closing"} THEN "abandoned"
                         ELSE client[r]
        BY <1>5, <3>1, <4>1
      <4> HIDE DEF awaited, held
      <4> QED BY <4>2, <4>3 DEF Holding, InFlight
    <3>4. CASE phase = "stopping"
      <4>1. r \notin awaited /\ r \notin held /\ client'[r] = client[r]
        BY <1>5, <3>1, <3>4
      <4> QED BY <4>1
    <3> QED BY <1>2, <3>2, <3>3, <3>4
  <2>2. held \subseteq Range(Measured) /\ \A r \in held : client[r] \in Holding
    BY <1>4 DEF Holding, InFlight
  <2> HIDE DEF held
  <2>3. Holders' = Holders \ held /\ Holders \cap held = held
    BY <1>3, <2>1, <2>2 DEF Holders
  <2>4. IsFiniteSet(Holders) /\ Cardinality(Holders) \in Nat
    BY <1>3, HoldersFinite
  <2>5. Cardinality(Holders \ held) = Cardinality(Holders) - Cardinality(held)
    BY <2>3, <2>4, FS_Difference
  <2>6. held \subseteq Holders
    BY <2>3
  <2>7. Cardinality(held) \in Nat /\ Cardinality(held) <= Cardinality(Holders)
    BY <2>4, <2>6, FS_Subset, FS_CardinalityType
  <2>8. permits \in Nat /\ permits + Cardinality(Holders) = Concurrency
    BY DEF PlaceInv, PermitInv
  <2> QED BY <1>2, <2>3, <2>4, <2>5, <2>7, <2>8 DEF PermitInv
<1>10. LogInv'
  <2>1. ASSUME NEW r \in Requests
        PROVE  /\ client'[r] \in {"new", "queued", "granted"} => ~Mentioned(r)'
               /\ client'[r] \in InFlight => Mentioned(r)' /\ ~Ended(r)'
               /\ client'[r] = "ended" => Ended(r)'
    <3>1. (Mentioned(r)' <=> Mentioned(r)) /\ (Ended(r)' <=> Ended(r))
      BY <1>2 DEF Mentioned, Ended
    <3>2. /\ client[r] \in {"new", "queued", "granted"} => ~Mentioned(r)
          /\ client[r] \in InFlight => Mentioned(r) /\ ~Ended(r)
          /\ client[r] = "ended" => Ended(r)
      BY DEF PlaceInv, LogInv
    <3>3. \/ client'[r] = client[r] \/ client'[r] = "abandoned"
          \/ client'[r] = "closing" /\ client[r] \in InFlight
      BY <1>5 DEF InFlight
    <3> QED BY <3>1, <3>2, <3>3 DEF InFlight
  <2> QED BY <1>2, <2>1 DEF PlaceInv, LogInv
<1>11. StartedInv'
  <2>1. \E n \in 0..Len(Measured) : StartsAre(lifecycle, n)
    BY DEF PlaceInv, StartedInv
  <2> HIDE DEF awaited, caught, lost, held
  <2> QED BY <1>2, <1>3, <2>1, SameLoad DEF StartedInv
<1> QED BY <1>7, <1>8, <1>9, <1>10, <1>11 DEF PlaceInv

LEMMA Step == ASSUME PlaceInv, [Next]_vars PROVE PlaceInv' /\ LoopStep
<1>1. ASSUME UNCHANGED <<lifecycle, load>> PROVE LoopStep
  <2>1. \A n : StartsAre(lifecycle, n) => StartsAre(lifecycle, n)'
    BY <1>1, SameLoad
  <2>2. \A c : (Mentioned(c)' <=> Mentioned(c)) /\ (Ended(c)' <=> Ended(c))
    BY <1>1 DEF Mentioned, Ended
  <2>3. lifecycle' \in Seq(Lifecycle)
    BY <1>1 DEF PlaceInv, LogInv
  <2> QED BY <1>1, <2>1, <2>2, <2>3, LoopStutters
<1>2. CASE UNCHANGED vars
  BY <1>1, <1>2, NothingMoves DEF vars, clientVars, logVars
<1>3. CASE StartWarmup \/ StartTasks \/ Resume
  BY <1>3, StartWarmupStep, StartTasksStep, ResumeStep
<1>4. CASE Gathered \/ Stopped
  <2>1. UNCHANGED <<lifecycle, load>>
    BY <1>4 DEF Gathered, Stopped, KeepRun, logVars
  <2> QED BY <1>1, <1>4, <2>1, StoppingStep
<1>5. CASE Interrupt
  <2>1. Warmup \in Requests
    BY DEF Requests
  <2>2. UNCHANGED <<lifecycle, load>>
    BY <1>5 DEF Interrupt, logVars
  <2> QED BY <1>1, <1>5, <2>1, <2>2, WarmupCaught, GoingOn, AbortStep
<1>6. ASSUME NEW r \in Requests, Client(r) \/ Timeout(r) PROVE PlaceInv' /\ LoopStep
  <2>1. CASE Close(r)
    BY <2>1, CloseWarmupStep, CloseLastStep, CloseHandsOverStep
  <2>2. CASE ReadHead(r) \/ ReadChunk(r) \/ ReadEof(r) \/ ReadReset(r) \/ Timeout(r)
    <3>1. GoesOn(r)
      BY <2>2, ReadersGoOn
    <3>2. UNCHANGED <<lifecycle, load>>
      BY <3>1 DEF GoesOn
    <3> QED BY <1>1, <3>1, <3>2, GoingOn
  <2> QED BY <1>6, <2>1, <2>2 DEF Client
<1>7. ASSUME NEW r \in Requests, Server(r) PROVE PlaceInv' /\ LoopStep
  BY <1>1, <1>7, ServerMovesNobody, NothingMoves
<1> QED BY <1>2, <1>3, <1>4, <1>5, <1>6, <1>7 DEF Next, Runner

-----------------------------------------------------------------------------
(* The theorems                                                             *)

LEMMA InitIInv == Init => IInv /\ Loop!Init
<1> SUFFICES ASSUME Init PROVE IInv /\ Loop!Init
  OBVIOUS
<1> USE DEF Init
<1>1. load \in Loads /\ Concurrency \in Nat /\ load.upsets \in Nat /\ Len(Measured) \in Nat
      /\ Range(Measured) \subseteq Requests
  BY LoadFacts, FixtureAssumption DEF FixtureAssumption
<1>2. RestOK
  BY <1>1, Codecs DEF RestOK
<1>3. PlaceOK
  BY <1>1, EmptySeq DEF PlaceOK, Phases, States
<1>4. ClientInv
  BY <1>1 DEF ClientInv, Planned, Requests
<1>5. PermitInv
  <2>1. Holders = {}
    BY <1>1 DEF Holders, Holding, InFlight
  <2> QED BY <1>1, <2>1, FS_EmptySet DEF PermitInv
<1>6. DOMAIN lifecycle = {} /\ lifecycle \in Seq(Lifecycle) /\ Len(lifecycle) = 0
  BY EmptySeq
<1>7. LogInv
  BY <1>6 DEF LogInv, Mentioned, Ended, InFlight
<1>8. StartPositions(lifecycle) = {} /\ Cardinality(StartPositions(lifecycle)) = 0
  BY <1>6, FS_EmptySet DEF StartPositions
<1>9. StartsAre(lifecycle, 0)
  BY <1>8 DEF StartsAre
<1>10. StartedInv
  BY <1>1, <1>9 DEF StartedInv
<1>11. Loop!Init
  <2>1. StartedOf(lifecycle) = <<>>
    <3>1. StartedOf(lifecycle) = SubSeq(Measured, 1, 0)
      <4>1. 0 \in 0..Len(Measured)
        BY <1>1
      <4>2. PICK log \in Seq(Lifecycle) : log = lifecycle
        BY <1>6
      <4>3. StartsAre(log, 0)
        BY ONLY <1>9, <4>2
      <4>4. StartedOf(log) = SubSeq(Measured, 1, 0)
        BY ONLY <1>1, <4>1, <4>2, <4>3, StartedIs
      <4> QED BY ONLY <4>2, <4>4
    <3> QED BY <1>1, <3>1, SubSeqEmpty
  <2>2. ActiveAfter(lifecycle, Len(lifecycle)) = {}
    BY <1>6 DEF ActiveAfter
  <2> QED BY <2>1, <2>2 DEF Loop!Init
<1> QED BY <1>2, <1>3, <1>4, <1>5, <1>7, <1>10, <1>11 DEF IInv, PlaceInv

\* Every state of a run, whatever is slow, fails or is cancelled: who holds a permit, who queues
\* and what the lifecycle log says of each request fit together (execute_load_case, the semaphore).
THEOREM Invariant == Spec => []IInv
<1>1. Init => IInv
  BY InitIInv
<1>2. IInv /\ [Next]_vars => IInv'
  BY StepRest, Step DEF IInv
<1> QED BY <1>1, <1>2, PTL DEF Spec

\* The semaphore's value stays between zero and the requested concurrency, and the slow reads and
\* cancellations within their bound, besides the types of the rest.
THEOREM TypeCorrect == Spec => []TypeOK
<1>1. IInv => TypeOK
  <2> SUFFICES ASSUME IInv PROVE TypeOK
    OBVIOUS
  <2>1. permits \in 0..Concurrency
    <3>1. Cardinality(Holders) \in Nat
      BY HoldersFinite DEF IInv, PlaceInv, PlaceOK
    <3>2. permits \in Nat /\ permits + Cardinality(Holders) = Concurrency
      BY DEF IInv, PlaceInv, PermitInv
    <3>3. Concurrency \in Nat
      BY FixtureAssumption DEF FixtureAssumption
    <3> QED BY <3>1, <3>2, <3>3
  <2> QED BY <2>1 DEF IInv, PlaceInv, RestOK, PlaceOK, TypeOK, States
<1> QED BY <1>1, Invariant, PTL

\* The run implements the closed loop: the measured requests start in their declared order, each
\* once, and at most Concurrency of them have started and not ended.
THEOREM Refinement == Spec => ImplementsClosedLoop
<1>1. Init => Loop!Init
  BY InitIInv
<1>2. IInv /\ [Next]_vars => [Loop!Next]_(Loop!vars)
  BY Step DEF IInv, LoopStep
<1> QED BY <1>1, <1>2, Invariant, PTL DEF Spec, ImplementsClosedLoop, Loop!Spec

-----------------------------------------------------------------------------
(* What a run retains: the second invariant                                 *)

\* The events of the two logs of a request.
EventKinds == {"CLIENT_REQUEST_STARTED", "RAW_BODY_CHUNK", "SSE_COMMENT", "SSE_TOKEN_EVENT", "SSE_DONE",
               "REQUEST_TERMINAL", "CLIENT_REQUEST_ENDED",
               "REQUEST_ACCEPTED", "HTTP_ERROR_SENT", "RESPONSE_HEADERS_SENT", "SENT", "STALL_STARTED",
               "CLIENT_DISCONNECTED", "REQUEST_HANDLER_ENDED"}
Subject == Frames \cup Kinds \cup {"text", "none"}
Entries == Events(EventKinds)

\* The token counts of frames, and how many events of a kind a log has.
TokensOf(fs) == [i \in DOMAIN fs |-> Tokens(fs[i])]
Count(events, k) == Len(Recorded(events, k))
Shown(events) == Subjects(Recorded(events, "SSE_TOKEN_EVENT"))
Unstarted == {"new", "queued", "granted"}

\* Nothing the validator fails to parse, and nothing but comments after [DONE].
Tidy(raw) ==
  /\ Range(raw) \cap {"notJson", "notTokens"} = {}
  /\ \A i, j \in DOMAIN raw : i < j /\ raw[i] = "done" => raw[j] = "comment"

\* What a client at await c, with status s, outcome k and token counts d, has logged in e.
Told(c, s, k, d, e) ==
  /\ e \in Seq(Entries)
  /\ TokensOf(Shown(e)) = d
  /\ c \in Unstarted => e = <<>> /\ s = "none" /\ k = "NONE"
  /\ c \notin Unstarted => /\ e # <<>> /\ e[1].kind = "CLIENT_REQUEST_STARTED"
                           /\ Count(e, "CLIENT_REQUEST_STARTED") = 1
  /\ Count(e, "REQUEST_TERMINAL") = IF c = "ended" THEN 1 ELSE 0
  /\ Count(e, "CLIENT_REQUEST_ENDED") = IF c = "ended" THEN 1 ELSE 0
  /\ c = "ended" => SubSeq(e, Len(e) - 1, Len(e)) =
                      <<Event("REQUEST_TERMINAL", k), Event("CLIENT_REQUEST_ENDED", "none")>>
  /\ Count(e, "SSE_DONE") = IF s = "ok" /\ "done" \in Range(Raw(e)) THEN 1 ELSE 0
  /\ s = "none" => Raw(e) = <<>> /\ d = <<>>
  /\ c = "sending" => s = "none" /\ k = "NONE"
  /\ c = "reading" => s # "none" /\ k = "NONE"
  /\ s = "ok" /\ k = "NONE" => Shapes(Raw(e)) = d /\ Tidy(Raw(e))
  /\ c \in {"draining", "closing", "ended"} /\ k = "NONE" => s = "ok" /\ "done" \in Range(Raw(e))
  /\ k = "PROTOCOL_MALFORMED_STREAM" => s = "ok"

\* What a client has taken of a response, and what its handler has written of it: taken is a
\* piece of written, and the wire has the next one and then the end.
Taken(s, e) == IF s = "none" THEN <<>> ELSE <<"ok">> \o Raw(e)
Written(v) == <<"ok">> \o Subjects(Recorded(v, "SENT"))
Begins(taken, written) == \A i \in 1..Len(taken) : i <= Len(written) /\ taken[i] = written[i]
Continues(taken, wired, written, open) ==
  /\ \A i \in 1..Len(wired) :
       IF Len(taken) + i <= Len(written) THEN wired[i] = written[Len(taken) + i]
                                         ELSE wired[i] \in {"eof", "reset"}
  /\ open => Len(taken) + Len(wired) = Len(written)

\* What the handler h of a request has logged in v, and how its client, at await c, with status
\* s and log e, and the wire w between them go with that; good says that it sends a stream.
Kept(c, s, e, w, h, v, good) ==
  /\ v \in Seq(Entries)
  /\ h = "new" => v = <<>> /\ w = <<>> /\ s = "none"
  /\ h # "new" => v # <<>> /\ v[1].kind = "REQUEST_ACCEPTED"
  /\ Count(v, "REQUEST_HANDLER_ENDED") = IF h = "done" THEN 1 ELSE 0
  /\ h = "done" => Last(v).kind = "REQUEST_HANDLER_ENDED"
  /\ c \in Unstarted => h = "new"
  /\ ~good => s # "ok" /\ w \in Seq({"error", "text", "eof"}) /\ h \in {"new", "done"}
  /\ good => /\ s # "error" /\ w \in Seq(Frames \cup {"ok", "eof", "reset"})
             /\ h # "new" => Begins(Taken(s, e), Written(v))
             /\ h # "new" /\ c \in {"sending", "reading"} =>
                  Continues(Taken(s, e), w, Written(v), h # "done")

\* What is retained of a request, unless the run is aborted and it with it.
Retained(r) ==
  /\ client[r] # "abandoned" =>
       /\ Told(client[r], status[r], kind[r], deltas[r], evidence[r])
       /\ Kept(client[r], status[r], evidence[r], wire[r], handler[r], served[r], Script[r][1] # "httpError")
  /\ r \in gone => client[r] \in {"ended", "abandoned"}
TableInv ==
  /\ DOMAIN evidence = Requests /\ DOMAIN wire = Requests /\ DOMAIN served = Requests
  /\ \A r \in Requests : Retained(r)

\* The lifecycle log is one the validator accepts, up to the requests that are running.
Ordered(log) ==
  /\ \A i, j \in DOMAIN log : i # j => log[i] # log[j]
  /\ \A j \in DOMAIN log : log[j].kind = "CLIENT_REQUEST_ENDED" =>
       \E i \in 1..(j - 1) : log[i] = Event("CLIENT_REQUEST_STARTED", log[j].of)
Bounded(log) == \A n \in DOMAIN log : Cardinality(ActiveAfter(log, n)) <= Concurrency
LifecycleInv == Ordered(lifecycle) /\ (~aborting => Bounded(lifecycle))

\* A run that is not aborted stops when its requests have ended, and is over when their handlers
\* have.
StopInv ==
  /\ phase \notin {"warmup", "created", "measured"} /\ ~aborting =>
       \A r \in Planned : client[r] = "ended"
  /\ Over => ~aborting /\ \A r \in Requests : handler[r] \in {"new", "done"}
  /\ phase = "refused" => ~BundleValid

RetainedInv == TableInv /\ LifecycleInv /\ StopInv

-----------------------------------------------------------------------------
(* What is recorded of a request                                            *)

LEMMA EntryFacts ==
  /\ \A k \in EventKinds, o \in Subject : Event(k, o) \in Entries
  /\ \A e \in Entries : e.kind \in EventKinds /\ e.of \in Subject /\ e = Event(e.kind, e.of)
  /\ \A e \in Entries, k \in EventKinds : e \in Events({k}) <=> e.kind = k
BY DEF Entries, Events, Event, Subject

LEMMA NewEvent ==
  /\ \A k \in EventKinds, o \in Subject : \E x \in Entries : x = Event(k, o) /\ x.kind = k /\ x.of = o
  /\ \A k \in EventKinds : \E x \in Entries : x = Event0(k) /\ x.kind = k
<1>1. \A k, o : Event(k, o).kind = k /\ Event(k, o).of = o
  BY DEF Event
<1>2. "none" \in Subject /\ \A k : Event0(k) = Event(k, "none")
  BY DEF Subject, Event0
<1> QED BY <1>1, <1>2, EntryFacts

\* One more event adds to what is recorded of its kind.
LEMMA RecordedAppend ==
  ASSUME NEW e \in Seq(Entries), NEW x \in Entries, NEW k \in EventKinds
  PROVE  /\ Recorded(e, k) \in Seq(Entries)
         /\ Recorded(Append(e, x), k) = IF x.kind = k THEN Append(Recorded(e, k), x) ELSE Recorded(e, k)
<1>1. Recorded(e, k) \in Seq(Events({k}) \cap Entries)
  BY SelectType DEF Recorded
<1>2. Recorded(e, k) \in Seq(Entries)
  <2>1. Events({k}) \cap Entries \subseteq Entries
    OBVIOUS
  <2> QED BY <1>1, <2>1, SeqMonotonic
<1>3. x \in Events({k}) <=> x.kind = k
  BY EntryFacts
<1>4. Recorded(Append(e, x), k) = IF x \in Events({k}) THEN Append(Recorded(e, k), x) ELSE Recorded(e, k)
  BY SelectAppend DEF Recorded
<1> QED BY <1>2, <1>3, <1>4

LEMMA CountAppend ==
  ASSUME NEW e \in Seq(Entries), NEW x \in Entries, NEW k \in EventKinds
  PROVE  /\ Count(e, k) \in Nat
         /\ Count(Append(e, x), k) = IF x.kind = k THEN Count(e, k) + 1 ELSE Count(e, k)
<1>1. /\ Recorded(e, k) \in Seq(Entries)
      /\ Recorded(Append(e, x), k) = IF x.kind = k THEN Append(Recorded(e, k), x) ELSE Recorded(e, k)
  BY RecordedAppend
<1>2. PICK q \in Seq(Entries) : q = Recorded(e, k)
  BY <1>1
<1>3. Len(q) \in Nat /\ Len(Append(q, x)) = Len(q) + 1
  BY AppendProperties, LenProperties
<1> QED BY <1>1, <1>2, <1>3 DEF Count

\* The subjects of a log, and the token counts of frames, one by one.
LEMMA SubjectsAppend ==
  ASSUME NEW e \in Seq(Entries), NEW x \in Entries
  PROVE  Subjects(e) \in Seq(Subject) /\ Subjects(Append(e, x)) = Append(Subjects(e), x.of)
<1>1. /\ Append(e, x) \in Seq(Entries) /\ Len(Append(e, x)) = Len(e) + 1 /\ Append(e, x)[Len(e) + 1] = x
      /\ \A i \in 1..Len(e) : Append(e, x)[i] = e[i]
  BY AppendProperties
<1>2. Len(e) \in Nat /\ DOMAIN e = 1..Len(e) /\ DOMAIN Append(e, x) = 1..(Len(e) + 1)
  BY <1>1, LenProperties
<1>3. x.of \in Subject /\ \A i \in 1..Len(e) : e[i].of \in Subject
  <2>1. \A i \in 1..Len(e) : e[i] \in Entries
    BY ElementOfSeq
  <2> QED BY <2>1, EntryFacts
<1>4. Subjects(e) \in [1..Len(e) -> Subject]
  BY <1>2, <1>3 DEF Subjects
<1>5. Subjects(e) \in Seq(Subject) /\ Len(Subjects(e)) = Len(e)
  BY <1>2, <1>4, SeqIntro
<1>6. /\ Append(Subjects(e), x.of) \in Seq(Subject) /\ Len(Append(Subjects(e), x.of)) = Len(e) + 1
      /\ Append(Subjects(e), x.of)[Len(e) + 1] = x.of
      /\ \A i \in 1..Len(e) : Append(Subjects(e), x.of)[i] = Subjects(e)[i]
  <2>1. PICK s \in Seq(Subject) : s = Subjects(e)
    BY <1>5
  <2>2. /\ Append(s, x.of) \in Seq(Subject) /\ Len(Append(s, x.of)) = Len(s) + 1
        /\ Append(s, x.of)[Len(s) + 1] = x.of
        /\ \A i \in 1..Len(s) : Append(s, x.of)[i] = s[i]
    BY <1>3, AppendProperties
  <2> QED BY <1>5, <2>1, <2>2
<1>7. Subjects(Append(e, x)) \in [1..(Len(e) + 1) -> Subject]
  <2>1. \A i \in 1..(Len(e) + 1) : Append(e, x)[i].of \in Subject
    <3>1. \A i \in 1..(Len(e) + 1) : i \in 1..Len(e) \/ i = Len(e) + 1
      BY <1>2
    <3> QED BY <1>1, <1>3, <3>1
  <2> QED BY <1>2, <2>1 DEF Subjects
<1>8. Subjects(Append(e, x)) \in Seq(Subject) /\ Len(Subjects(Append(e, x))) = Len(e) + 1
  BY <1>2, <1>7, SeqIntro
<1>9. \A i \in 1..(Len(e) + 1) : Subjects(Append(e, x))[i] = Append(Subjects(e), x.of)[i]
  <2>1. \A i \in 1..(Len(e) + 1) : i \in 1..Len(e) \/ i = Len(e) + 1
    BY <1>2
  <2>2. \A i \in 1..Len(e) : Subjects(e)[i] = e[i].of
    BY <1>2 DEF Subjects
  <2>3. \A i \in 1..(Len(e) + 1) : Subjects(Append(e, x))[i] = Append(e, x)[i].of
    BY <1>2 DEF Subjects
  <2> QED BY <1>1, <1>6, <2>1, <2>2, <2>3
<1>10. Subjects(Append(e, x)) = Append(Subjects(e), x.of)
  <2>1. PICK a \in Seq(Subject) : a = Subjects(Append(e, x))
    BY <1>8
  <2>2. PICK b \in Seq(Subject) : b = Append(Subjects(e), x.of)
    BY <1>6
  <2>3. a = b
    BY ONLY <1>6, <1>8, <1>9, <2>1, <2>2, SeqEqual
  <2> QED BY <2>1, <2>2, <2>3
<1> QED BY <1>5, <1>10

LEMMA TokensAppend ==
  ASSUME NEW q \in Seq(Subject), NEW f \in Subject
  PROVE  TokensOf(q) \in Seq(Nat) /\ TokensOf(Append(q, f)) = Append(TokensOf(q), Tokens(f))
<1>1. /\ Append(q, f) \in Seq(Subject) /\ Len(Append(q, f)) = Len(q) + 1 /\ Append(q, f)[Len(q) + 1] = f
      /\ \A i \in 1..Len(q) : Append(q, f)[i] = q[i]
  BY AppendProperties
<1>2. Len(q) \in Nat /\ DOMAIN q = 1..Len(q) /\ DOMAIN Append(q, f) = 1..(Len(q) + 1)
  BY <1>1, LenProperties
<1>3. \A g : Tokens(g) \in Nat
  BY Codecs
<1>4. TokensOf(q) \in [1..Len(q) -> Nat] /\ TokensOf(Append(q, f)) \in [1..(Len(q) + 1) -> Nat]
  BY <1>2, <1>3 DEF TokensOf
<1>5. TokensOf(q) \in Seq(Nat) /\ Len(TokensOf(q)) = Len(q)
      /\ TokensOf(Append(q, f)) \in Seq(Nat) /\ Len(TokensOf(Append(q, f))) = Len(q) + 1
  <2>1. Len(q) + 1 \in Nat
    BY <1>2
  <2>2. PICK c \in [1..Len(q) -> Nat] : c = TokensOf(q)
    BY <1>4
  <2>3. PICK d \in [1..(Len(q) + 1) -> Nat] : d = TokensOf(Append(q, f))
    BY <1>4
  <2>4. c \in Seq(Nat) /\ Len(c) = Len(q)
    BY ONLY <1>2, SeqIntro
  <2>5. d \in Seq(Nat) /\ Len(d) = Len(q) + 1
    BY ONLY <2>1, SeqIntro
  <2> QED BY <2>2, <2>3, <2>4, <2>5
<1>6. PICK a \in Seq(Nat) : a = TokensOf(q)
  BY <1>5
<1>7. PICK b \in Seq(Nat) : b = TokensOf(Append(q, f))
  BY <1>5
<1>8. /\ Append(a, Tokens(f)) \in Seq(Nat) /\ Len(Append(a, Tokens(f))) = Len(a) + 1
      /\ Append(a, Tokens(f))[Len(a) + 1] = Tokens(f)
      /\ \A i \in 1..Len(a) : Append(a, Tokens(f))[i] = a[i]
  BY <1>3, AppendProperties
<1>9. \A i \in 1..(Len(q) + 1) : b[i] = Append(a, Tokens(f))[i]
  <2>1. \A i \in 1..(Len(q) + 1) : i \in 1..Len(q) \/ i = Len(q) + 1
    BY <1>2
  <2>2. \A i \in 1..Len(q) : a[i] = Tokens(q[i])
    BY <1>2, <1>6 DEF TokensOf
  <2>3. \A i \in 1..(Len(q) + 1) : b[i] = Tokens(Append(q, f)[i])
    BY <1>2, <1>7 DEF TokensOf
  <2> QED BY <1>1, <1>5, <1>6, <1>8, <2>1, <2>2, <2>3
<1>10. b = Append(a, Tokens(f))
  <2>1. PICK c \in Seq(Nat) : c = Append(a, Tokens(f))
    BY <1>8
  <2>2. b = c
    BY ONLY <1>5, <1>6, <1>7, <1>8, <1>9, <2>1, SeqEqual
  <2> QED BY <2>1, <2>2
<1> QED BY <1>5, <1>6, <1>7, <1>10

\* What the log has of the frames: the raw chunks, and the token frames that were parsed.
LEMMA FramesAppend ==
  ASSUME NEW e \in Seq(Entries), NEW x \in Entries
  PROVE  /\ Raw(e) \in Seq(Subject) /\ TokensOf(Shown(e)) \in Seq(Nat)
         /\ Raw(Append(e, x)) = IF x.kind = "RAW_BODY_CHUNK" THEN Append(Raw(e), x.of) ELSE Raw(e)
         /\ TokensOf(Shown(Append(e, x))) =
              IF x.kind = "SSE_TOKEN_EVENT" THEN Append(TokensOf(Shown(e)), Tokens(x.of)) ELSE TokensOf(Shown(e))
<1>1. ASSUME NEW k \in EventKinds
      PROVE  /\ Subjects(Recorded(e, k)) \in Seq(Subject)
             /\ Subjects(Recorded(Append(e, x), k)) =
                  IF x.kind = k THEN Append(Subjects(Recorded(e, k)), x.of) ELSE Subjects(Recorded(e, k))
  <2>1. /\ Recorded(e, k) \in Seq(Entries)
        /\ Recorded(Append(e, x), k) = IF x.kind = k THEN Append(Recorded(e, k), x) ELSE Recorded(e, k)
    BY RecordedAppend
  <2> QED BY <2>1, SubjectsAppend
<1>2. x.of \in Subject
  BY EntryFacts
<1>3. /\ Raw(e) \in Seq(Subject)
      /\ Raw(Append(e, x)) = IF x.kind = "RAW_BODY_CHUNK" THEN Append(Raw(e), x.of) ELSE Raw(e)
  <2>1. "RAW_BODY_CHUNK" \in EventKinds
    BY DEF EventKinds
  <2>2. /\ Subjects(Recorded(e, "RAW_BODY_CHUNK")) \in Seq(Subject)
        /\ Subjects(Recorded(Append(e, x), "RAW_BODY_CHUNK")) =
             IF x.kind = "RAW_BODY_CHUNK" THEN Append(Subjects(Recorded(e, "RAW_BODY_CHUNK")), x.of)
                                          ELSE Subjects(Recorded(e, "RAW_BODY_CHUNK"))
    BY ONLY <1>1, <2>1
  <2> QED BY ONLY <2>2 DEF Raw
<1>4. /\ Shown(e) \in Seq(Subject)
      /\ Shown(Append(e, x)) = IF x.kind = "SSE_TOKEN_EVENT" THEN Append(Shown(e), x.of) ELSE Shown(e)
  <2>1. "SSE_TOKEN_EVENT" \in EventKinds
    BY DEF EventKinds
  <2>2. /\ Subjects(Recorded(e, "SSE_TOKEN_EVENT")) \in Seq(Subject)
        /\ Subjects(Recorded(Append(e, x), "SSE_TOKEN_EVENT")) =
             IF x.kind = "SSE_TOKEN_EVENT" THEN Append(Subjects(Recorded(e, "SSE_TOKEN_EVENT")), x.of)
                                           ELSE Subjects(Recorded(e, "SSE_TOKEN_EVENT"))
    BY ONLY <1>1, <2>1
  <2> QED BY ONLY <2>2 DEF Shown
<1>5. TokensOf(Shown(e)) \in Seq(Nat)
      /\ TokensOf(Append(Shown(e), x.of)) = Append(TokensOf(Shown(e)), Tokens(x.of))
  BY <1>2, <1>4, TokensAppend
<1> QED BY <1>3, <1>4, <1>5

LEMMA NothingRecorded ==
  /\ \A k : Recorded(<<>>, k) = <<>> /\ Count(<<>>, k) = 0
  /\ Raw(<<>>) = <<>> /\ Shown(<<>>) = <<>> /\ TokensOf(<<>>) = <<>> /\ Shapes(<<>>) = <<>>
<1>1. DOMAIN <<>> = {} /\ Len(<<>>) = 0
  BY EmptySeq
<1>2. \A k : Recorded(<<>>, k) = <<>>
  BY SelectNone DEF Recorded
<1>3. Subjects(<<>>) = <<>> /\ TokensOf(<<>>) = <<>>
  BY <1>1 DEF Subjects, TokensOf
<1>4. Shapes(<<>>) = TokensOf(Select(<<>>, Data))
  BY DEF Shapes, TokensOf
<1> QED BY <1>1, <1>2, <1>3, <1>4, SelectNone DEF Count, Raw, Shown

\* The token frames the validator finds in the raw chunks.
LEMMA ShapesAppend ==
  ASSUME NEW q \in Seq(Subject), NEW f \in Subject
  PROVE  Shapes(Append(q, f)) = IF f \in Data THEN Append(Shapes(q), Tokens(f)) ELSE Shapes(q)
<1>1. \A s : Shapes(s) = TokensOf(Select(s, Data))
  BY DEF Shapes, TokensOf
<1>2. Select(Append(q, f), Data) = IF f \in Data THEN Append(Select(q, Data), f) ELSE Select(q, Data)
  BY SelectAppend
<1>3. Select(q, Data) \in Seq(Subject)
  <2>1. Select(q, Data) \in Seq(Data \cap Subject) /\ Data \cap Subject \subseteq Subject
    BY SelectType
  <2> QED BY <2>1, SeqMonotonic
<1> QED BY <1>1, <1>2, <1>3, TokensAppend

\* What a longer sequence has at its places.
LEMMA RangeAppend ==
  ASSUME NEW S, NEW q \in Seq(S), NEW f \in S
  PROVE  /\ Range(Append(q, f)) = Range(q) \cup {f} /\ Range(q) \subseteq S
         /\ Len(q) \in Nat /\ DOMAIN q = 1..Len(q) /\ DOMAIN Append(q, f) = 1..(Len(q) + 1)
         /\ Append(q, f)[Len(q) + 1] = f /\ \A i \in 1..Len(q) : Append(q, f)[i] = q[i]
<1>1. /\ Append(q, f) \in Seq(S) /\ Len(Append(q, f)) = Len(q) + 1 /\ Append(q, f)[Len(q) + 1] = f
      /\ \A i \in 1..Len(q) : Append(q, f)[i] = q[i]
  BY AppendProperties
<1>2. Len(q) \in Nat /\ DOMAIN q = 1..Len(q) /\ DOMAIN Append(q, f) = 1..(Len(q) + 1)
  BY <1>1, LenProperties
<1>3. \A i \in 1..Len(q) : q[i] \in S
  BY ElementOfSeq
<1>4. \A i \in 1..(Len(q) + 1) : i \in 1..Len(q) \/ i = Len(q) + 1
  BY <1>2
<1>5. Range(Append(q, f)) \subseteq Range(q) \cup {f}
  BY <1>1, <1>2, <1>4 DEF Range
<1>6. Range(q) \cup {f} \subseteq Range(Append(q, f))
  BY <1>1, <1>2 DEF Range
<1> QED BY <1>1, <1>2, <1>3, <1>5, <1>6 DEF Range

-----------------------------------------------------------------------------
(* What a client logs                                                       *)

\* One more event, for everything that is said of a log.
LEMMA OneMore ==
  ASSUME NEW e \in Seq(Entries), NEW x \in Entries
  PROVE  /\ e \o <<x>> = Append(e, x) /\ Append(e, x) \in Seq(Entries) /\ Append(e, x) # <<>>
         /\ Append(e, x)[1] = IF e = <<>> THEN x ELSE e[1]
         /\ Last(Append(e, x)) = x
         /\ \A k \in EventKinds : /\ Count(e, k) \in Nat
                                  /\ Count(Append(e, x), k) = IF x.kind = k THEN Count(e, k) + 1 ELSE Count(e, k)
<1>1. /\ Append(e, x) \in Seq(Entries) /\ Append(e, x) # <<>> /\ Len(Append(e, x)) = Len(e) + 1
      /\ \A i \in 1..Len(e) : Append(e, x)[i] = e[i]
      /\ Append(e, x)[Len(e) + 1] = x
  BY AppendProperties
<1>2. Len(e) \in Nat /\ (e = <<>> <=> Len(e) = 0)
  BY LenProperties, EmptySeq
<1>3. Append(e, x)[1] = IF e = <<>> THEN x ELSE e[1]
  <2>1. CASE e = <<>>
    BY <1>1, <1>2, <2>1
  <2>2. CASE e # <<>>
    <3>1. 1 \in 1..Len(e)
      BY <1>2, <2>2
    <3> QED BY <1>1, <2>2, <3>1
  <2> QED BY <2>1, <2>2
<1>4. Last(Append(e, x)) = x
  BY <1>1 DEF Last
<1>5. e \o <<x>> = Append(e, x)
  BY AppendIsConcat
<1> QED BY <1>1, <1>3, <1>4, <1>5, CountAppend

LEMMA TwoMore ==
  ASSUME NEW e \in Seq(Entries), NEW x \in Entries, NEW y \in Entries
  PROVE  /\ e \o <<x, y>> = Append(Append(e, x), y) /\ <<x>> \o <<y>> = <<x, y>>
         /\ SubSeq(e \o <<x, y>>, Len(e \o <<x, y>>) - 1, Len(e \o <<x, y>>)) = <<x, y>>
<1>1. /\ <<x, y>> \in Seq(Entries) /\ <<x>> \in Seq(Entries) /\ <<y>> \in Seq(Entries)
      /\ <<x, y>> = <<x>> \o <<y>> /\ Len(<<x, y>>) = 2
  <2>1. <<x, y>> \in Seq(Entries) /\ Len(<<x, y>>) = 2
    OBVIOUS
  <2>2. <<x>> \in Seq(Entries) /\ <<y>> \in Seq(Entries)
    OBVIOUS
  <2>3. Append(<<x>>, y) = <<x, y>>
    <3>1. Len(<<x>>) = 1 /\ <<x>>[1] = x /\ \A i \in 1..2 : i \in 1..1 \/ i = 1 + 1
      OBVIOUS
    <3>2. PICK q \in Seq(Entries) : q = <<x>>
      BY <2>2
    <3>3. /\ Append(q, y) \in Seq(Entries) /\ Len(Append(q, y)) = Len(q) + 1 /\ Append(q, y)[Len(q) + 1] = y
          /\ \A i \in 1..Len(q) : Append(q, y)[i] = q[i]
      BY AppendProperties
    <3>4. PICK a \in Seq(Entries) : a = Append(q, y)
      BY <3>3
    <3>5. Len(a) = 2 /\ a[1] = x /\ a[2] = y
      BY <3>1, <3>2, <3>3, <3>4
    <3>6. PICK b \in Seq(Entries) : b = <<x, y>>
      BY <2>1
    <3>7. Len(b) = 2 /\ b[1] = x /\ b[2] = y
      BY <2>1, <3>6
    <3>8. \A i \in 1..2 : a[i] = b[i]
      BY <3>5, <3>7
    <3>9. a = b
      BY ONLY <3>5, <3>7, <3>8, SeqEqual
    <3> QED BY <3>2, <3>4, <3>6, <3>9
  <2>4. Append(<<x>>, y) = <<x>> \o <<y>>
    BY <2>2, AppendIsConcat
  <2> QED BY <2>1, <2>2, <2>3, <2>4
<1>2. e \o <<x, y>> = (e \o <<x>>) \o <<y>>
  BY <1>1, ConcatAssociative
<1>3. e \o <<x>> = Append(e, x) /\ Append(e, x) \in Seq(Entries)
  BY OneMore
<1>4. e \o <<x, y>> = Append(Append(e, x), y)
  BY <1>2, <1>3, OneMore
<1>5. Len(e) \in Nat /\ Len(e \o <<x, y>>) = Len(e) + 2
  BY <1>1, ConcatProperties, LenProperties
<1>6. SubSeq(e \o <<x, y>>, Len(e) + 1, Len(e) + 2) = <<x, y>>
  <2> DEFINE pair == <<x, y>>
  <2>1. pair \in Seq(Entries) /\ Len(pair) = 2
    BY <1>1
  <2> HIDE DEF pair
  <2>2. SubSeq(e \o pair, Len(e) + 1, Len(e \o pair)) = pair
    <3>1. /\ e \o pair \in Seq(Entries) /\ Len(e \o pair) = Len(e) + 2
          /\ \A i \in 1..(Len(e) + Len(pair)) : (e \o pair)[i] = IF i <= Len(e) THEN e[i] ELSE pair[i - Len(e)]
      <4>1. PICK q \in Seq(Entries) : q = pair
        BY <2>1
      <4>2. /\ e \o q \in Seq(Entries) /\ Len(e \o q) = Len(e) + Len(q)
            /\ \A i \in 1..(Len(e) + Len(q)) : (e \o q)[i] = IF i <= Len(e) THEN e[i] ELSE q[i - Len(e)]
        BY ConcatProperties
      <4> QED BY <2>1, <4>1, <4>2
    <3>2. Len(e) \in 0..Len(e \o pair) /\ Len(e \o pair) \in Len(e)..Len(e \o pair)
      BY <1>5, <3>1
    <3>3. PICK s \in Seq(Entries) : s = e \o pair
      BY <3>1
    <3>4. /\ SubSeq(s, Len(e) + 1, Len(s)) \in Seq(Entries) /\ Len(SubSeq(s, Len(e) + 1, Len(s))) = Len(s) - Len(e)
          /\ \A i \in 1..(Len(s) - Len(e)) : SubSeq(s, Len(e) + 1, Len(s))[i] = s[Len(e) + i]
      BY <3>2, <3>3, Slice
    <3>5. Len(s) - Len(e) = 2
      BY <1>5, <3>1, <3>3
    <3>6. \A i \in 1..2 : s[Len(e) + i] = pair[i]
      <4> TAKE i \in 1..2
      <4>1. Len(e) + i \in 1..(Len(e) + Len(pair)) /\ ~(Len(e) + i <= Len(e)) /\ (Len(e) + i) - Len(e) = i
        BY <1>5, <2>1
      <4> QED BY <3>1, <3>3, <4>1
    <3>7. PICK t \in Seq(Entries) : t = SubSeq(s, Len(e) + 1, Len(s))
      BY <3>4
    <3>8. t = pair
      BY ONLY <2>1, <3>4, <3>5, <3>6, <3>7, SeqEqual
    <3> QED BY <3>3, <3>7, <3>8
  <2>3. Len(e \o pair) = Len(e) + 2
    BY <1>5 DEF pair
  <2> QED BY <2>2, <2>3 DEF pair
<1>7. Len(e \o <<x, y>>) - 1 = Len(e) + 1
  BY <1>5
<1> QED BY <1>1, <1>4, <1>5, <1>6, <1>7

LEMMA TellBorn == Told("new", "none", "NONE", <<>>, <<>>)
<1>1. <<>> \in Seq(Entries) /\ Range(<<>>) = {}
  BY EmptySeq DEF Range
<1> QED BY <1>1, NothingRecorded DEF Told, Unstarted

\* One that has not started has nothing to say, wherever it waits.
LEMMA TellWaiting ==
  ASSUME NEW c \in Unstarted, NEW b \in Unstarted, NEW s, NEW k, NEW d, NEW e, Told(c, s, k, d, e)
  PROVE  Told(b, s, k, d, e)
BY DEF Told, Unstarted

LEMMA TellStarted ==
  ASSUME NEW c \in Unstarted, NEW s, NEW k, NEW d, NEW e, Told(c, s, k, d, e)
  PROVE  Told("sending", s, k, d, e \o Started)
<1> DEFINE x == Event0("CLIENT_REQUEST_STARTED")
<1>1. x \in Entries /\ x.kind = "CLIENT_REQUEST_STARTED" /\ Started = <<x>>
  BY DEF Entries, Events, EventKinds, Event0, Event, Started
<1> HIDE DEF x
<1>2. e = <<>> /\ s = "none" /\ k = "NONE" /\ e \in Seq(Entries) /\ TokensOf(Shown(e)) = d /\ Raw(e) = <<>> /\ d = <<>>
  BY DEF Told
<1>3. Count(e, "CLIENT_REQUEST_STARTED") = 0 /\ Count(e, "REQUEST_TERMINAL") = 0
      /\ Count(e, "CLIENT_REQUEST_ENDED") = 0 /\ Count(e, "SSE_DONE") = 0
  BY <1>2, NothingRecorded
<1> DEFINE a == Append(e, x)
<1>4. /\ e \o Started = a /\ a \in Seq(Entries) /\ a # <<>> /\ a[1] = x
      /\ \A n \in EventKinds : Count(a, n) = IF x.kind = n THEN Count(e, n) + 1 ELSE Count(e, n)
  <2>1. /\ e \o <<x>> = Append(e, x) /\ Append(e, x) \in Seq(Entries) /\ Append(e, x) # <<>>
        /\ Append(e, x)[1] = IF e = <<>> THEN x ELSE e[1]
        /\ \A n \in EventKinds : Count(Append(e, x), n) = IF x.kind = n THEN Count(e, n) + 1 ELSE Count(e, n)
    <3>1. e \in Seq(Entries) /\ x \in Entries
      BY <1>1, <1>2
    <3> QED BY ONLY <3>1, OneMore
  <2>2. Append(e, x)[1] = x
    BY ONLY <1>2, <2>1
  <2>3. e \o Started = Append(e, x)
    BY ONLY <1>1, <2>1
  <2> QED BY ONLY <2>1, <2>2, <2>3
<1>5. Raw(a) = <<>> /\ TokensOf(Shown(a)) = d
  BY <1>1, <1>2, FramesAppend
<1> HIDE DEF a
<1>6. Count(a, "CLIENT_REQUEST_STARTED") = 1 /\ Count(a, "REQUEST_TERMINAL") = 0
      /\ Count(a, "CLIENT_REQUEST_ENDED") = 0 /\ Count(a, "SSE_DONE") = 0
  BY <1>1, <1>3, <1>4 DEF EventKinds
<1> QED BY <1>1, <1>2, <1>4, <1>5, <1>6 DEF Told, Unstarted

LEMMA TellHead ==
  ASSUME NEW s, NEW k, NEW d, NEW e, Told("sending", s, k, d, e), NEW t \in {"ok", "error"}
  PROVE  Told("reading", t, k, d, e)
<1>1. Raw(e) = <<>> /\ Range(<<>>) = {}
  BY EmptySeq DEF Told, Range
<1>2. k = "NONE" /\ Count(e, "SSE_DONE") = 0
  BY <1>1 DEF Told
<1>3. Shapes(Raw(e)) = d /\ Tidy(Raw(e))
  BY <1>1, EmptySeq, NothingRecorded DEF Told, Tidy
<1> QED BY <1>1, <1>2, <1>3 DEF Told, Unstarted

\* A failure closes the response and says why.
LEMMA TellFailure ==
  ASSUME NEW c \in {"sending", "reading", "draining"}, NEW s, NEW k, NEW d, NEW e, Told(c, s, k, d, e),
         NEW f \in {"TRANSPORT", "TIMEOUT", "CANCELLED"}
  PROVE  Told("closing", s, f, d, e)
BY DEF Told, Unstarted

LEMMA TellEof ==
  ASSUME NEW s \in {"none", "ok", "error"}, NEW k, NEW d, NEW e, Told("reading", s, k, d, e), NEW n
  PROVE  Told("draining", s, IF s = "error" THEN "HTTP_STATUS" ELSE KindAtEof(Raw(e), d, n), d, e)
<1> DEFINE f == IF s = "error" THEN "HTTP_STATUS" ELSE KindAtEof(Raw(e), d, n)
<1>1. s \in {"ok", "error"} /\ k = "NONE"
  BY DEF Told
<1>2. f = "NONE" => s = "ok" /\ "done" \in Range(Raw(e))
  BY <1>1 DEF KindAtEof
<1>3. f = "PROTOCOL_MALFORMED_STREAM" => s = "ok"
  BY <1>1
<1> HIDE DEF f
<1>4. Told("draining", s, f, d, e)
  BY <1>1, <1>2, <1>3 DEF Told, Unstarted
<1> QED BY <1>4 DEF f

\* The end of a request is recorded.
LEMMA TellEnd ==
  ASSUME NEW c \in {"draining", "closing"}, NEW s, NEW k \in Kinds, NEW d, NEW e, Told(c, s, k, d, e)
  PROVE  Told("ended", s, k, d, e \o <<Event("REQUEST_TERMINAL", k), Event0("CLIENT_REQUEST_ENDED")>>)
<1> DEFINE x == Event("REQUEST_TERMINAL", k)
           y == Event("CLIENT_REQUEST_ENDED", "none")
<1>1. /\ x \in Entries /\ x.kind = "REQUEST_TERMINAL" /\ y \in Entries /\ y.kind = "CLIENT_REQUEST_ENDED"
      /\ y = Event0("CLIENT_REQUEST_ENDED")
  BY DEF Entries, Events, EventKinds, Event0, Event
<1> HIDE DEF x, y
<1>2. e \in Seq(Entries) /\ e # <<>>
  BY DEF Told, Unstarted
<1> DEFINE a == Append(e, x)
           b == Append(a, y)
<1>3. /\ a \in Seq(Entries) /\ a # <<>> /\ a[1] = e[1]
      /\ \A n \in EventKinds : Count(a, n) = IF x.kind = n THEN Count(e, n) + 1 ELSE Count(e, n)
  BY <1>1, <1>2, OneMore
<1>4. Raw(a) = Raw(e) /\ TokensOf(Shown(a)) = TokensOf(Shown(e))
  BY <1>1, <1>2, FramesAppend
<1>5. b = e \o <<x, y>> /\ SubSeq(b, Len(b) - 1, Len(b)) = <<x, y>>
  BY <1>1, <1>2, TwoMore
<1> HIDE DEF a
<1>6. /\ b \in Seq(Entries) /\ b # <<>> /\ b[1] = e[1]
      /\ \A n \in EventKinds : Count(b, n) = IF y.kind = n THEN Count(a, n) + 1 ELSE Count(a, n)
  BY <1>1, <1>3, OneMore
<1>7. Raw(b) = Raw(e) /\ TokensOf(Shown(b)) = TokensOf(Shown(e))
  BY <1>1, <1>3, <1>4, FramesAppend
<1> HIDE DEF b
<1>8. /\ Count(b, "CLIENT_REQUEST_STARTED") = Count(e, "CLIENT_REQUEST_STARTED")
      /\ Count(b, "SSE_DONE") = Count(e, "SSE_DONE")
      /\ Count(b, "REQUEST_TERMINAL") = Count(e, "REQUEST_TERMINAL") + 1
      /\ Count(b, "CLIENT_REQUEST_ENDED") = Count(e, "CLIENT_REQUEST_ENDED") + 1
  BY <1>1, <1>3, <1>6 DEF EventKinds
<1>9. Count(b, "REQUEST_TERMINAL") = 1 /\ Count(b, "CLIENT_REQUEST_ENDED") = 1
  BY <1>8 DEF Told
<1>10. Told("ended", s, k, d, b)
  BY <1>2, <1>5, <1>6, <1>7, <1>8, <1>9 DEF Told, Unstarted, x, y
<1> QED BY <1>1, <1>5, <1>10 DEF x

\* A raw chunk is recorded before it is parsed, or not parsed.
LEMMA RawLogged ==
  ASSUME NEW e \in Seq(Entries), e # <<>>, NEW f \in Frames \cup {"text"}
  PROVE  LET a == Append(e, Event("RAW_BODY_CHUNK", f))
         IN /\ e \o <<Event("RAW_BODY_CHUNK", f)>> = a /\ a \in Seq(Entries) /\ a # <<>> /\ a[1] = e[1]
            /\ \A n \in EventKinds \ {"RAW_BODY_CHUNK"} : Count(a, n) = Count(e, n)
            /\ Raw(e) \in Seq(Subject) /\ f \in Subject
            /\ Raw(a) = Append(Raw(e), f) /\ TokensOf(Shown(a)) = TokensOf(Shown(e))
            /\ Range(Raw(a)) = Range(Raw(e)) \cup {f}
<1> DEFINE x == Event("RAW_BODY_CHUNK", f)
           a == Append(e, x)
<1>1. x \in Entries /\ x.kind = "RAW_BODY_CHUNK" /\ x.of = f /\ f \in Subject
  BY DEF Entries, Events, EventKinds, Event, Subject
<1> HIDE DEF x
<1>2. /\ e \o <<x>> = a /\ a \in Seq(Entries) /\ a # <<>> /\ a[1] = e[1]
      /\ \A n \in EventKinds : Count(a, n) = IF x.kind = n THEN Count(e, n) + 1 ELSE Count(e, n)
  BY <1>1, OneMore
<1>3. /\ Raw(e) \in Seq(Subject) /\ Raw(a) = Append(Raw(e), f) /\ TokensOf(Shown(a)) = TokensOf(Shown(e))
  BY <1>1, FramesAppend
<1>4. Range(Append(Raw(e), f)) = Range(Raw(e)) \cup {f}
  BY <1>1, <1>3, RangeAppend
<1>5. \A n \in EventKinds \ {"RAW_BODY_CHUNK"} : Count(a, n) = Count(e, n)
  BY <1>1, <1>2
<1> HIDE DEF a
<1>6. Range(Raw(a)) = Range(Raw(e)) \cup {f}
  BY <1>3, <1>4
<1> QED BY <1>1, <1>2, <1>3, <1>5, <1>6 DEF a, x

LEMMA TellText ==
  ASSUME NEW k, NEW d, NEW e, Told("reading", "error", k, d, e), NEW f \in Frames \cup {"text"}
  PROVE  Told("reading", "error", k, d, e \o <<Event("RAW_BODY_CHUNK", f)>>)
<1> DEFINE a == Append(e, Event("RAW_BODY_CHUNK", f))
<1>1. e \in Seq(Entries) /\ e # <<>>
  BY DEF Told, Unstarted
<1>2. /\ a \in Seq(Entries) /\ a # <<>> /\ a[1] = e[1] /\ TokensOf(Shown(a)) = TokensOf(Shown(e))
      /\ \A n \in EventKinds \ {"RAW_BODY_CHUNK"} : Count(a, n) = Count(e, n)
  BY <1>1, RawLogged
<1> HIDE DEF a
<1>3. /\ Count(a, "CLIENT_REQUEST_STARTED") = Count(e, "CLIENT_REQUEST_STARTED")
      /\ Count(a, "REQUEST_TERMINAL") = Count(e, "REQUEST_TERMINAL")
      /\ Count(a, "CLIENT_REQUEST_ENDED") = Count(e, "CLIENT_REQUEST_ENDED")
      /\ Count(a, "SSE_DONE") = Count(e, "SSE_DONE")
  BY <1>2 DEF EventKinds
<1>4. Told("reading", "error", k, d, a)
  BY <1>1, <1>2, <1>3 DEF Told, Unstarted
<1>5. e \o <<Event("RAW_BODY_CHUNK", f)>> = a
  BY <1>1, RawLogged DEF a
<1> QED BY <1>4, <1>5

\* A frame that is refused is no [DONE] that would be the first.
LEMMA TellRefused ==
  ASSUME NEW k, NEW d, NEW e, Told("reading", "ok", k, d, e), NEW f \in Frames,
         FrameFailure(Raw(e), f) # "NONE"
  PROVE  Told("closing", "ok", FrameFailure(Raw(e), f), d, e \o <<Event("RAW_BODY_CHUNK", f)>>)
<1> DEFINE a == Append(e, Event("RAW_BODY_CHUNK", f))
           v == FrameFailure(Raw(e), f)
<1>1. e \in Seq(Entries) /\ e # <<>>
  BY DEF Told, Unstarted
<1>2. /\ a \in Seq(Entries) /\ a # <<>> /\ a[1] = e[1] /\ TokensOf(Shown(a)) = TokensOf(Shown(e))
      /\ \A n \in EventKinds \ {"RAW_BODY_CHUNK"} : Count(a, n) = Count(e, n)
      /\ Range(Raw(a)) = Range(Raw(e)) \cup {f}
  BY <1>1, RawLogged
<1>3. v # "NONE" /\ ("done" \in Range(Raw(e)) \/ f # "done")
  BY DEF FrameFailure
<1> HIDE DEF a, v
<1>4. "done" \in Range(Raw(a)) <=> "done" \in Range(Raw(e))
  BY <1>2, <1>3
<1>5. /\ Count(a, "CLIENT_REQUEST_STARTED") = Count(e, "CLIENT_REQUEST_STARTED")
      /\ Count(a, "REQUEST_TERMINAL") = Count(e, "REQUEST_TERMINAL")
      /\ Count(a, "CLIENT_REQUEST_ENDED") = Count(e, "CLIENT_REQUEST_ENDED")
      /\ Count(a, "SSE_DONE") = Count(e, "SSE_DONE")
  BY <1>2 DEF EventKinds
<1>6. Told("closing", "ok", v, d, a)
  BY <1>1, <1>2, <1>3, <1>4, <1>5 DEF Told, Unstarted
<1>7. e \o <<Event("RAW_BODY_CHUNK", f)>> = a
  BY <1>1, RawLogged DEF a
<1> QED BY <1>6, <1>7 DEF v

\* A frame that is parsed is what the validator will make of it.
LEMMA TellParsed ==
  ASSUME NEW k, NEW d, NEW e, Told("reading", "ok", k, d, e), NEW f \in Frames,
         FrameFailure(Raw(e), f) = "NONE"
  PROVE  Told("reading", "ok", k, IF f \in Data THEN Append(d, Tokens(f)) ELSE d,
              e \o <<Event("RAW_BODY_CHUNK", f), EventOf(f)>>)
<1> DEFINE x == Event("RAW_BODY_CHUNK", f)
           y == EventOf(f)
           a == Append(e, x)
           b == Append(a, y)
           q == Raw(e)
           n == IF f \in Data THEN Append(d, Tokens(f)) ELSE d
<1>1. e \in Seq(Entries) /\ e # <<>> /\ TokensOf(Shown(e)) = d /\ k = "NONE" /\ Shapes(q) = d /\ Tidy(q)
  BY DEF Told, Unstarted
<1>2. /\ a \in Seq(Entries) /\ a # <<>> /\ a[1] = e[1]
      /\ \A m \in EventKinds \ {"RAW_BODY_CHUNK"} : Count(a, m) = Count(e, m)
      /\ q \in Seq(Subject) /\ f \in Subject /\ Raw(a) = Append(q, f) /\ TokensOf(Shown(a)) = d
      /\ Range(Raw(a)) = Range(q) \cup {f}
  BY <1>1, RawLogged
<1>3. /\ x \in Entries /\ y \in Entries /\ y.of = f
      /\ y.kind = (IF f = "comment" THEN "SSE_COMMENT" ELSE IF f = "done" THEN "SSE_DONE" ELSE "SSE_TOKEN_EVENT")
  BY DEF EventOf, Entries, Events, EventKinds, Event
<1>4. f \in Data <=> y.kind = "SSE_TOKEN_EVENT"
  BY <1>3 DEF Frames, Data
<1>5. f \notin {"notJson", "notTokens"} /\ ("done" \in Range(q) => f = "comment")
  BY DEF FrameFailure
<1>6. e \o <<x, y>> = b
  BY <1>1, <1>3, TwoMore
<1> HIDE DEF x, y, a
<1>7. /\ b \in Seq(Entries) /\ b # <<>> /\ b[1] = a[1]
      /\ \A m \in EventKinds : Count(b, m) = IF y.kind = m THEN Count(a, m) + 1 ELSE Count(a, m)
  BY <1>2, <1>3, OneMore
<1>8. Raw(b) = Raw(a) /\ TokensOf(Shown(b)) = n
  <2>1. /\ Raw(b) = IF y.kind = "RAW_BODY_CHUNK" THEN Append(Raw(a), y.of) ELSE Raw(a)
        /\ TokensOf(Shown(b)) = IF y.kind = "SSE_TOKEN_EVENT" THEN Append(TokensOf(Shown(a)), Tokens(y.of))
                                ELSE TokensOf(Shown(a))
    BY <1>2, <1>3, FramesAppend
  <2> HIDE DEF b
  <2> QED BY <1>2, <1>3, <1>4, <2>1
<1>9. Shapes(Raw(a)) = n
  BY <1>1, <1>2, ShapesAppend
<1> HIDE DEF b
<1>10. Tidy(Raw(a))
  <2>1. /\ Len(q) \in Nat /\ DOMAIN q = 1..Len(q) /\ DOMAIN Raw(a) = 1..(Len(q) + 1)
        /\ Raw(a)[Len(q) + 1] = f /\ \A i \in 1..Len(q) : Raw(a)[i] = q[i]
    BY <1>2, RangeAppend
  <2>2. Range(Raw(a)) \cap {"notJson", "notTokens"} = {}
    BY <1>1, <1>2, <1>5 DEF Tidy
  <2>3. ASSUME NEW i \in DOMAIN Raw(a), NEW j \in DOMAIN Raw(a), i < j, Raw(a)[i] = "done"
        PROVE  Raw(a)[j] = "comment"
    <3>1. i \in 1..Len(q) /\ q[i] = "done"
      BY <2>1, <2>3
    <3>2. "done" \in Range(q)
      BY <2>1, <3>1 DEF Range
    <3>3. CASE j = Len(q) + 1
      BY <1>5, <2>1, <3>2, <3>3
    <3>4. CASE j # Len(q) + 1
      <4>1. j \in 1..Len(q)
        BY <2>1, <3>4
      <4> QED BY <1>1, <2>1, <2>3, <3>1, <4>1 DEF Tidy
    <3> QED BY <3>3, <3>4
  <2> HIDE DEF q
  <2> QED BY <2>2, <2>3 DEF Tidy
<1>11. /\ Count(b, "CLIENT_REQUEST_STARTED") = Count(e, "CLIENT_REQUEST_STARTED")
       /\ Count(b, "REQUEST_TERMINAL") = Count(e, "REQUEST_TERMINAL")
       /\ Count(b, "CLIENT_REQUEST_ENDED") = Count(e, "CLIENT_REQUEST_ENDED")
       /\ Count(b, "SSE_DONE") = IF f = "done" THEN Count(e, "SSE_DONE") + 1 ELSE Count(e, "SSE_DONE")
  BY <1>2, <1>3, <1>7 DEF EventKinds
<1>12. Count(b, "SSE_DONE") = IF "done" \in Range(Raw(b)) THEN 1 ELSE 0
  <2>1. Count(e, "SSE_DONE") = IF "done" \in Range(q) THEN 1 ELSE 0
    BY DEF Told
  <2> HIDE DEF q
  <2> QED BY <1>2, <1>5, <1>8, <1>11, <2>1
<1>13. Told("reading", "ok", k, n, b)
  <2> HIDE DEF n, q
  <2> QED BY <1>1, <1>2, <1>7, <1>8, <1>9, <1>10, <1>11, <1>12 DEF Told, Unstarted
<1> QED BY <1>6, <1>13 DEF x, y

\* What a request that ended leaves is what the validator asks for, but if it failed after [DONE].
LEMMA ToldIsValid ==
  ASSUME NEW s, NEW k \in Kinds, NEW d, NEW e, Told("ended", s, k, d, e),
         k = "NONE" \/ "done" \notin Range(Raw(e))
  PROVE  RequestValid(e, s = "ok", k, d)
<1>1. /\ Len(Recorded(e, "CLIENT_REQUEST_STARTED")) = 1 /\ Len(Recorded(e, "REQUEST_TERMINAL")) = 1
      /\ Len(Recorded(e, "CLIENT_REQUEST_ENDED")) = 1 /\ e[1].kind = "CLIENT_REQUEST_STARTED"
  BY DEF Told, Count, Unstarted
<1>2. TokensOf(Shown(e)) = d
  BY DEF Told
<1>3. Len(Recorded(e, "SSE_DONE")) = IF k = "NONE" THEN 1 ELSE 0
  BY DEF Told, Count
<1>4. RawValid(Raw(e), s = "ok", k, d)
  <2>1. ASSUME k = "NONE"
        PROVE  s = "ok" /\ "done" \in Range(Raw(e)) /\ Shapes(Raw(e)) = d /\ Tidy(Raw(e))
    BY <2>1 DEF Told
  <2>2. ASSUME k = "PROTOCOL_MALFORMED_STREAM" PROVE s = "ok" /\ "done" \notin Range(Raw(e))
    BY <2>2 DEF Told
  <2>3. ASSUME k = "NONE" PROVE ~ReparseFails(Raw(e))
    BY <2>1, <2>3 DEF ReparseFails, Tidy
  <2>4. ASSUME k = "PROTOCOL_MALFORMED_STREAM" PROVE ReparseFails(Raw(e))
    BY <2>2, <2>4 DEF ReparseFails
  <2> QED BY <2>1, <2>2, <2>3, <2>4 DEF RawValid
<1>5. SubSeq(e, Len(e) - 1, Len(e)) = <<Event("REQUEST_TERMINAL", k), Event("CLIENT_REQUEST_ENDED", "none")>>
  BY DEF Told
<1> QED BY <1>1, <1>2, <1>3, <1>4, <1>5 DEF RequestValid, TokensOf, Shown

-----------------------------------------------------------------------------
(* What a handler writes, and its client takes                              *)

Sendable == Subject \cup {"ok", "eof", "reset"}

LEMMA LongerSeq ==
  ASSUME NEW S, NEW t \in Seq(S), NEW x \in S
  PROVE  /\ Append(t, x) \in Seq(S) /\ Len(t) \in Nat /\ Len(Append(t, x)) = Len(t) + 1
         /\ Append(t, x)[Len(t) + 1] = x /\ \A i \in 1..Len(t) : Append(t, x)[i] = t[i]
BY AppendProperties, LenProperties

\* The client takes the next item that is not the end.
LEMMA TakeNext ==
  ASSUME NEW S, NEW t \in Seq(S), NEW w \in Seq(S), NEW v \in Seq(S), NEW open,
         w # <<>>, Head(w) \notin {"eof", "reset"}, Begins(t, v), Continues(t, w, v, open)
  PROVE  Begins(Append(t, Head(w)), v) /\ Continues(Append(t, Head(w)), Tail(w), v, open)
<1>1. /\ Head(w) \in S /\ Head(w) = w[1] /\ Tail(w) \in Seq(S) /\ Len(Tail(w)) = Len(w) - 1
      /\ \A i \in 1..Len(Tail(w)) : Tail(w)[i] = w[i + 1]
  BY HeadTailProperties
<1>2. Len(w) \in Nat /\ Len(w) >= 1 /\ Len(v) \in Nat
  BY LenProperties, EmptySeq
<1>3. PICK x \in S : x = Head(w)
  BY <1>1
<1>4. PICK u \in Seq(S) : u = Append(t, x)
  BY LongerSeq
<1>5. Len(t) \in Nat /\ Len(u) = Len(t) + 1 /\ u[Len(t) + 1] = x /\ \A i \in 1..Len(t) : u[i] = t[i]
  BY <1>4, LongerSeq
<1>6. PICK r \in Seq(S) : r = Tail(w)
  BY <1>1
<1>7. Len(t) + 1 <= Len(v) /\ x = v[Len(t) + 1]
  <2>1. 1 \in 1..Len(w)
    BY <1>2
  <2>2. IF Len(t) + 1 <= Len(v) THEN w[1] = v[Len(t) + 1] ELSE w[1] \in {"eof", "reset"}
    BY <2>1 DEF Continues
  <2> QED BY <1>1, <1>3, <2>2
<1>8. Begins(u, v)
  <2>1. ASSUME NEW i \in 1..Len(u) PROVE i <= Len(v) /\ u[i] = v[i]
    <3>1. CASE i = Len(t) + 1
      BY <1>5, <1>7, <3>1
    <3>2. CASE i # Len(t) + 1
      <4>1. i \in 1..Len(t)
        BY <1>5, <3>2
      <4> QED BY <1>5, <4>1 DEF Begins
    <3> QED BY <3>1, <3>2
  <2> QED BY <2>1 DEF Begins
<1>9. Continues(u, r, v, open)
  <2>1. ASSUME NEW i \in 1..Len(r)
        PROVE  IF Len(u) + i <= Len(v) THEN r[i] = v[Len(u) + i] ELSE r[i] \in {"eof", "reset"}
    <3>1. i + 1 \in 1..Len(w) /\ Len(t) + (i + 1) = Len(u) + i /\ r[i] = w[i + 1]
      BY <1>1, <1>2, <1>5, <1>6
    <3>2. IF Len(t) + (i + 1) <= Len(v) THEN w[i + 1] = v[Len(t) + (i + 1)] ELSE w[i + 1] \in {"eof", "reset"}
      BY <3>1 DEF Continues
    <3> QED BY <3>1, <3>2
  <2>2. open => Len(u) + Len(r) = Len(v)
    BY <1>1, <1>2, <1>5, <1>6 DEF Continues
  <2> QED BY <2>1, <2>2 DEF Continues
<1> QED BY <1>3, <1>4, <1>6, <1>8, <1>9

\* The handler writes one item more, which goes onto the wire.
LEMMA WriteNext ==
  ASSUME NEW S, NEW t \in Seq(S), NEW w \in Seq(S), NEW v \in Seq(S), NEW x \in S, Continues(t, w, v, TRUE)
  PROVE  Continues(t, Append(w, x), Append(v, x), TRUE)
<1>1. PICK a \in Seq(S) : a = Append(w, x)
  BY LongerSeq
<1>2. PICK b \in Seq(S) : b = Append(v, x)
  BY LongerSeq
<1>3. /\ Len(t) \in Nat /\ Len(w) \in Nat /\ Len(v) \in Nat /\ Len(a) = Len(w) + 1 /\ Len(b) = Len(v) + 1
      /\ a[Len(w) + 1] = x /\ b[Len(v) + 1] = x
      /\ (\A i \in 1..Len(w) : a[i] = w[i]) /\ (\A i \in 1..Len(v) : b[i] = v[i])
  BY <1>1, <1>2, LongerSeq, LenProperties
<1>4. Len(t) + Len(w) = Len(v)
  BY DEF Continues
<1>5. ASSUME NEW i \in 1..Len(a)
      PROVE  IF Len(t) + i <= Len(b) THEN a[i] = b[Len(t) + i] ELSE a[i] \in {"eof", "reset"}
  <2>1. CASE i = Len(w) + 1
    <3>1. Len(t) + i = Len(v) + 1
      <4>1. PICK m \in Nat : m = Len(t)
        BY <1>3
      <4>2. PICK l \in Nat : l = Len(w)
        BY <1>3
      <4>3. i = l + 1 /\ m + l = Len(v)
        BY <1>4, <2>1, <4>1, <4>2
      <4> QED BY ONLY <4>1, <4>2, <4>3
    <3> QED BY <1>3, <2>1, <3>1
  <2>2. CASE i # Len(w) + 1
    <3>1. i \in 1..Len(w) /\ Len(t) + i \in 1..Len(v) /\ Len(t) + i <= Len(b)
      BY <1>3, <1>4, <2>2
    <3>2. w[i] = v[Len(t) + i]
      BY <3>1 DEF Continues
    <3> QED BY <1>3, <3>1, <3>2
  <2> QED BY <2>1, <2>2
<1>6. Len(t) + Len(a) = Len(b)
  <2>1. PICK m \in Nat : m = Len(t)
    BY <1>3
  <2>2. PICK l \in Nat : l = Len(w)
    BY <1>3
  <2>3. Len(a) = l + 1 /\ Len(b) = m + l + 1
    BY <1>3, <1>4, <2>1, <2>2
  <2> QED BY ONLY <2>1, <2>2, <2>3
<1> QED BY <1>1, <1>2, <1>5, <1>6 DEF Continues

LEMMA WriteEnd ==
  ASSUME NEW S, NEW t \in Seq(S), NEW w \in Seq(S), NEW v \in Seq(S), NEW x \in S, x \in {"eof", "reset"},
         Continues(t, w, v, TRUE)
  PROVE  Continues(t, Append(w, x), v, FALSE)
<1>1. PICK a \in Seq(S) : a = Append(w, x)
  BY LongerSeq
<1>2. /\ Len(t) \in Nat /\ Len(w) \in Nat /\ Len(v) \in Nat /\ Len(a) = Len(w) + 1 /\ a[Len(w) + 1] = x
      /\ \A i \in 1..Len(w) : a[i] = w[i]
  BY <1>1, LongerSeq, LenProperties
<1>3. Len(t) + Len(w) = Len(v)
  BY DEF Continues
<1>4. ASSUME NEW i \in 1..Len(a)
      PROVE  IF Len(t) + i <= Len(v) THEN a[i] = v[Len(t) + i] ELSE a[i] \in {"eof", "reset"}
  <2>1. CASE i = Len(w) + 1
    BY <1>2, <1>3, <2>1
  <2>2. CASE i # Len(w) + 1
    <3>1. i \in 1..Len(w)
      BY <1>2, <2>2
    <3> QED BY <1>2, <3>1 DEF Continues
  <2> QED BY <2>1, <2>2
<1> QED BY <1>1, <1>4 DEF Continues

LEMMA BeginsLonger ==
  ASSUME NEW S, NEW t \in Seq(S), NEW v \in Seq(S), NEW x \in S, Begins(t, v)
  PROVE  Begins(t, Append(v, x))
<1>1. PICK b \in Seq(S) : b = Append(v, x)
  BY LongerSeq
<1>2. Len(v) \in Nat /\ Len(t) \in Nat /\ Len(b) = Len(v) + 1 /\ \A i \in 1..Len(v) : b[i] = v[i]
  BY <1>1, LongerSeq, LenProperties
<1>3. ASSUME NEW i \in 1..Len(t) PROVE i <= Len(b) /\ b[i] = t[i]
  <2>1. i <= Len(v) /\ t[i] = v[i]
    BY DEF Begins
  <2>2. i \in 1..Len(v)
    BY <1>2, <2>1
  <2> QED BY <1>2, <2>1, <2>2
<1> QED BY <1>1, <1>3 DEF Begins

\* A response head before a sequence of frames.
LEMMA HeadFirst ==
  ASSUME NEW q \in Seq(Subject), NEW f \in Subject
  PROVE  /\ <<"ok">> \o q \in Seq(Sendable)
         /\ <<"ok">> \o Append(q, f) = Append(<<"ok">> \o q, f)
         /\ <<"ok">> \o <<>> = <<"ok">>
<1>1. q \in Seq(Sendable) /\ f \in Sendable /\ "ok" \in Sendable
  <2>1. Subject \subseteq Sendable
    BY DEF Sendable
  <2> QED BY <2>1, SeqMonotonic DEF Sendable
<1>2. PICK h \in Seq(Sendable) : h = <<"ok">>
  <2>1. \A x \in Sendable : <<x>> \in Seq(Sendable)
    OBVIOUS
  <2> QED BY <1>1, <2>1
<1>3. PICK l \in Seq(Sendable) : l = <<f>>
  <2>1. \A x \in Sendable : <<x>> \in Seq(Sendable)
    OBVIOUS
  <2> QED BY <1>1, <2>1
<1>4. h \o q \in Seq(Sendable)
  BY <1>1, ConcatProperties
<1>5. Append(q, f) = q \o l
  BY <1>1, <1>3, AppendIsConcat
<1>6. Append(h \o q, f) = (h \o q) \o l
  BY <1>1, <1>3, <1>4, AppendIsConcat
<1>7. h \o (q \o l) = (h \o q) \o l
  BY ONLY <1>1, <1>2, <1>3, ConcatAssociative
<1>8. h \o <<>> = h
  BY ConcatEmptySeq
<1> QED BY <1>2, <1>4, <1>5, <1>6, <1>7, <1>8

LEMMA TakenGrows ==
  ASSUME NEW e \in Seq(Entries)
  PROVE  /\ \A s : Taken(s, e) \in Seq(Sendable)
         /\ \A f \in Subject : \A s, a : s # "none" /\ Raw(a) = Append(Raw(e), f) => Taken(s, a) = Append(Taken(s, e), f)
         /\ Raw(e) = <<>> => Taken("ok", e) = Append(<<>>, "ok")
         /\ \A s, a : Raw(a) = Raw(e) => Taken(s, a) = Taken(s, e)
<1>1. Raw(e) \in Seq(Subject)
  <2>1. \E x : x \in Entries
    <3>1. Event("SENT", "none") \in Entries
      BY EntryFacts DEF EventKinds, Subject
    <3> QED BY <3>1
  <2> QED BY <2>1, FramesAppend
<1>2. "none" \in Subject
  BY DEF Subject
<1>3. <<"ok">> \o Raw(e) \in Seq(Sendable)
  BY <1>1, <1>2, HeadFirst
<1>4. <<>> \in Seq(Sendable)
  BY EmptySeq
<1>5. \A s : Taken(s, e) \in Seq(Sendable)
  BY <1>3, <1>4 DEF Taken
<1>6. \A f \in Subject : <<"ok">> \o Append(Raw(e), f) = Append(<<"ok">> \o Raw(e), f)
  BY <1>1, HeadFirst
<1>7. \A f \in Subject : \A s, a : s # "none" /\ Raw(a) = Append(Raw(e), f) => Taken(s, a) = Append(Taken(s, e), f)
  BY <1>6 DEF Taken
<1>8. Raw(e) = <<>> => Taken("ok", e) = Append(<<>>, "ok")
  <2>1. Append(<<>>, "ok") = <<"ok">> /\ <<"ok">> \o <<>> = <<"ok">>
    BY <1>1, <1>2, HeadFirst
  <2> QED BY <2>1 DEF Taken
<1>9. \A s, a : Raw(a) = Raw(e) => Taken(s, a) = Taken(s, e)
  BY DEF Taken
<1> QED BY <1>5, <1>7, <1>8, <1>9

LEMMA WrittenGrows ==
  ASSUME NEW v \in Seq(Entries), NEW x \in Entries
  PROVE  /\ Written(v) \in Seq(Sendable)
         /\ Written(Append(v, x)) = IF x.kind = "SENT" THEN Append(Written(v), x.of) ELSE Written(v)
<1>1. "SENT" \in EventKinds /\ x.of \in Subject
  BY EntryFacts DEF EventKinds
<1>2. /\ Recorded(v, "SENT") \in Seq(Entries)
      /\ Recorded(Append(v, x), "SENT") = IF x.kind = "SENT" THEN Append(Recorded(v, "SENT"), x) ELSE Recorded(v, "SENT")
  BY <1>1, RecordedAppend
<1>3. /\ Subjects(Recorded(v, "SENT")) \in Seq(Subject)
      /\ Subjects(Append(Recorded(v, "SENT"), x)) = Append(Subjects(Recorded(v, "SENT")), x.of)
  BY <1>2, SubjectsAppend
<1>4. /\ <<"ok">> \o Subjects(Recorded(v, "SENT")) \in Seq(Sendable)
      /\ <<"ok">> \o Append(Subjects(Recorded(v, "SENT")), x.of) = Append(<<"ok">> \o Subjects(Recorded(v, "SENT")), x.of)
  BY <1>1, <1>3, HeadFirst
<1> QED BY <1>2, <1>3, <1>4 DEF Written

-----------------------------------------------------------------------------
(* How a client, the wire and a handler go together                         *)

Wired == Frames \cup {"ok", "eof", "reset"}

LEMMA WiredFacts ==
  /\ Wired \subseteq Sendable /\ Frames \subseteq Subject /\ Frames \subseteq Sendable
  /\ \A x \in Frames \cup {"ok", "text"} : x \notin {"eof", "reset"}
  /\ "text" \notin Wired /\ "error" \notin Wired /\ "ok" \notin Frames
BY DEF Wired, Sendable, Subject, Frames, Data, Kinds

\* As long as there is no handler the client waits or has given up.
LEMMA KeptNew ==
  ASSUME NEW c, NEW s, NEW e, NEW w, NEW h, NEW v, NEW good \in BOOLEAN, Kept(c, s, e, w, h, v, good), h = "new",
         NEW c1, NEW e1
  PROVE  Kept(c1, s, e1, w, h, v, good)
BY DEF Kept

\* A client that reads no more does not care about the wire.
LEMMA KeptAway ==
  ASSUME NEW c, NEW s, NEW e \in Seq(Entries), NEW w, NEW h, NEW v, NEW good \in BOOLEAN,
         Kept(c, s, e, w, h, v, good), c \notin Unstarted,
         NEW c1, c1 \notin Unstarted, c1 \notin {"sending", "reading"},
         NEW e1, Raw(e1) = Raw(e), NEW w1, w1 = w \/ w1 = <<>> \/ (w # <<>> /\ w1 = Tail(w))
  PROVE  Kept(c1, s, e1, w1, h, v, good)
<1>1. \A S : w \in Seq(S) => w1 \in Seq(S)
  BY EmptySeq, HeadTailProperties
<1>2. Taken(s, e1) = Taken(s, e)
  BY DEF Taken
<1> QED BY <1>1, <1>2 DEF Kept

LEMMA KeptHead ==
  ASSUME NEW s, NEW e \in Seq(Entries), NEW w, NEW h, NEW v, NEW good \in BOOLEAN,
         Kept("sending", s, e, w, h, v, good), s = "none", Raw(e) = <<>>,
         NEW x \in {"ok", "error"}, w # <<>>, Head(w) = x
  PROVE  Kept("reading", x, e, Tail(w), h, v, good)
<1>1. h # "new"
  BY DEF Kept
<1>2. CASE ~good
  <2>1. w \in Seq({"error", "text", "eof"}) /\ Tail(w) \in Seq({"error", "text", "eof"})
        /\ Head(w) \in {"error", "text", "eof"}
    BY <1>2, HeadTailProperties DEF Kept
  <2> QED BY <1>1, <1>2, <2>1 DEF Kept, Unstarted
<1>3. CASE good
  <2>1. w \in Seq(Wired) /\ Begins(Taken(s, e), Written(v)) /\ Continues(Taken(s, e), w, Written(v), h # "done")
        /\ v \in Seq(Entries)
    BY <1>1, <1>3 DEF Kept, Wired
  <2>2. Tail(w) \in Seq(Wired) /\ Head(w) \in Wired
    BY <2>1, HeadTailProperties
  <2>3. x = "ok"
    BY <2>2, WiredFacts
  <2>4. w \in Seq(Sendable) /\ Taken(s, e) \in Seq(Sendable) /\ Written(v) \in Seq(Sendable)
    <3>1. Event("SENT", "none") \in Entries
      BY EntryFacts DEF EventKinds, Subject
    <3> QED BY <2>1, <3>1, WiredFacts, SeqMonotonic, TakenGrows, WrittenGrows
  <2>5. Taken(s, e) = <<>> /\ Taken("ok", e) = Append(<<>>, "ok")
    BY TakenGrows DEF Taken
  <2>6. Begins(Append(Taken(s, e), Head(w)), Written(v))
        /\ Continues(Append(Taken(s, e), Head(w)), Tail(w), Written(v), h # "done")
    BY <2>1, <2>3, <2>4, TakeNext
  <2>7. Begins(Taken("ok", e), Written(v)) /\ Continues(Taken("ok", e), Tail(w), Written(v), h # "done")
    BY <2>3, <2>5, <2>6
  <2> QED BY <1>1, <1>3, <2>2, <2>3, <2>7 DEF Kept, Unstarted, Wired
<1> QED BY <1>2, <1>3

LEMMA KeptChunk ==
  ASSUME NEW s \in {"ok", "error"}, NEW e \in Seq(Entries), NEW w, NEW h, NEW v, NEW good \in BOOLEAN,
         Kept("reading", s, e, w, h, v, good),
         NEW f \in Frames \cup {"text"}, w # <<>>, Head(w) = f,
         NEW c \in {"reading", "closing"}, NEW a, Raw(a) = Append(Raw(e), f)
  PROVE  /\ Kept(c, s, a, Tail(w), h, v, good)
         /\ s = "ok" => f \in Frames
<1>1. h # "new"
  BY DEF Kept
<1>2. CASE ~good
  <2>1. Tail(w) \in Seq({"error", "text", "eof"}) /\ s = "error"
    BY <1>2, HeadTailProperties DEF Kept
  <2> QED BY <1>1, <1>2, <2>1 DEF Kept, Unstarted
<1>3. CASE good
  <2>1. w \in Seq(Wired) /\ Begins(Taken(s, e), Written(v)) /\ Continues(Taken(s, e), w, Written(v), h # "done")
        /\ v \in Seq(Entries) /\ s = "ok"
    BY <1>1, <1>3 DEF Kept, Wired
  <2>2. Tail(w) \in Seq(Wired) /\ Head(w) \in Wired
    BY <2>1, HeadTailProperties
  <2>3. f \in Frames /\ f \in Subject
    BY <2>2, WiredFacts
  <2>4. w \in Seq(Sendable) /\ Taken(s, e) \in Seq(Sendable) /\ Written(v) \in Seq(Sendable)
    <3>1. Event("SENT", "none") \in Entries
      BY EntryFacts DEF EventKinds, Subject
    <3> QED BY <2>1, <3>1, WiredFacts, SeqMonotonic, TakenGrows, WrittenGrows
  <2>5. Taken(s, a) = Append(Taken(s, e), f)
    BY <2>1, <2>3, TakenGrows
  <2>6. Begins(Append(Taken(s, e), Head(w)), Written(v))
        /\ Continues(Append(Taken(s, e), Head(w)), Tail(w), Written(v), h # "done")
    BY <2>1, <2>3, <2>4, WiredFacts, TakeNext
  <2>7. Begins(Taken(s, a), Written(v)) /\ Continues(Taken(s, a), Tail(w), Written(v), h # "done")
    BY <2>5, <2>6
  <2> QED BY <1>1, <1>3, <2>1, <2>2, <2>3, <2>7 DEF Kept, Unstarted, Wired
<1> QED BY <1>2, <1>3

\* The handler logs something besides what it sends, stalls or goes on.
LEMMA KeptLogs ==
  ASSUME NEW c, NEW s, NEW e, NEW w, NEW h \in {"serving", "stalled"}, NEW v, NEW good \in BOOLEAN,
         Kept(c, s, e, w, h, v, good), NEW h1 \in {"serving", "stalled"},
         NEW v1, v1 = v \/ \E k \in {"STALL_STARTED", "CLIENT_DISCONNECTED"} : v1 = Append(v, Event0(k))
  PROVE  Kept(c, s, e, w, h1, v1, good)
<1>1. v \in Seq(Entries) /\ v # <<>> /\ good
  BY DEF Kept
<1>2. CASE v1 = v
  BY <1>2 DEF Kept
<1>3. ASSUME NEW k \in {"STALL_STARTED", "CLIENT_DISCONNECTED"}, v1 = Append(v, Event0(k))
      PROVE  Kept(c, s, e, w, h1, v1, good)
  <2>1. PICK x \in Entries : x = Event0(k) /\ x.kind = k
    BY DEF Entries, Events, EventKinds, Event0, Event
  <2>2. /\ v1 \in Seq(Entries) /\ v1 # <<>> /\ v1[1] = v[1]
        /\ \A n \in EventKinds : Count(v1, n) = IF x.kind = n THEN Count(v, n) + 1 ELSE Count(v, n)
    BY <1>1, <1>3, <2>1, OneMore
  <2>3. Count(v1, "REQUEST_HANDLER_ENDED") = Count(v, "REQUEST_HANDLER_ENDED")
    BY <2>1, <2>2 DEF EventKinds
  <2>4. Written(v1) = Written(v)
    BY <1>1, <1>3, <2>1, WrittenGrows
  <2> QED BY <1>1, <2>2, <2>3, <2>4 DEF Kept
<1> QED BY <1>2, <1>3

LEMMA KeptSends ==
  ASSUME NEW c, NEW s, NEW e \in Seq(Entries), NEW w, NEW v, NEW good \in BOOLEAN,
         Kept(c, s, e, w, "serving", v, good), NEW f \in Frames,
         NEW w1, w1 = Append(w, f) \/ (w1 = w /\ c \notin {"sending", "reading"})
  PROVE  Kept(c, s, e, w1, "serving", Append(v, Event("SENT", f)), good)
<1> DEFINE u == Append(v, Event("SENT", f))
<1>1. v \in Seq(Entries) /\ v # <<>> /\ good /\ w \in Seq(Wired) /\ Begins(Taken(s, e), Written(v))
  BY DEF Kept, Wired
<1>2. PICK x \in Entries : x = Event("SENT", f) /\ x.kind = "SENT" /\ x.of = f
  BY WiredFacts, NewEvent DEF EventKinds
<1>3. /\ u \in Seq(Entries) /\ u # <<>> /\ u[1] = v[1]
      /\ \A n \in EventKinds : Count(u, n) = IF x.kind = n THEN Count(v, n) + 1 ELSE Count(v, n)
  BY <1>1, <1>2, OneMore
<1>4. Count(u, "REQUEST_HANDLER_ENDED") = Count(v, "REQUEST_HANDLER_ENDED")
  BY <1>2, <1>3 DEF EventKinds
<1>5. Written(v) \in Seq(Sendable) /\ Written(u) = Append(Written(v), f)
  BY <1>1, <1>2, WrittenGrows
<1> HIDE DEF u
<1>6. f \in Sendable /\ f \in Wired /\ w \in Seq(Sendable) /\ Taken(s, e) \in Seq(Sendable)
  <2>1. f \in Sendable /\ f \in Wired
    BY WiredFacts DEF Wired
  <2>2. w \in Seq(Sendable)
    BY <1>1, WiredFacts, SeqMonotonic
  <2> QED BY <2>1, <2>2, TakenGrows
<1>7. w1 \in Seq(Wired)
  BY <1>1, <1>6, LongerSeq
<1>8. Begins(Taken(s, e), Written(u))
  BY <1>1, <1>5, <1>6, BeginsLonger
<1>9. ASSUME c \in {"sending", "reading"} PROVE Continues(Taken(s, e), w1, Written(u), TRUE)
  <2>1. Continues(Taken(s, e), w, Written(v), TRUE)
    BY <1>1, <1>9 DEF Kept
  <2>2. Continues(Taken(s, e), Append(w, f), Append(Written(v), f), TRUE)
    BY <1>5, <1>6, <2>1, WriteNext
  <2> QED BY <1>5, <1>9, <2>2
<1>10. Kept(c, s, e, w1, "serving", u, good)
  BY <1>1, <1>3, <1>4, <1>7, <1>8, <1>9 DEF Kept, Wired
<1> QED BY <1>10 DEF u

LEMMA KeptFinishes ==
  ASSUME NEW c, NEW s, NEW e \in Seq(Entries), NEW w, NEW h \in {"serving", "stalled"}, NEW v, NEW good \in BOOLEAN,
         Kept(c, s, e, w, h, v, good), NEW x \in {"eof", "reset"},
         NEW w1, w1 = Append(w, x) \/ (w1 = w /\ c \notin {"sending", "reading"})
  PROVE  Kept(c, s, e, w1, "done", Append(v, Event0("REQUEST_HANDLER_ENDED")), good)
<1> DEFINE u == Append(v, Event0("REQUEST_HANDLER_ENDED"))
<1>1. v \in Seq(Entries) /\ v # <<>> /\ good /\ w \in Seq(Wired) /\ Begins(Taken(s, e), Written(v))
      /\ Count(v, "REQUEST_HANDLER_ENDED") = 0 /\ c \notin Unstarted
  BY DEF Kept, Wired
<1>2. PICK y \in Entries : y = Event0("REQUEST_HANDLER_ENDED") /\ y.kind = "REQUEST_HANDLER_ENDED"
  BY NewEvent DEF EventKinds
<1>3. /\ u \in Seq(Entries) /\ u # <<>> /\ u[1] = v[1] /\ Last(u) = y
      /\ \A n \in EventKinds : Count(u, n) = IF y.kind = n THEN Count(v, n) + 1 ELSE Count(v, n)
  BY <1>1, <1>2, OneMore
<1>4. Count(u, "REQUEST_HANDLER_ENDED") = 1
  BY <1>1, <1>2, <1>3 DEF EventKinds
<1>5. Written(v) \in Seq(Sendable) /\ Written(u) = Written(v)
  BY <1>1, <1>2, WrittenGrows
<1> HIDE DEF u
<1>6. x \in Sendable /\ x \in Wired /\ w \in Seq(Sendable) /\ Taken(s, e) \in Seq(Sendable)
  <2>1. x \in Sendable /\ x \in Wired
    BY DEF Wired, Sendable
  <2>2. w \in Seq(Sendable)
    BY <1>1, WiredFacts, SeqMonotonic
  <2> QED BY <2>1, <2>2, TakenGrows
<1>7. w1 \in Seq(Wired)
  <2>1. PICK y1 \in Wired : y1 = x
    BY <1>6
  <2>2. Append(w, y1) \in Seq(Wired)
    BY <1>1, LongerSeq
  <2> QED BY <1>1, <2>1, <2>2
<1>8. ASSUME c \in {"sending", "reading"} PROVE Continues(Taken(s, e), w1, Written(u), FALSE)
  <2>1. Continues(Taken(s, e), w, Written(v), TRUE)
    BY <1>1, <1>8 DEF Kept
  <2>2. Continues(Taken(s, e), Append(w, x), Written(v), FALSE)
    BY <1>5, <1>6, <2>1, WriteEnd
  <2> QED BY <1>5, <1>8, <2>2
<1>9. Kept(c, s, e, w1, "done", u, good)
  BY <1>1, <1>2, <1>3, <1>4, <1>5, <1>7, <1>8 DEF Kept, Wired
<1> QED BY <1>9 DEF u

\* The handler accepts the request.
LEMMA KeptAccepts ==
  ASSUME NEW c, NEW s, NEW e, NEW w, NEW v, Kept(c, s, e, w, "new", v, TRUE), c \notin Unstarted,
         NEW w1, w1 = w \o <<"ok">> \/ (w1 = w /\ c \notin {"sending", "reading"})
  PROVE  Kept(c, s, e, w1, "serving", v \o <<Event0("REQUEST_ACCEPTED"), Event0("RESPONSE_HEADERS_SENT")>>, TRUE)
<1> DEFINE u == v \o <<Event0("REQUEST_ACCEPTED"), Event0("RESPONSE_HEADERS_SENT")>>
<1>1. v = <<>> /\ w = <<>> /\ s = "none" /\ v \in Seq(Entries) /\ Count(v, "REQUEST_HANDLER_ENDED") = 0
  BY DEF Kept
<1>2. PICK x \in Entries : x = Event0("REQUEST_ACCEPTED") /\ x.kind = "REQUEST_ACCEPTED"
  BY NewEvent DEF EventKinds
<1>3. PICK y \in Entries : y = Event0("RESPONSE_HEADERS_SENT") /\ y.kind = "RESPONSE_HEADERS_SENT"
  BY NewEvent DEF EventKinds
<1> DEFINE a == Append(v, x)
<1>4. u = Append(a, y)
  BY <1>1, <1>2, <1>3, TwoMore
<1>5. /\ a \in Seq(Entries) /\ a # <<>> /\ a[1] = x
      /\ \A n \in EventKinds : Count(a, n) = IF x.kind = n THEN Count(v, n) + 1 ELSE Count(v, n)
  <2>1. v \in Seq(Entries) /\ v = <<>>
    BY <1>1
  <2>2. /\ Append(v, x) \in Seq(Entries) /\ Append(v, x) # <<>>
        /\ Append(v, x)[1] = IF v = <<>> THEN x ELSE v[1]
        /\ \A n \in EventKinds : Count(Append(v, x), n) = IF x.kind = n THEN Count(v, n) + 1 ELSE Count(v, n)
    <3>1. v \in Seq(Entries) /\ x \in Entries
      BY <1>1
    <3> QED BY ONLY <3>1, OneMore
  <2> QED BY ONLY <2>1, <2>2
<1>6. Written(a) = Written(v)
  BY <1>1, <1>2, WrittenGrows
<1> HIDE DEF a, u
<1>7. /\ u \in Seq(Entries) /\ u # <<>> /\ u[1] = x
      /\ \A n \in EventKinds : Count(u, n) = IF y.kind = n THEN Count(a, n) + 1 ELSE Count(a, n)
  BY <1>3, <1>4, <1>5, OneMore
<1>8. Count(u, "REQUEST_HANDLER_ENDED") = 0
  BY <1>1, <1>2, <1>3, <1>5, <1>7 DEF EventKinds
<1>9. Written(u) = Written(v)
  BY <1>3, <1>4, <1>5, <1>6, WrittenGrows
<1>10. Written(v) = <<"ok">> /\ Taken(s, e) = <<>>
  <2>1. Recorded(v, "SENT") = <<>>
    BY <1>1, NothingRecorded
  <2>2. Subjects(<<>>) = <<>>
    BY EmptySeq DEF Subjects
  <2>3. <<"ok">> \o <<>> = <<"ok">>
    OBVIOUS
  <2> QED BY <1>1, <2>1, <2>2, <2>3 DEF Written, Taken
<1>11. Len(<<>>) = 0 /\ Len(<<"ok">>) = 1 /\ <<"ok">>[1] = "ok" /\ <<>> \o <<"ok">> = <<"ok">>
  OBVIOUS
<1>12. Begins(<<>>, <<"ok">>) /\ Continues(<<>>, <<"ok">>, <<"ok">>, TRUE)
  <2>1. \A i \in 1..1 : i = 1 /\ 0 + i = 1
    OBVIOUS
  <2>2. \A i \in 1..0 : FALSE
    OBVIOUS
  <2> QED BY <1>11, <2>1, <2>2 DEF Begins, Continues
<1>13. w1 \in Seq(Wired) /\ (c \in {"sending", "reading"} => w1 = <<"ok">>)
  <2>1. <<"ok">> \in Seq(Wired)
    <3>1. "ok" \in Wired
      BY DEF Wired
    <3>2. \A x1 \in Wired : <<x1>> \in Seq(Wired)
      OBVIOUS
    <3> QED BY <3>1, <3>2
  <2> QED BY <1>1, <1>11, <2>1, EmptySeq
<1>14. Kept(c, s, e, w1, "serving", u, TRUE)
  BY <1>1, <1>2, <1>7, <1>8, <1>9, <1>10, <1>12, <1>13 DEF Kept, Wired
<1> QED BY <1>14 DEF u

\* The handler of an error accepts the request and is done with it.
LEMMA KeptErrs ==
  ASSUME NEW c, NEW s, NEW e, NEW w, NEW v, Kept(c, s, e, w, "new", v, FALSE), c \notin Unstarted,
         NEW w1, w1 = w \o <<"error", "text", "eof">> \/ w1 = w
  PROVE  Kept(c, s, e, w1, "done",
              v \o (<<Event0("REQUEST_ACCEPTED"), Event0("HTTP_ERROR_SENT")>> \o <<Event0("REQUEST_HANDLER_ENDED")>>),
              FALSE)
<1> DEFINE u == v \o (<<Event0("REQUEST_ACCEPTED"), Event0("HTTP_ERROR_SENT")>> \o <<Event0("REQUEST_HANDLER_ENDED")>>)
<1>1. v = <<>> /\ w = <<>> /\ s = "none" /\ v \in Seq(Entries) /\ Count(v, "REQUEST_HANDLER_ENDED") = 0
  BY DEF Kept
<1>2. PICK x \in Entries : x = Event0("REQUEST_ACCEPTED") /\ x.kind = "REQUEST_ACCEPTED"
  BY NewEvent DEF EventKinds
<1>3. PICK y \in Entries : y = Event0("HTTP_ERROR_SENT") /\ y.kind = "HTTP_ERROR_SENT"
  BY NewEvent DEF EventKinds
<1>4. PICK z \in Entries : z = Event0("REQUEST_HANDLER_ENDED") /\ z.kind = "REQUEST_HANDLER_ENDED"
  BY NewEvent DEF EventKinds
<1> DEFINE a == Append(v, x)
           b == Append(a, y)
<1>5. u = Append(b, z)
  <2>1. <<x, y>> \in Seq(Entries) /\ <<z>> \in Seq(Entries)
    OBVIOUS
  <2>2. v \o (<<x, y>> \o <<z>>) = (v \o <<x, y>>) \o <<z>>
    BY <1>1, <2>1, ConcatAssociative
  <2>3. v \o <<x, y>> = b
    BY <1>1, TwoMore
  <2>4. a \in Seq(Entries) /\ b \in Seq(Entries)
    BY <1>1, LongerSeq
  <2> HIDE DEF b
  <2>5. b \o <<z>> = Append(b, z)
    BY <2>4, OneMore
  <2> QED BY <1>2, <1>3, <1>4, <2>2, <2>3, <2>5
<1>6. /\ a \in Seq(Entries) /\ a # <<>> /\ a[1] = x
      /\ \A n \in EventKinds : Count(a, n) = IF x.kind = n THEN Count(v, n) + 1 ELSE Count(v, n)
  <2>1. v \in Seq(Entries) /\ v = <<>>
    BY <1>1
  <2>2. /\ Append(v, x) \in Seq(Entries) /\ Append(v, x) # <<>>
        /\ Append(v, x)[1] = IF v = <<>> THEN x ELSE v[1]
        /\ \A n \in EventKinds : Count(Append(v, x), n) = IF x.kind = n THEN Count(v, n) + 1 ELSE Count(v, n)
    <3>1. v \in Seq(Entries) /\ x \in Entries
      BY <1>1
    <3> QED BY ONLY <3>1, OneMore
  <2> QED BY ONLY <2>1, <2>2
<1> HIDE DEF a, u
<1>7. /\ b \in Seq(Entries) /\ b # <<>> /\ b[1] = x
      /\ \A n \in EventKinds : Count(b, n) = IF y.kind = n THEN Count(a, n) + 1 ELSE Count(a, n)
  BY <1>3, <1>6, OneMore
<1> HIDE DEF b
<1>8. /\ u \in Seq(Entries) /\ u # <<>> /\ u[1] = x /\ Last(u) = z
      /\ \A n \in EventKinds : Count(u, n) = IF z.kind = n THEN Count(b, n) + 1 ELSE Count(b, n)
  BY <1>4, <1>5, <1>7, OneMore
<1>9. Count(u, "REQUEST_HANDLER_ENDED") = 1
  BY <1>1, <1>2, <1>3, <1>4, <1>6, <1>7, <1>8 DEF EventKinds
<1>10. w1 \in Seq({"error", "text", "eof"})
  <2> DEFINE three == <<"error", "text", "eof">>
  <2>1. three \in Seq({"error", "text", "eof"})
    OBVIOUS
  <2> HIDE DEF three
  <2>2. <<>> \o three = three
    BY <2>1, ConcatEmptySeq
  <2> QED BY <1>1, <2>1, <2>2, EmptySeq DEF three
<1>11. Kept(c, s, e, w1, "done", u, FALSE)
  BY <1>1, <1>2, <1>4, <1>8, <1>9, <1>10 DEF Kept
<1> QED BY <1>11 DEF u

-----------------------------------------------------------------------------
(* The lifecycle log                                                        *)

\* Who is active after an entry depends on the entries up to there.
LEMMA ActiveBefore ==
  ASSUME NEW log \in Seq(Lifecycle), NEW new \in Seq(Lifecycle), NEW n \in 0..Len(log)
  PROVE  ActiveAfter(log \o new, n) = ActiveAfter(log, n)
<1>1. Len(log) \in Nat /\ \A i \in 1..Len(log) : (log \o new)[i] = log[i]
  BY LongerLog
<1>2. \A i \in 1..n : (log \o new)[i] = log[i]
  BY <1>1
<1> QED BY <1>2 DEF ActiveAfter

\* Whoever is active while requests start is active when they have started.
LEMMA ActiveLater ==
  ASSUME NEW log \in Seq(Lifecycle), NEW m \in 0..Len(log),
         \A i \in 1..Len(log) : m < i => log[i].kind = "CLIENT_REQUEST_STARTED",
         NEW n \in m..Len(log)
  PROVE  ActiveAfter(log, n) \subseteq ActiveAfter(log, Len(log))
<1>1. Len(log) \in Nat
  BY LenProperties
<1>2. ASSUME NEW c \in ActiveAfter(log, n) PROVE c \in ActiveAfter(log, Len(log))
  <2>1. (\E i \in 1..n : log[i].of = c) /\ \A i \in 1..n : log[i].of = c => log[i].kind = "CLIENT_REQUEST_STARTED"
    BY DEF ActiveAfter
  <2>2. \A i \in 1..n : i \in 1..Len(log)
    BY <1>1
  <2>3. \A i \in 1..Len(log) : i \in 1..n \/ m < i
    BY <1>1
  <2>4. \A i \in 1..Len(log) : log[i].of = c => log[i].kind = "CLIENT_REQUEST_STARTED"
    BY <2>1, <2>3
  <2>5. \E i \in 1..Len(log) : log[i].of = c
    BY <2>1, <2>2
  <2> QED BY <2>4, <2>5 DEF ActiveAfter
<1> QED BY <1>2

LEMMA BoundedMore ==
  ASSUME NEW log \in Seq(Lifecycle), NEW new \in Seq(Lifecycle), Bounded(log),
         (\A j \in 1..Len(new) : new[j].kind = "CLIENT_REQUEST_STARTED") \/ Len(new) = 1,
         IsFiniteSet(ActiveAfter(log \o new, Len(log \o new))),
         Cardinality(ActiveAfter(log \o new, Len(log \o new))) <= Concurrency
  PROVE  Bounded(log \o new)
<1> DEFINE longer == log \o new
           now == ActiveAfter(longer, Len(longer))
<1>1. /\ longer \in Seq(Lifecycle) /\ DOMAIN longer = 1..(Len(log) + Len(new))
      /\ Len(log) \in Nat /\ Len(new) \in Nat /\ DOMAIN log = 1..Len(log)
      /\ \A j \in 1..Len(new) : longer[Len(log) + j] = new[j]
  BY LongerLog, LenProperties
<1>2. Len(longer) = Len(log) + Len(new)
  BY <1>1, LenProperties
<1>3. Concurrency \in Nat
  BY FixtureAssumption DEF FixtureAssumption
<1>4. IsFiniteSet(now) /\ Cardinality(now) <= Concurrency
  OBVIOUS
<1>5. \A n \in 0..Len(log) : ActiveAfter(longer, n) = ActiveAfter(log, n)
  BY ActiveBefore
<1> HIDE DEF now
<1>6. ASSUME NEW n \in DOMAIN longer PROVE Cardinality(ActiveAfter(longer, n)) <= Concurrency
  <2>1. CASE n <= Len(log)
    <3>1. n \in DOMAIN log /\ n \in 0..Len(log)
      BY <1>1, <2>1
    <3> QED BY <1>5, <3>1 DEF Bounded
  <2>2. CASE Len(log) < n
    <3>1. ActiveAfter(longer, n) \subseteq now
      <4>1. CASE Len(new) = 1
        <5>1. n = Len(longer)
          BY <1>1, <1>2, <2>2, <4>1
        <5> QED BY <5>1 DEF now
      <4>2. CASE \A j \in 1..Len(new) : new[j].kind = "CLIENT_REQUEST_STARTED"
        <5>1. \A i \in 1..Len(longer) : Len(log) < i => longer[i].kind = "CLIENT_REQUEST_STARTED"
          <6> TAKE i \in 1..Len(longer)
          <6> HAVE Len(log) < i
          <6>1. i - Len(log) \in 1..Len(new) /\ i = Len(log) + (i - Len(log))
            BY <1>1, <1>2
          <6>2. longer[i] = new[i - Len(log)]
            BY <1>1, <6>1
          <6> QED BY <4>2, <6>1, <6>2
        <5>2. Len(log) \in 0..Len(longer) /\ n \in Len(log)..Len(longer)
          BY <1>1, <1>2, <2>2
        <5>3. PICK l \in Seq(Lifecycle) : l = longer
          BY <1>1
        <5>4. ActiveAfter(l, n) \subseteq ActiveAfter(l, Len(l))
          <6>1. PICK m \in 0..Len(l) : m = Len(log)
            BY <5>2, <5>3
          <6>2. \A i \in 1..Len(l) : m < i => l[i].kind = "CLIENT_REQUEST_STARTED"
            BY <5>1, <5>3, <6>1
          <6>3. n \in m..Len(l)
            BY <5>2, <5>3, <6>1
          <6> QED BY ONLY <6>2, <6>3, ActiveLater
        <5> QED BY <5>3, <5>4 DEF now
      <4> QED BY <4>1, <4>2
    <3>2. IsFiniteSet(ActiveAfter(longer, n)) /\ Cardinality(ActiveAfter(longer, n)) <= Cardinality(now)
      BY <1>4, <3>1, FS_Subset
    <3>3. Cardinality(ActiveAfter(longer, n)) \in Nat /\ Cardinality(now) \in Nat
      BY <1>4, <3>2, FS_CardinalityType
    <3> QED BY <1>3, <1>4, <3>2, <3>3
  <2>3. n \in Nat
    BY <1>1
  <2> QED BY <1>1, <2>1, <2>2, <2>3
<1> HIDE DEF longer
<1>7. Bounded(longer)
  BY <1>6 DEF Bounded
<1> QED BY <1>7 DEF longer

\* Starts of requests that were not mentioned, or the end of one that has not ended.
LEMMA OrderedMore ==
  ASSUME NEW log \in Seq(Lifecycle), NEW new \in Seq(Lifecycle), Ordered(log),
         \A i, j \in 1..Len(new) : i # j => new[i] # new[j],
         \A i \in 1..Len(log), j \in 1..Len(new) : log[i] # new[j],
         \A j \in 1..Len(new) : new[j].kind = "CLIENT_REQUEST_ENDED" =>
           \E i \in 1..Len(log) : log[i] = Event("CLIENT_REQUEST_STARTED", new[j].of)
  PROVE  Ordered(log \o new)
<1> DEFINE longer == log \o new
           L == Len(log)
           m == Len(new)
<1>1. /\ DOMAIN longer = 1..(L + m) /\ DOMAIN log = 1..L /\ L \in Nat /\ m \in Nat
      /\ \A i \in 1..L : longer[i] = log[i]
      /\ \A j \in 1..m : longer[L + j] = new[j]
      /\ \A i \in DOMAIN longer : i \in 1..L \/ \E j \in 1..m : i = L + j
  BY LongerLog, LenProperties
<1> HIDE DEF longer, L, m
<1>2. ASSUME NEW i \in DOMAIN longer, NEW j \in DOMAIN longer, i # j PROVE longer[i] # longer[j]
  <2>1. CASE i \in 1..L /\ j \in 1..L
    BY <1>1, <1>2, <2>1 DEF Ordered
  <2>2. ASSUME NEW h \in 1..m, i = L + h, j \in 1..L PROVE longer[i] # longer[j]
    BY <1>1, <2>2 DEF L, m
  <2>3. ASSUME NEW h \in 1..m, j = L + h, i \in 1..L PROVE longer[i] # longer[j]
    BY <1>1, <2>3 DEF L, m
  <2>4. ASSUME NEW g \in 1..m, NEW h \in 1..m, i = L + g, j = L + h PROVE longer[i] # longer[j]
    <3>1. g # h
      BY <1>2, <2>4
    <3> QED BY <1>1, <2>4, <3>1 DEF m
  <2> QED BY <1>1, <2>1, <2>2, <2>3, <2>4
<1>3. ASSUME NEW j \in DOMAIN longer, longer[j].kind = "CLIENT_REQUEST_ENDED"
      PROVE  \E i \in 1..(j - 1) : longer[i] = Event("CLIENT_REQUEST_STARTED", longer[j].of)
  <2>1. CASE j \in 1..L
    <3>1. PICK i \in 1..(j - 1) : log[i] = Event("CLIENT_REQUEST_STARTED", log[j].of)
      BY <1>1, <1>3, <2>1 DEF Ordered
    <3>2. i \in 1..L
      BY <1>1, <2>1
    <3> QED BY <1>1, <2>1, <3>1, <3>2
  <2>2. ASSUME NEW h \in 1..m, j = L + h
        PROVE  \E i \in 1..(j - 1) : longer[i] = Event("CLIENT_REQUEST_STARTED", longer[j].of)
    <3>1. PICK i \in 1..L : log[i] = Event("CLIENT_REQUEST_STARTED", new[h].of)
      BY <1>1, <1>3, <2>2 DEF m, L
    <3>2. i \in 1..(j - 1)
      BY <1>1, <2>2
    <3> QED BY <1>1, <2>2, <3>1, <3>2
  <2> QED BY <1>1, <2>1, <2>2
<1>4. Ordered(longer)
  BY <1>2, <1>3 DEF Ordered
<1> QED BY <1>4 DEF longer

\* Never more than the permits are active.
ActiveBound ==
  ~aborting => /\ IsFiniteSet(ActiveAfter(lifecycle, Len(lifecycle)))
               /\ Cardinality(ActiveAfter(lifecycle, Len(lifecycle))) <= Concurrency

LEMMA ActiveIsBounded == PlaceInv => ActiveBound
<1> SUFFICES ASSUME PlaceInv, ~aborting
             PROVE  /\ IsFiniteSet(ActiveAfter(lifecycle, Len(lifecycle)))
                    /\ Cardinality(ActiveAfter(lifecycle, Len(lifecycle))) <= Concurrency
  BY DEF ActiveBound
<1>1. /\ load \in Loads /\ lifecycle \in Seq(Lifecycle) /\ permits \in Nat
      /\ permits + Cardinality(Holders) = Concurrency
  BY DEF PlaceInv, PlaceOK, LogInv, PermitInv
<1>2. PICK log \in Seq(Lifecycle) : log = lifecycle
  BY <1>1
<1> DEFINE now == ActiveAfter(log, Len(log))
<1>3. ASSUME NEW c \in now PROVE c \in Requests /\ client[c] \in InFlight
  <2>1. (\E i \in DOMAIN log : log[i].of = c) /\ ~ \E i \in DOMAIN log : log[i] = Event("CLIENT_REQUEST_ENDED", c)
    BY <1>3, ActiveIs
  <2>2. Mentioned(c) /\ ~Ended(c)
    BY <1>2, <2>1 DEF Mentioned, Ended
  <2>3. c \in Requests
    <3>1. PICK i \in DOMAIN log : log[i].of = c
      BY <2>1
    <3>2. log[i] \in Lifecycle
      BY LenProperties, ElementOfSeq
    <3> QED BY <3>1, <3>2 DEF Lifecycle
  <2>4. client[c] \in States /\ client[c] # "abandoned"
    BY <2>3 DEF PlaceInv, PlaceOK, ClientInv
  <2> QED BY <2>2, <2>3, <2>4 DEF PlaceInv, LogInv, States
<1>4. IsFiniteSet(Holders) /\ Cardinality(Holders) \in Nat
  BY <1>1, HoldersFinite
<1>5. Concurrency \in Nat /\ Concurrency >= 1
  BY FixtureAssumption DEF FixtureAssumption
<1> HIDE DEF now
<1>6. CASE phase = "warmup"
  <2>1. now \subseteq {Warmup}
    <3>1. ASSUME NEW c \in now PROVE c = Warmup
      <4>1. c \in Requests /\ client[c] \in InFlight /\ c \in Planned
        BY <1>3 DEF PlaceInv, ClientInv, InFlight
      <4> QED BY <1>6, <4>1 DEF PlaceInv, ClientInv, Planned, InFlight
    <3> QED BY <3>1
  <2>2. IsFiniteSet({Warmup}) /\ Cardinality({Warmup}) = 1
    BY FS_Singleton
  <2>3. IsFiniteSet(now) /\ Cardinality(now) <= 1 /\ Cardinality(now) \in Nat
    BY <2>1, <2>2, FS_Subset, FS_CardinalityType
  <2> QED BY <1>2, <1>5, <2>3 DEF now
<1>7. CASE phase # "warmup"
  <2>1. now \subseteq Holders
    <3>1. ASSUME NEW c \in now PROVE c \in Holders
      <4>1. c \in Requests /\ client[c] \in InFlight /\ c \in Planned
        BY <1>3 DEF PlaceInv, ClientInv, InFlight
      <4>2. c # Warmup
        BY <1>7, <4>1 DEF PlaceInv, ClientInv, InFlight
      <4> QED BY <4>1, <4>2 DEF Planned, Holders, Holding
    <3> QED BY <3>1
  <2>2. IsFiniteSet(now) /\ Cardinality(now) <= Cardinality(Holders) /\ Cardinality(now) \in Nat
    BY <1>4, <2>1, FS_Subset, FS_CardinalityType
  <2> QED BY <1>1, <1>2, <1>4, <1>5, <2>2 DEF now
<1> QED BY <1>6, <1>7

LEMMA ActiveStaysBounded == PlaceInv' => ActiveBound'
BY ActiveIsBounded, PTL

LEMMA LifecycleMore ==
  ASSUME LifecycleInv, lifecycle \in Seq(Lifecycle), ActiveBound', aborting' = aborting,
         NEW k \in {"CLIENT_REQUEST_STARTED", "CLIENT_REQUEST_ENDED"}, NEW rs \in Seq(Requests),
         LogLifecycle(k, rs), \A i, j \in 1..Len(rs) : i # j => rs[i] # rs[j],
         \/ k = "CLIENT_REQUEST_STARTED" /\ \A j \in 1..Len(rs) : ~Mentioned(rs[j])
         \/ k = "CLIENT_REQUEST_ENDED" /\ Len(rs) = 1 /\ Mentioned(rs[1]) /\ ~Ended(rs[1])
  PROVE  LifecycleInv'
<1> DEFINE new == [i \in DOMAIN rs |-> Event(k, rs[i])]
<1>1. PICK log \in Seq(Lifecycle) : log = lifecycle
  OBVIOUS
<1>2. lifecycle' = log \o new
  BY <1>1 DEF LogLifecycle
<1>3. Len(rs) \in Nat /\ DOMAIN rs = 1..Len(rs) /\ \A j \in 1..Len(rs) : rs[j] \in Requests
  BY LenProperties, ElementOfSeq
<1>4. \A j \in 1..Len(rs) : new[j] = Event(k, rs[j]) /\ Event(k, rs[j]) \in Lifecycle
  BY <1>3 DEF Event, Lifecycle
<1>5. new \in Seq(Lifecycle) /\ Len(new) = Len(rs)
  <2>1. new \in [1..Len(rs) -> Lifecycle]
    BY <1>3, <1>4
  <2> HIDE DEF new
  <2> QED BY <1>3, <2>1, SeqIntro
<1> HIDE DEF new
<1>6. \A j \in 1..Len(new) : new[j].kind = k /\ new[j].of = rs[j]
  BY <1>4, <1>5, EventIs
<1>7. DOMAIN log = 1..Len(log) /\ Len(log) \in Nat
      /\ \A i \in 1..Len(log) : log[i] \in Lifecycle
  BY LenProperties, ElementOfSeq
<1>8. Ordered(log \o new)
  <2>1. Ordered(log)
    BY <1>1 DEF LifecycleInv
  <2>2. \A i, j \in 1..Len(new) : i # j => new[i] # new[j]
    BY <1>5, <1>6
  <2>3. ASSUME NEW i \in 1..Len(log), NEW j \in 1..Len(new) PROVE log[i] # new[j]
    <3>1. CASE k = "CLIENT_REQUEST_STARTED" /\ ~Mentioned(rs[j])
      BY <1>1, <1>6, <1>7, <3>1 DEF Mentioned
    <3>2. CASE k = "CLIENT_REQUEST_ENDED" /\ Len(rs) = 1 /\ ~Ended(rs[1])
      <4>1. j = 1 /\ new[j] = Event("CLIENT_REQUEST_ENDED", rs[1])
        BY <1>4, <1>5, <3>2
      <4> QED BY <1>1, <1>7, <3>2, <4>1 DEF Ended
    <3> QED BY <1>5, <3>1, <3>2
  <2>4. ASSUME NEW j \in 1..Len(new), new[j].kind = "CLIENT_REQUEST_ENDED"
        PROVE  \E i \in 1..Len(log) : log[i] = Event("CLIENT_REQUEST_STARTED", new[j].of)
    <3>1. k = "CLIENT_REQUEST_ENDED" /\ Len(rs) = 1 /\ Mentioned(rs[1]) /\ ~Ended(rs[1])
      BY <1>6, <2>4
    <3>2. j = 1 /\ new[j].of = rs[1]
      BY <1>5, <1>6, <3>1
    <3>3. PICK i \in 1..Len(log) : log[i].of = rs[1]
      BY <1>1, <1>7, <3>1 DEF Mentioned
    <3>4. log[i] = Event("CLIENT_REQUEST_STARTED", rs[1]) \/ log[i] = Event("CLIENT_REQUEST_ENDED", rs[1])
      BY <1>7, <3>3 DEF Lifecycle, Event
    <3>5. log[i] # Event("CLIENT_REQUEST_ENDED", rs[1])
      BY <1>1, <1>7, <3>1 DEF Ended
    <3> QED BY <3>2, <3>4, <3>5
  <2> QED BY <1>5, <2>1, <2>2, <2>3, <2>4, OrderedMore
<1>9. ASSUME ~aborting' PROVE Bounded(log \o new)
  <2>1. Bounded(log)
    BY <1>1, <1>9 DEF LifecycleInv
  <2>2. /\ IsFiniteSet(ActiveAfter(log \o new, Len(log \o new)))
        /\ Cardinality(ActiveAfter(log \o new, Len(log \o new))) <= Concurrency
    <3>1. ActiveAfter(lifecycle, Len(lifecycle))' = ActiveAfter(log \o new, Len(log \o new))
      BY <1>2 DEF ActiveAfter
    <3> QED BY <1>9, <3>1 DEF ActiveBound
  <2>3. (\A j \in 1..Len(new) : new[j].kind = "CLIENT_REQUEST_STARTED") \/ Len(new) = 1
    BY <1>5, <1>6
  <2> QED BY <1>5, <2>1, <2>2, <2>3, BoundedMore
<1>10. LifecycleInv' <=> Ordered(log \o new) /\ (~aborting' => Bounded(log \o new))
  BY <1>2 DEF LifecycleInv, Ordered, Bounded, ActiveAfter
<1> QED BY <1>8, <1>9, <1>10

-----------------------------------------------------------------------------
(* What a step does to what is retained of a request                        *)

\* A step that is about others, or lets it wait, or gives it up.
Spares(c) ==
  /\ status'[c] = status[c] /\ kind'[c] = kind[c] /\ deltas'[c] = deltas[c] /\ evidence'[c] = evidence[c]
  /\ wire'[c] = wire[c] /\ handler'[c] = handler[c] /\ served'[c] = served[c]
  /\ \/ client'[c] = client[c]
     \/ client[c] \in Unstarted /\ client'[c] \in Unstarted
     \/ client'[c] = "abandoned"
  /\ c \in gone' => c \in gone \/ client'[c] = "abandoned"

LEMMA Spared == ASSUME NEW c \in Requests, Retained(c), Spares(c) PROVE Retained(c)'
<1> DEFINE good == Script[c][1] # "httpError"
<1>1. CASE client'[c] = "abandoned"
  BY <1>1 DEF Retained
<1>2. CASE client'[c] = client[c] /\ client'[c] # "abandoned"
  BY <1>2 DEF Retained, Spares
<1>3. CASE client[c] \in Unstarted /\ client'[c] \in Unstarted
  <2>1. /\ Told(client[c], status[c], kind[c], deltas[c], evidence[c])
        /\ Kept(client[c], status[c], evidence[c], wire[c], handler[c], served[c], good)
        /\ c \notin gone' /\ client'[c] # "abandoned"
    BY <1>3 DEF Retained, Spares, Unstarted
  <2>2. Told(client'[c], status[c], kind[c], deltas[c], evidence[c])
    BY <1>3, <2>1, TellWaiting
  <2>3. handler[c] = "new" /\ good \in BOOLEAN
    BY <1>3, <2>1 DEF Kept
  <2> HIDE DEF good
  <2>4. Kept(client'[c], status[c], evidence[c], wire[c], handler[c], served[c], good)
    BY <2>1, <2>3, KeptNew
  <2> QED BY <2>1, <2>2, <2>4 DEF Retained, Spares, good
<1> QED BY <1>1, <1>2, <1>3 DEF Spares

\* What a client or a handler may find.
LEMMA Finds ==
  ASSUME RestOK, TableInv, NEW r \in Requests
  PROVE  /\ DOMAIN evidence = Requests /\ DOMAIN wire = Requests /\ DOMAIN served = Requests
         /\ status[r] \in {"none", "ok", "error"} /\ kind[r] \in Kinds
         /\ client[r] # "abandoned" =>
              /\ Told(client[r], status[r], kind[r], deltas[r], evidence[r])
              /\ Kept(client[r], status[r], evidence[r], wire[r], handler[r], served[r], Script[r][1] # "httpError")
              /\ evidence[r] \in Seq(Entries)
         /\ r \in gone => client[r] \in {"ended", "abandoned"}
         /\ (Script[r][1] # "httpError") \in BOOLEAN
BY DEF RestOK, TableInv, Retained, Told

LEMMA HeadTable ==
  ASSUME RestOK, PlaceOK, TableInv, NEW r \in Requests, ReadHead(r)
  PROVE  TableInv'
<1> DEFINE good == Script[r][1] # "httpError"
<1>1. PICK x \in {"ok", "error"} : Reads(r, x) /\ status' = [status EXCEPT ![r] = x]
  BY DEF ReadHead
<1>2. /\ client[r] = "sending" /\ client' = [client EXCEPT ![r] = "reading"]
      /\ UNCHANGED <<deltas, kind, gone, evidence, handler, served>>
  BY DEF ReadHead, KeepAround, serverVars
<1>3. wire[r] # <<>> /\ Head(wire[r]) = x /\ wire' = [wire EXCEPT ![r] = Tail(wire[r])]
  BY <1>1 DEF Reads
<1>4. /\ DOMAIN evidence = Requests /\ DOMAIN wire = Requests /\ DOMAIN served = Requests
      /\ Told("sending", status[r], kind[r], deltas[r], evidence[r])
      /\ Kept("sending", status[r], evidence[r], wire[r], handler[r], served[r], good)
      /\ evidence[r] \in Seq(Entries) /\ r \notin gone /\ good \in BOOLEAN
  BY <1>2, Finds
<1>5. /\ client'[r] = "reading" /\ status'[r] = x /\ wire'[r] = Tail(wire[r])
      /\ \A c \in Requests \ {r} : client'[c] = client[c] /\ status'[c] = status[c] /\ wire'[c] = wire[c]
      /\ DOMAIN wire' = Requests
  BY <1>1, <1>2, <1>3, <1>4 DEF PlaceOK, RestOK
<1>6. Told("reading", x, kind[r], deltas[r], evidence[r])
  BY <1>4, TellHead
<1>7. status[r] = "none" /\ Raw(evidence[r]) = <<>>
  BY <1>4 DEF Told
<1> HIDE DEF good
<1>8. Kept("reading", x, evidence[r], Tail(wire[r]), handler[r], served[r], good)
  BY <1>3, <1>4, <1>7, KeptHead
<1>9. Retained(r)'
  BY <1>2, <1>4, <1>5, <1>6, <1>8 DEF Retained, good
<1>10. \A c \in Requests \ {r} : Retained(c)'
  BY <1>2, <1>5, Spared DEF Spares, TableInv
<1> QED BY <1>2, <1>4, <1>5, <1>9, <1>10 DEF TableInv

\* What a client makes of a chunk.
ChunkNoted(f, s, k, d, e, new, c1, k1, d1) ==
  \/ /\ s = "error" /\ new = <<Event("RAW_BODY_CHUNK", f)>>
     /\ c1 = "reading" /\ k1 = k /\ d1 = d
  \/ /\ s = "ok" /\ FrameFailure(Raw(e), f) # "NONE" /\ new = <<Event("RAW_BODY_CHUNK", f)>>
     /\ c1 = "closing" /\ k1 = FrameFailure(Raw(e), f) /\ d1 = d
  \/ /\ s = "ok" /\ FrameFailure(Raw(e), f) = "NONE" /\ new = <<Event("RAW_BODY_CHUNK", f), EventOf(f)>>
     /\ c1 = "reading" /\ k1 = k /\ d1 = (IF f \in Data THEN Append(d, Tokens(f)) ELSE d)

LEMMA RawAdded ==
  ASSUME NEW e \in Seq(Entries), e # <<>>, NEW f \in Frames \cup {"text"}, NEW new,
         new = <<Event("RAW_BODY_CHUNK", f)>> \/ (f \in Frames /\ new = <<Event("RAW_BODY_CHUNK", f), EventOf(f)>>)
  PROVE  Raw(e \o new) = Append(Raw(e), f)
<1>1. CASE new = <<Event("RAW_BODY_CHUNK", f)>>
  <2> DEFINE a == Append(e, Event("RAW_BODY_CHUNK", f))
  <2>1. e \o new = a /\ Raw(a) = Append(Raw(e), f)
    BY <1>1, RawLogged
  <2> QED BY <2>1
<1>2. CASE f \in Frames /\ new = <<Event("RAW_BODY_CHUNK", f), EventOf(f)>>
  <2>1. PICK x \in Entries : x = Event("RAW_BODY_CHUNK", f) /\ x.kind = "RAW_BODY_CHUNK" /\ x.of = f
    BY <1>2, WiredFacts, NewEvent DEF EventKinds
  <2>2. PICK y \in Entries : y = EventOf(f) /\ y.kind # "RAW_BODY_CHUNK"
    <3>1. f \in Subject
      BY <1>2, WiredFacts
    <3>2. EventOf(f) \in Entries /\ EventOf(f).kind # "RAW_BODY_CHUNK"
      BY <3>1 DEF EventOf, Event, Entries, Events, EventKinds, Subject
    <3> QED BY <3>2
  <2>3. e \o new = Append(Append(e, x), y)
    BY <1>2, <2>1, <2>2, TwoMore
  <2>4. Append(e, x) \in Seq(Entries)
    BY OneMore
  <2>5. Raw(Append(e, x)) = Append(Raw(e), f) /\ Raw(Append(Append(e, x), y)) = Raw(Append(e, x))
    BY <2>1, <2>2, <2>4, FramesAppend
  <2> QED BY <2>3, <2>5
<1> QED BY <1>1, <1>2

LEMMA ChunkTold ==
  ASSUME NEW s, NEW k, NEW d, NEW e \in Seq(Entries), e # <<>>, NEW w, NEW h, NEW v, NEW good \in BOOLEAN,
         Told("reading", s, k, d, e), Kept("reading", s, e, w, h, v, good),
         NEW f \in Frames \cup {"text"}, w # <<>>, Head(w) = f,
         NEW new, NEW c1, NEW k1, NEW d1, ChunkNoted(f, s, k, d, e, new, c1, k1, d1)
  PROVE  Told(c1, s, k1, d1, e \o new) /\ Kept(c1, s, e \o new, Tail(w), h, v, good)
<1>1. s \in {"ok", "error"} /\ c1 \in {"reading", "closing"}
  BY DEF ChunkNoted
<1>2. PICK q \in Seq(Entries) : Raw(q) = Append(Raw(e), f)
  <2>1. PICK x \in Entries : x = Event("RAW_BODY_CHUNK", f) /\ x.kind = "RAW_BODY_CHUNK" /\ x.of = f
    BY WiredFacts, NewEvent DEF EventKinds, Subject
  <2>2. Raw(Append(e, x)) = Append(Raw(e), f) /\ Append(e, x) \in Seq(Entries)
    BY <2>1, FramesAppend, OneMore
  <2> QED BY <2>2
<1>3. s = "ok" => f \in Frames
  BY <1>1, <1>2, KeptChunk
<1>4. PICK b : b = e \o new
  OBVIOUS
<1>5. new = <<Event("RAW_BODY_CHUNK", f)>> \/ (f \in Frames /\ new = <<Event("RAW_BODY_CHUNK", f), EventOf(f)>>)
  BY <1>3 DEF ChunkNoted
<1>6. Raw(b) = Append(Raw(e), f)
  BY <1>4, <1>5, RawAdded
<1>7. Kept(c1, s, b, Tail(w), h, v, good)
  BY <1>1, <1>6, KeptChunk
<1>8. CASE s = "error" /\ new = <<Event("RAW_BODY_CHUNK", f)>> /\ c1 = "reading" /\ k1 = k /\ d1 = d
  <2>1. Told("reading", "error", k, d, e)
    BY <1>8
  <2>2. Told("reading", "error", k, d, e \o <<Event("RAW_BODY_CHUNK", f)>>)
    BY <2>1, TellText
  <2> QED BY <1>4, <1>7, <1>8, <2>2
<1>9. CASE /\ s = "ok" /\ FrameFailure(Raw(e), f) # "NONE" /\ new = <<Event("RAW_BODY_CHUNK", f)>>
           /\ c1 = "closing" /\ k1 = FrameFailure(Raw(e), f) /\ d1 = d
  <2>1. Told("reading", "ok", k, d, e) /\ f \in Frames
    BY <1>3, <1>9
  <2>2. Told("closing", "ok", FrameFailure(Raw(e), f), d, e \o <<Event("RAW_BODY_CHUNK", f)>>)
    BY <1>9, <2>1, TellRefused
  <2> QED BY <1>4, <1>7, <1>9, <2>2
<1>10. CASE /\ s = "ok" /\ FrameFailure(Raw(e), f) = "NONE" /\ new = <<Event("RAW_BODY_CHUNK", f), EventOf(f)>>
            /\ c1 = "reading" /\ k1 = k /\ d1 = (IF f \in Data THEN Append(d, Tokens(f)) ELSE d)
  <2>1. Told("reading", "ok", k, d, e) /\ f \in Frames
    BY <1>3, <1>10
  <2>2. Told("reading", "ok", k, IF f \in Data THEN Append(d, Tokens(f)) ELSE d,
             e \o <<Event("RAW_BODY_CHUNK", f), EventOf(f)>>)
    BY <1>10, <2>1, TellParsed
  <2> QED BY <1>4, <1>7, <1>10, <2>2
<1> QED BY <1>8, <1>9, <1>10 DEF ChunkNoted

\* What a step of a client that reads a chunk comes to.
Makes(r, f, new, c1, k1, d1) ==
  /\ wire[r] # <<>> /\ Head(wire[r]) = f /\ wire' = [wire EXCEPT ![r] = Tail(wire[r])]
  /\ ChunkNoted(f, status[r], kind[r], deltas[r], evidence[r], new, c1, k1, d1)
  /\ Log(r, new)
  /\ client'[r] = c1 /\ kind'[r] = k1 /\ deltas'[r] = d1
  /\ \A c \in Requests \ {r} : client'[c] = client[c] /\ kind'[c] = kind[c] /\ deltas'[c] = deltas[c]

LEMMA ChunkMade ==
  ASSUME RestOK, PlaceOK, NEW r \in Requests, ReadChunk(r)
  PROVE  \E f \in Frames \cup {"text"} : \E new, c1, k1, d1 : Makes(r, f, new, c1, k1, d1)
<1>1. PICK f \in Frames \cup {"text"} :
        /\ Reads(r, f)
        /\ \/ /\ status[r] = "error" /\ Log(r, <<Event("RAW_BODY_CHUNK", f)>>)
              /\ UNCHANGED <<client, kind, deltas>>
           \/ /\ status[r] = "ok" /\ FrameFailure(Raw(evidence[r]), f) # "NONE"
              /\ Log(r, <<Event("RAW_BODY_CHUNK", f)>>)
              /\ Decide(r, FrameFailure(Raw(evidence[r]), f)) /\ UNCHANGED deltas
           \/ /\ status[r] = "ok" /\ FrameFailure(Raw(evidence[r]), f) = "NONE"
              /\ Log(r, <<Event("RAW_BODY_CHUNK", f), EventOf(f)>>)
              /\ deltas' = [deltas EXCEPT ![r] = IF f \in Data THEN Append(@, Tokens(f)) ELSE @]
              /\ UNCHANGED <<client, kind>>
  BY DEF ReadChunk
<1>2. client[r] = "reading"
  BY DEF ReadChunk
<1>3. wire[r] # <<>> /\ Head(wire[r]) = f /\ wire' = [wire EXCEPT ![r] = Tail(wire[r])]
  BY <1>1 DEF Reads
<1>4. client \in [Requests -> States] /\ DOMAIN kind = Requests /\ DOMAIN deltas = Requests
  BY DEF PlaceOK, RestOK
<1>5. CASE status[r] = "error" /\ Log(r, <<Event("RAW_BODY_CHUNK", f)>>) /\ UNCHANGED <<client, kind, deltas>>
  <2>1. ChunkNoted(f, status[r], kind[r], deltas[r], evidence[r], <<Event("RAW_BODY_CHUNK", f)>>, "reading",
                   kind[r], deltas[r])
    BY <1>5 DEF ChunkNoted
  <2>2. Makes(r, f, <<Event("RAW_BODY_CHUNK", f)>>, "reading", kind[r], deltas[r])
    BY <1>2, <1>3, <1>5, <2>1 DEF Makes
  <2> QED BY <2>2
<1>6. CASE /\ status[r] = "ok" /\ FrameFailure(Raw(evidence[r]), f) # "NONE"
           /\ Log(r, <<Event("RAW_BODY_CHUNK", f)>>)
           /\ Decide(r, FrameFailure(Raw(evidence[r]), f)) /\ UNCHANGED deltas
  <2>1. ChunkNoted(f, status[r], kind[r], deltas[r], evidence[r], <<Event("RAW_BODY_CHUNK", f)>>, "closing",
                   FrameFailure(Raw(evidence[r]), f), deltas[r])
    BY <1>6 DEF ChunkNoted
  <2>2. /\ client'[r] = "closing" /\ kind'[r] = FrameFailure(Raw(evidence[r]), f)
        /\ \A c \in Requests \ {r} : client'[c] = client[c] /\ kind'[c] = kind[c]
    BY <1>4, <1>6 DEF Decide
  <2>3. Makes(r, f, <<Event("RAW_BODY_CHUNK", f)>>, "closing", FrameFailure(Raw(evidence[r]), f), deltas[r])
    BY <1>3, <1>6, <2>1, <2>2 DEF Makes
  <2> QED BY <2>3
<1>7. CASE /\ status[r] = "ok" /\ FrameFailure(Raw(evidence[r]), f) = "NONE"
           /\ Log(r, <<Event("RAW_BODY_CHUNK", f), EventOf(f)>>)
           /\ deltas' = [deltas EXCEPT ![r] = IF f \in Data THEN Append(@, Tokens(f)) ELSE @]
           /\ UNCHANGED <<client, kind>>
  <2>1. PICK d1 : d1 = IF f \in Data THEN Append(deltas[r], Tokens(f)) ELSE deltas[r]
    OBVIOUS
  <2>2. ChunkNoted(f, status[r], kind[r], deltas[r], evidence[r], <<Event("RAW_BODY_CHUNK", f), EventOf(f)>>,
                   "reading", kind[r], d1)
    BY <1>7, <2>1 DEF ChunkNoted
  <2>3. deltas'[r] = d1 /\ \A c \in Requests \ {r} : deltas'[c] = deltas[c]
    BY <1>4, <1>7, <2>1
  <2>4. Makes(r, f, <<Event("RAW_BODY_CHUNK", f), EventOf(f)>>, "reading", kind[r], d1)
    BY <1>2, <1>3, <1>7, <2>2, <2>3 DEF Makes
  <2> QED BY <2>4
<1> QED BY <1>1, <1>5, <1>6, <1>7

LEMMA ChunkTable ==
  ASSUME RestOK, PlaceOK, TableInv, NEW r \in Requests, ReadChunk(r)
  PROVE  TableInv'
<1> DEFINE good == Script[r][1] # "httpError"
<1>0. PICK f \in Frames \cup {"text"} : \E new, c1, k1, d1 : Makes(r, f, new, c1, k1, d1)
  BY ChunkMade
<1>1. PICK new, c1, k1, d1 : Makes(r, f, new, c1, k1, d1)
  BY <1>0
<1>2. client[r] = "reading" /\ UNCHANGED <<status, gone, handler, served>>
  BY DEF ReadChunk, KeepAround, serverVars
<1>3. wire[r] # <<>> /\ Head(wire[r]) = f /\ wire' = [wire EXCEPT ![r] = Tail(wire[r])]
  BY <1>1 DEF Makes
<1>4. /\ DOMAIN evidence = Requests /\ DOMAIN wire = Requests /\ DOMAIN served = Requests
      /\ Told("reading", status[r], kind[r], deltas[r], evidence[r])
      /\ Kept("reading", status[r], evidence[r], wire[r], handler[r], served[r], good)
      /\ evidence[r] \in Seq(Entries) /\ r \notin gone /\ good \in BOOLEAN /\ evidence[r] # <<>>
  BY <1>2, Finds DEF Told, Unstarted
<1>6. /\ ChunkNoted(f, status[r], kind[r], deltas[r], evidence[r], new, c1, k1, d1)
      /\ Log(r, new)
      /\ client'[r] = c1 /\ kind'[r] = k1 /\ deltas'[r] = d1
      /\ \A c \in Requests \ {r} : client'[c] = client[c] /\ kind'[c] = kind[c] /\ deltas'[c] = deltas[c]
  BY <1>1 DEF Makes
<1> HIDE DEF good
<1>7. PICK b : b = evidence[r] \o new
  OBVIOUS
<1>8. Told(c1, status[r], k1, deltas'[r], b) /\ Kept(c1, status[r], b, Tail(wire[r]), handler[r], served[r], good)
  <2>1. PICK w : w = wire[r]
    OBVIOUS
  <2>2. PICK e \in Seq(Entries) : e = evidence[r]
    BY <1>4
  <2>3. w # <<>> /\ Head(w) = f /\ e # <<>>
    BY <1>3, <1>4, <2>1, <2>2
  <2>4. Told(c1, status[r], k1, d1, e \o new) /\ Kept(c1, status[r], e \o new, Tail(w), handler[r], served[r], good)
    BY <1>4, <1>6, <2>1, <2>2, <2>3, ChunkTold
  <2> QED BY <1>6, <1>7, <2>1, <2>2, <2>4
<1>9. evidence'[r] = b /\ DOMAIN evidence' = Requests /\ \A c \in Requests \ {r} : evidence'[c] = evidence[c]
  BY <1>4, <1>6, <1>7 DEF Log
<1>10. /\ wire'[r] = Tail(wire[r]) /\ DOMAIN wire' = Requests
       /\ \A c \in Requests \ {r} : wire'[c] = wire[c]
  BY <1>3, <1>4
<1>11. Retained(r)'
  BY <1>2, <1>4, <1>6, <1>8, <1>9, <1>10 DEF Retained, good
<1>12. \A c \in Requests \ {r} : Retained(c)'
  BY <1>2, <1>6, <1>9, <1>10, Spared DEF Spares, TableInv
<1> QED BY <1>2, <1>4, <1>9, <1>10, <1>11, <1>12 DEF TableInv

\* The client stops reading, with an outcome that may be new.
LEMMA AwayTable ==
  ASSUME RestOK, PlaceOK, TableInv, NEW r \in Requests, client[r] \in {"sending", "reading", "draining"},
         NEW c1 \in {"draining", "closing"}, client' = [client EXCEPT ![r] = c1],
         NEW k1, kind' = [kind EXCEPT ![r] = k1],
         wire' = wire \/ (wire[r] # <<>> /\ wire' = [wire EXCEPT ![r] = Tail(wire[r])]),
         UNCHANGED <<status, deltas, gone, evidence, handler, served>>,
         Told(c1, status[r], k1, deltas[r], evidence[r])
  PROVE  TableInv'
<1> DEFINE good == Script[r][1] # "httpError"
<1>1. /\ DOMAIN evidence = Requests /\ DOMAIN wire = Requests /\ DOMAIN served = Requests
      /\ Kept(client[r], status[r], evidence[r], wire[r], handler[r], served[r], good)
      /\ evidence[r] \in Seq(Entries) /\ r \notin gone /\ good \in BOOLEAN
  BY Finds
<1>2. /\ client'[r] = c1 /\ kind'[r] = k1 /\ DOMAIN wire' = Requests
      /\ wire'[r] = wire[r] \/ (wire[r] # <<>> /\ wire'[r] = Tail(wire[r]))
      /\ \A c \in Requests \ {r} : client'[c] = client[c] /\ kind'[c] = kind[c] /\ wire'[c] = wire[c]
  BY <1>1 DEF PlaceOK, RestOK
<1>3. client[r] \notin Unstarted /\ c1 \notin Unstarted /\ c1 \notin {"sending", "reading"}
  BY DEF Unstarted
<1> HIDE DEF good
<1>4. PICK w1 : w1 = wire'[r]
  OBVIOUS
<1>5. Kept(c1, status[r], evidence[r], w1, handler[r], served[r], good)
  BY <1>1, <1>2, <1>3, <1>4, KeptAway
<1>6. Retained(r)'
  BY <1>1, <1>2, <1>4, <1>5 DEF Retained, good
<1>7. \A c \in Requests \ {r} : Retained(c)'
  BY <1>2, Spared DEF Spares, TableInv
<1> QED BY <1>1, <1>2, <1>6, <1>7 DEF TableInv

LEMMA OutcomeTable ==
  ASSUME RestOK, PlaceOK, TableInv, NEW r \in Requests, ReadEof(r) \/ ReadReset(r) \/ Timeout(r)
  PROVE  TableInv'
<1>1. CASE ReadEof(r)
  <2> DEFINE k1 == IF status[r] = "error" THEN "HTTP_STATUS" ELSE KindAtEof(Raw(evidence[r]), deltas[r], ExpectedTokens[r])
  <2>1. /\ client[r] = "reading" /\ client' = [client EXCEPT ![r] = "draining"] /\ kind' = [kind EXCEPT ![r] = k1]
        /\ wire[r] # <<>> /\ wire' = [wire EXCEPT ![r] = Tail(wire[r])]
        /\ UNCHANGED <<status, deltas, gone, evidence, handler, served>>
    BY <1>1 DEF ReadEof, Reads, KeepAround, serverVars
  <2>2. Told("reading", status[r], kind[r], deltas[r], evidence[r]) /\ status[r] \in {"none", "ok", "error"}
    BY <2>1, Finds
  <2>3. Told("draining", status[r], k1, deltas[r], evidence[r])
    BY <2>2, TellEof
  <2> HIDE DEF k1
  <2> QED BY <2>1, <2>3, AwayTable
<1>2. CASE ReadReset(r)
  <2>1. /\ client[r] = "reading" /\ client' = [client EXCEPT ![r] = "closing"] /\ kind' = [kind EXCEPT ![r] = "TRANSPORT"]
        /\ wire[r] # <<>> /\ wire' = [wire EXCEPT ![r] = Tail(wire[r])]
        /\ UNCHANGED <<status, deltas, gone, evidence, handler, served>>
    BY <1>2 DEF ReadReset, Reads, Decide, KeepAround, serverVars
  <2>2. Told("reading", status[r], kind[r], deltas[r], evidence[r])
    BY <2>1, Finds
  <2>3. Told("closing", status[r], "TRANSPORT", deltas[r], evidence[r])
    BY <2>2, TellFailure
  <2> QED BY <2>1, <2>3, AwayTable
<1>3. CASE Timeout(r)
  <2>1. /\ client[r] \in {"sending", "reading"} /\ client' = [client EXCEPT ![r] = "closing"]
        /\ kind' = [kind EXCEPT ![r] = "TIMEOUT"]
        /\ UNCHANGED <<status, deltas, gone, evidence, handler, served, wire>>
    BY <1>3 DEF Timeout, Decide, KeepAround, serverVars
  <2>2. Told(client[r], status[r], kind[r], deltas[r], evidence[r])
    BY <2>1, Finds
  <2>3. Told("closing", status[r], "TIMEOUT", deltas[r], evidence[r])
    BY <2>1, <2>2, TellFailure
  <2> QED BY <2>1, <2>3, AwayTable
<1> QED BY <1>1, <1>2, <1>3

\* Who moves when a request is closed.
LEMMA CloseMoves ==
  ASSUME PlaceInv, NEW r \in Requests, Close(r)
  PROVE  /\ client'[r] = "ended"
         /\ \A c \in Requests \ {r} : client'[c] = client[c] \/ (client[c] \in Unstarted /\ client'[c] \in Unstarted)
<1>0. client \in [Requests -> States] /\ waiting \in Seq(Requests)
  BY DEF PlaceInv, PlaceOK
<1>1. CASE r = Warmup
  BY <1>0, <1>1 DEF Close
<1>2. CASE r # Warmup
  <2>1. client' = [c \in Requests |-> IF c = r THEN "ended"
                     ELSE IF waiting # <<>> /\ c = Head(waiting) THEN "granted" ELSE client[c]]
    BY <1>2 DEF Close
  <2>2. waiting # <<>> => client[Head(waiting)] = "queued"
    <3>2. ASSUME waiting # <<>> PROVE ~aborting
      BY <3>2 DEF PlaceInv, StartedInv, PlaceOK
    <3>1. waiting # <<>> => phase = "measured"
      BY <1>2, <3>2, ClosingFacts
    <3>3. ASSUME waiting # <<>> PROVE client[Head(waiting)] = "queued"
      <4>1. PICK s \in 0..Len(Measured), t \in 0..Len(Measured) :
              /\ s <= t /\ Line(s, t)
              /\ waiting = <<>> <=> t = Len(Measured)
              /\ t < Len(Measured) => Head(waiting) = Measured[t + 1]
        BY <3>1, <3>2, <3>3, InLine
      <4>2. Len(Measured) \in Nat
        BY LoadFacts DEF PlaceInv, PlaceOK
      <4>3. t < Len(Measured) /\ t + 1 \in 1..Len(Measured) /\ ~(t + 1 <= s) /\ ~(t + 1 <= t)
        BY <3>3, <4>1, <4>2
      <4> QED BY <4>1, <4>3 DEF Line
    <3> QED BY <3>3
  <2> QED BY <2>1, <2>2 DEF Unstarted
<1> QED BY <1>1, <1>2

LEMMA CloseTable ==
  ASSUME RestOK, PlaceInv, TableInv, NEW r \in Requests, Close(r)
  PROVE  TableInv'
<1> DEFINE good == Script[r][1] # "httpError"
           e == evidence[r]
           new == <<Event("REQUEST_TERMINAL", kind[r]), Event0("CLIENT_REQUEST_ENDED")>>
           b == e \o new
<1>1. /\ client[r] \in {"draining", "closing"} /\ gone' = gone \cup {r} /\ wire' = [wire EXCEPT ![r] = <<>>]
      /\ Log(r, new) /\ UNCHANGED <<status, deltas, kind, handler, served>>
  BY DEF Close, serverVars
<1>2. /\ DOMAIN evidence = Requests /\ DOMAIN wire = Requests /\ DOMAIN served = Requests /\ kind[r] \in Kinds
      /\ Told(client[r], status[r], kind[r], deltas[r], e)
      /\ Kept(client[r], status[r], e, wire[r], handler[r], served[r], good)
      /\ e \in Seq(Entries) /\ good \in BOOLEAN
  BY <1>1, Finds
<1>4. /\ client'[r] = "ended"
      /\ \A c \in Requests \ {r} : client'[c] = client[c] \/ (client[c] \in Unstarted /\ client'[c] \in Unstarted)
  BY CloseMoves
<1>5. Told("ended", status[r], kind[r], deltas[r], b)
  BY <1>1, <1>2, TellEnd
<1>6. Raw(b) = Raw(e)
  <2>1. PICK x \in Entries : x = Event("REQUEST_TERMINAL", kind[r]) /\ x.kind = "REQUEST_TERMINAL"
    BY <1>2, NewEvent DEF EventKinds, Subject
  <2>2. PICK y \in Entries : y = Event0("CLIENT_REQUEST_ENDED") /\ y.kind = "CLIENT_REQUEST_ENDED"
    BY NewEvent DEF EventKinds
  <2>3. b = Append(Append(e, x), y)
    BY <1>2, <2>1, <2>2, TwoMore
  <2>4. Append(e, x) \in Seq(Entries)
    BY <1>2, OneMore
  <2>5. Raw(Append(e, x)) = Raw(e) /\ Raw(Append(Append(e, x), y)) = Raw(Append(e, x))
    BY <1>2, <2>1, <2>2, <2>4, FramesAppend
  <2> QED BY <2>3, <2>5
<1> HIDE DEF good, b
<1>7. Kept("ended", status[r], b, <<>>, handler[r], served[r], good)
  <2>1. client[r] \notin Unstarted /\ "ended" \notin Unstarted
    BY <1>1 DEF Unstarted
  <2> QED BY <1>2, <1>6, <2>1, KeptAway
<1>8. /\ evidence'[r] = b /\ wire'[r] = <<>> /\ DOMAIN evidence' = Requests /\ DOMAIN wire' = Requests
      /\ \A c \in Requests \ {r} : evidence'[c] = evidence[c] /\ wire'[c] = wire[c]
  BY <1>1, <1>2 DEF Log, b
<1>9. Retained(r)'
  BY <1>1, <1>4, <1>5, <1>7, <1>8 DEF Retained, good
<1>10. \A c \in Requests \ {r} : Retained(c)'
  BY <1>1, <1>4, <1>8, Spared DEF Spares, TableInv
<1> QED BY <1>1, <1>2, <1>8, <1>9, <1>10 DEF TableInv

\* A step of a handler.
LEMMA ServerRow ==
  ASSUME RestOK, PlaceOK, TableInv, NEW r \in Requests, KeepClient, NEW w1, NEW h1, NEW v1,
         wire' = [wire EXCEPT ![r] = w1] \/ (wire' = wire /\ w1 = wire[r]),
         handler' = [handler EXCEPT ![r] = h1] \/ (handler' = handler /\ h1 = handler[r]),
         served' = [served EXCEPT ![r] = v1] \/ (served' = served /\ v1 = served[r]),
         client[r] # "abandoned" =>
           Kept(client[r], status[r], evidence[r], w1, h1, v1, Script[r][1] # "httpError")
  PROVE  TableInv'
<1> DEFINE good == Script[r][1] # "httpError"
<1>1. UNCHANGED <<client, status, deltas, kind, gone, evidence>>
  BY DEF KeepClient, clientVars, logVars
<1>2. /\ DOMAIN evidence = Requests /\ DOMAIN wire = Requests /\ DOMAIN served = Requests
      /\ client[r] # "abandoned" => Told(client[r], status[r], kind[r], deltas[r], evidence[r])
      /\ r \in gone => client[r] \in {"ended", "abandoned"}
  BY Finds
<1>3. handler \in [Requests -> {"new", "serving", "stalled", "done"}]
  BY DEF RestOK
<1>4. /\ DOMAIN wire' = Requests /\ DOMAIN served' = Requests
      /\ wire'[r] = w1 /\ handler'[r] = h1 /\ served'[r] = v1
      /\ \A c \in Requests \ {r} : wire'[c] = wire[c] /\ handler'[c] = handler[c] /\ served'[c] = served[c]
  BY <1>2, <1>3
<1> HIDE DEF good
<1>5. client[r] # "abandoned" => Kept(client[r], status[r], evidence[r], w1, h1, v1, good)
  BY DEF good
<1>6. Retained(r)'
  BY <1>1, <1>2, <1>4, <1>5 DEF Retained, good
<1>7. \A c \in Requests \ {r} : Retained(c)'
  BY <1>1, <1>4, Spared DEF Spares, TableInv
<1> QED BY <1>1, <1>2, <1>4, <1>6, <1>7 DEF TableInv

LEMMA AcceptTable ==
  ASSUME RestOK, PlaceOK, TableInv, NEW r \in Requests, Accept(r)
  PROVE  TableInv'
<1> DEFINE good == Script[r][1] # "httpError"
           headers == <<Event0("REQUEST_ACCEPTED"), Event0("RESPONSE_HEADERS_SENT")>>
           error == <<Event0("REQUEST_ACCEPTED"), Event0("HTTP_ERROR_SENT")>>
           ended == <<Event0("REQUEST_HANDLER_ENDED")>>
<1>1. handler[r] = "new" /\ client[r] \notin Unstarted /\ KeepClient
  BY DEF Accept, Unstarted
<1>2. /\ DOMAIN wire = Requests /\ DOMAIN served = Requests /\ good \in BOOLEAN
      /\ client[r] # "abandoned" => Kept(client[r], status[r], evidence[r], wire[r], "new", served[r], good)
      /\ r \in gone => client[r] \notin {"sending", "reading"}
  BY <1>1, Finds
<1>3. CASE good
  <2>1. /\ Send(r, <<"ok">>) /\ Serve(r, headers) /\ handler' = [handler EXCEPT ![r] = "serving"]
    BY <1>3 DEF Accept
  <2>2. PICK w1 : w1 = IF r \in gone THEN wire[r] ELSE wire[r] \o <<"ok">>
    OBVIOUS
  <2>3. wire' = [wire EXCEPT ![r] = w1]
    BY <2>1, <2>2 DEF Send
  <2>4. PICK v1 : v1 = served[r] \o headers
    OBVIOUS
  <2>5. served' = [served EXCEPT ![r] = v1]
    BY <2>1, <2>4 DEF Serve
  <2>6. ASSUME client[r] # "abandoned" PROVE Kept(client[r], status[r], evidence[r], w1, "serving", v1, good)
    <3>1. Kept(client[r], status[r], evidence[r], wire[r], "new", served[r], TRUE)
      BY <1>2, <1>3, <2>6
    <3>2. w1 = wire[r] \o <<"ok">> \/ (w1 = wire[r] /\ client[r] \notin {"sending", "reading"})
      BY <1>2, <2>2
    <3>3. Kept(client[r], status[r], evidence[r], w1, "serving", v1, TRUE)
      BY <1>1, <2>4, <3>1, <3>2, KeptAccepts
    <3> QED BY <1>3, <3>3
  <2> HIDE DEF headers
  <2> QED BY <1>1, <2>1, <2>3, <2>5, <2>6, ServerRow
<1>4. CASE ~good
  <2>1. Send(r, <<"error", "text", "eof">>) /\ Finish(r, error)
    BY <1>4 DEF Accept
  <2>2. PICK w1 : w1 = IF r \in gone THEN wire[r] ELSE wire[r] \o <<"error", "text", "eof">>
    OBVIOUS
  <2>3. wire' = [wire EXCEPT ![r] = w1]
    BY <2>1, <2>2 DEF Send
  <2>4. PICK v1 : v1 = served[r] \o (error \o ended)
    OBVIOUS
  <2>5. served' = [served EXCEPT ![r] = v1] /\ handler' = [handler EXCEPT ![r] = "done"]
    BY <2>1, <2>4 DEF Finish, Serve
  <2>6. ASSUME client[r] # "abandoned" PROVE Kept(client[r], status[r], evidence[r], w1, "done", v1, good)
    <3>1. Kept(client[r], status[r], evidence[r], wire[r], "new", served[r], FALSE)
      BY <1>2, <1>4, <2>6
    <3>2. w1 = wire[r] \o <<"error", "text", "eof">> \/ w1 = wire[r]
      BY <2>2
    <3>3. Kept(client[r], status[r], evidence[r], w1, "done", v1, FALSE)
      BY <1>1, <2>4, <3>1, <3>2, KeptErrs
    <3> QED BY <1>4, <3>3
  <2> HIDE DEF error, ended
  <2> QED BY <1>1, <2>3, <2>5, <2>6, ServerRow
<1> QED BY <1>3, <1>4

LEMMA ActTable ==
  ASSUME RestOK, PlaceOK, TableInv, NEW r \in Requests, Act(r)
  PROVE  TableInv'
<1> DEFINE good == Script[r][1] # "httpError"
           x == Script[r][at[r]]
<1>1. handler[r] = "serving" /\ KeepClient
  BY DEF Act
<1>2. /\ DOMAIN wire = Requests /\ DOMAIN served = Requests /\ good \in BOOLEAN
      /\ client[r] # "abandoned" =>
           /\ Kept(client[r], status[r], evidence[r], wire[r], "serving", served[r], good)
           /\ evidence[r] \in Seq(Entries)
      /\ r \in gone => client[r] \notin {"sending", "reading"}
  BY <1>1, Finds
<1>3. ASSUME client[r] # "abandoned"
      PROVE  /\ served[r] \in Seq(Entries) /\ (good \/ ~good)
             /\ good /\ wire[r] \in Seq(Wired)
  BY <1>2, <1>3 DEF Kept, Wired
<1>4. ASSUME NEW y \in {"eof", "reset"}, Send(r, <<y>>), Finish(r, <<>>)
      PROVE  TableInv'
  <2>1. PICK w1 : w1 = IF r \in gone THEN wire[r] ELSE wire[r] \o <<y>>
    OBVIOUS
  <2>2. wire' = [wire EXCEPT ![r] = w1]
    BY <1>4, <2>1 DEF Send
  <2>3. <<>> \o <<Event0("REQUEST_HANDLER_ENDED")>> = <<Event0("REQUEST_HANDLER_ENDED")>>
    BY ConcatEmptySeq
  <2>4. PICK v1 : v1 = served[r] \o <<Event0("REQUEST_HANDLER_ENDED")>>
    OBVIOUS
  <2>5. served' = [served EXCEPT ![r] = v1] /\ handler' = [handler EXCEPT ![r] = "done"]
    BY <1>4, <2>3, <2>4 DEF Finish, Serve
  <2> HIDE DEF good
  <2>6. ASSUME client[r] # "abandoned" PROVE Kept(client[r], status[r], evidence[r], w1, "done", v1, good)
    <3>1. PICK w \in Seq(Wired) : w = wire[r]
      BY <1>3, <2>6
    <3>2. w \o <<y>> = Append(w, y)
      BY <3>1, AppendIsConcat DEF Wired
    <3>3. w1 = Append(w, y) \/ (w1 = w /\ client[r] \notin {"sending", "reading"})
      BY <1>2, <2>1, <3>1, <3>2
    <3>4. PICK z \in Entries : z = Event0("REQUEST_HANDLER_ENDED")
      BY NewEvent DEF EventKinds
    <3>5. PICK v \in Seq(Entries) : v = served[r]
      BY <1>3, <2>6
    <3>6. v1 = Append(v, z)
      BY <2>4, <3>4, <3>5, OneMore
    <3>7. Kept(client[r], status[r], evidence[r], w, "serving", v, good)
      BY <1>2, <2>6, <3>1, <3>5
    <3> QED BY <1>2, <2>6, <3>3, <3>4, <3>6, <3>7, KeptFinishes
  <2> QED BY <1>1, <2>2, <2>5, <2>6, ServerRow DEF good
<1>5. ASSUME x \in Frames, Send(r, <<x>>), Serve(r, <<Event("SENT", x)>>), UNCHANGED handler
      PROVE  TableInv'
  <2>1. PICK f \in Frames : f = x
    BY <1>5
  <2> HIDE DEF x
  <2>2. PICK w1 : w1 = IF r \in gone THEN wire[r] ELSE wire[r] \o <<f>>
    OBVIOUS
  <2>3. wire' = [wire EXCEPT ![r] = w1]
    BY <1>5, <2>1, <2>2 DEF Send
  <2>4. PICK v1 : v1 = served[r] \o <<Event("SENT", f)>>
    OBVIOUS
  <2>5. served' = [served EXCEPT ![r] = v1]
    BY <1>5, <2>1, <2>4 DEF Serve
  <2> HIDE DEF good
  <2>6. ASSUME client[r] # "abandoned" PROVE Kept(client[r], status[r], evidence[r], w1, "serving", v1, good)
    <3>1. PICK w \in Seq(Wired) : w = wire[r]
      BY <1>3, <2>6
    <3>2. w \o <<f>> = Append(w, f)
      BY <3>1, AppendIsConcat DEF Wired
    <3>3. w1 = Append(w, f) \/ (w1 = w /\ client[r] \notin {"sending", "reading"})
      BY <1>2, <2>2, <3>1, <3>2
    <3>4. PICK z \in Entries : z = Event("SENT", f)
      BY WiredFacts, NewEvent DEF EventKinds
    <3>5. PICK v \in Seq(Entries) : v = served[r]
      BY <1>3, <2>6
    <3>6. v1 = Append(v, z)
      BY <2>4, <3>4, <3>5, OneMore
    <3>7. Kept(client[r], status[r], evidence[r], w, "serving", v, good)
      BY <1>2, <2>6, <3>1, <3>5
    <3> QED BY <1>2, <2>6, <3>3, <3>4, <3>6, <3>7, KeptSends
  <2>7. handler' = handler
    BY <1>5
  <2> QED BY <1>1, <2>3, <2>5, <2>6, <2>7, ServerRow DEF good
<1>6. ASSUME Serve(r, <<Event0("STALL_STARTED")>>), handler' = [handler EXCEPT ![r] = "stalled"], UNCHANGED wire
      PROVE  TableInv'
  <2>1. PICK v1 : v1 = served[r] \o <<Event0("STALL_STARTED")>>
    OBVIOUS
  <2>2. served' = [served EXCEPT ![r] = v1]
    BY <1>6, <2>1 DEF Serve
  <2> HIDE DEF good
  <2>3. ASSUME client[r] # "abandoned" PROVE Kept(client[r], status[r], evidence[r], wire[r], "stalled", v1, good)
    <3>1. PICK z \in Entries : z = Event0("STALL_STARTED")
      BY NewEvent DEF EventKinds
    <3>2. PICK v \in Seq(Entries) : v = served[r]
      BY <1>3, <2>3
    <3>3. v1 = Append(v, Event0("STALL_STARTED"))
      BY <2>1, <3>1, <3>2, OneMore
    <3>4. Kept(client[r], status[r], evidence[r], wire[r], "serving", v, good)
      BY <1>2, <2>3, <3>2
    <3> QED BY <1>2, <3>3, <3>4, KeptLogs
  <2>4. wire' = wire
    BY <1>6
  <2> QED BY <1>1, <1>6, <2>2, <2>3, <2>4, ServerRow DEF good
<1> QED BY <1>4, <1>5, <1>6 DEF Act

LEMMA LeavesTable ==
  ASSUME RestOK, PlaceOK, TableInv, NEW r \in Requests, StallEnds(r) \/ Disconnected(r) \/ CancelHandler(r)
  PROVE  TableInv'
<1> DEFINE good == Script[r][1] # "httpError"
<1>1. handler[r] \in {"serving", "stalled"} /\ KeepClient /\ wire' = wire
  BY DEF StallEnds, Disconnected, CancelHandler, KeepClient, KeepRun
<1>2. /\ DOMAIN wire = Requests /\ DOMAIN served = Requests /\ good \in BOOLEAN
      /\ client[r] # "abandoned" =>
           /\ Kept(client[r], status[r], evidence[r], wire[r], handler[r], served[r], good)
           /\ evidence[r] \in Seq(Entries) /\ served[r] \in Seq(Entries)
      /\ r \in gone => client[r] \notin {"sending", "reading"}
  BY Finds DEF Kept
<1>3. CASE StallEnds(r)
  <2>1. handler' = [handler EXCEPT ![r] = "serving"] /\ served' = served
    BY <1>3 DEF StallEnds
  <2> HIDE DEF good
  <2>2. ASSUME client[r] # "abandoned" PROVE Kept(client[r], status[r], evidence[r], wire[r], "serving", served[r], good)
    BY <1>1, <1>2, <2>2, KeptLogs
  <2> QED BY <1>1, <2>1, <2>2, ServerRow DEF good
<1>4. ASSUME NEW events, Finish(r, events), r \in gone,
             events = <<>> \/ events = <<Event0("CLIENT_DISCONNECTED")>>
      PROVE  TableInv'
  <2>1. PICK v1 : v1 = served[r] \o (events \o <<Event0("REQUEST_HANDLER_ENDED")>>)
    OBVIOUS
  <2>2. served' = [served EXCEPT ![r] = v1] /\ handler' = [handler EXCEPT ![r] = "done"]
    BY <1>4, <2>1 DEF Finish, Serve
  <2> HIDE DEF good
  <2>3. ASSUME client[r] # "abandoned" PROVE Kept(client[r], status[r], evidence[r], wire[r], "done", v1, good)
    <3>1. PICK z \in Entries : z = Event0("REQUEST_HANDLER_ENDED")
      BY NewEvent DEF EventKinds
    <3>2. PICK y \in Entries : y = Event0("CLIENT_DISCONNECTED")
      BY NewEvent DEF EventKinds
    <3>3. PICK v \in Seq(Entries) : v = served[r]
      BY <1>2, <2>3
    <3>4. Kept(client[r], status[r], evidence[r], wire[r], handler[r], v, good) /\ evidence[r] \in Seq(Entries)
      BY <1>2, <2>3, <3>3
    <3>5. client[r] \notin {"sending", "reading"}
      BY <1>2, <1>4
    <3>6. CASE events = <<>>
      <4>1. <<>> \o <<z>> = <<z>>
        BY ConcatEmptySeq
      <4>2. v1 = Append(v, z)
        BY <2>1, <3>1, <3>3, <3>6, <4>1, OneMore
      <4> QED BY <1>1, <1>2, <3>1, <3>4, <3>5, <4>2, KeptFinishes
    <3>7. CASE events = <<Event0("CLIENT_DISCONNECTED")>>
      <4>1. v1 = Append(Append(v, y), z)
        <5>1. <<y>> \o <<z>> = <<y, z>> /\ v \o <<y, z>> = Append(Append(v, y), z)
          BY TwoMore
        <5> QED BY <2>1, <3>1, <3>2, <3>3, <3>7, <5>1
      <4>2. Kept(client[r], status[r], evidence[r], wire[r], handler[r], Append(v, y), good)
        BY <1>1, <1>2, <3>2, <3>4, KeptLogs
      <4> QED BY <1>1, <1>2, <3>1, <3>4, <3>5, <4>1, <4>2, KeptFinishes
    <3> QED BY <1>4, <3>6, <3>7
  <2> QED BY <1>1, <2>2, <2>3, ServerRow DEF good
<1>5. CASE Disconnected(r)
  BY <1>4, <1>5 DEF Disconnected
<1>6. CASE CancelHandler(r)
  BY <1>4, <1>6 DEF CancelHandler
<1> QED BY <1>3, <1>5, <1>6

\* Some of those that waited start.
Starting(S) ==
  /\ \A r \in S : client[r] \in Unstarted /\ client'[r] = "sending" /\ evidence'[r] = evidence[r] \o Started
  /\ \A r \in Requests \ S : /\ evidence'[r] = evidence[r]
                             /\ client'[r] = client[r] \/ (client[r] \in Unstarted /\ client'[r] \in Unstarted)
  /\ DOMAIN evidence' = Requests

LEMMA StartTable ==
  ASSUME RestOK, PlaceOK, TableInv, KeepIdle, NEW S \in SUBSET Requests, Starting(S)
  PROVE  TableInv'
<1> USE DEF Starting
<1>1. UNCHANGED <<status, deltas, kind, gone, wire, handler, served>>
  BY DEF KeepIdle, serverVars
<1>2. ASSUME NEW r \in S PROVE Retained(r)'
  <2> DEFINE good == Script[r][1] # "httpError"
  <2>1. /\ Told(client[r], status[r], kind[r], deltas[r], evidence[r])
        /\ Kept(client[r], status[r], evidence[r], wire[r], handler[r], served[r], good)
        /\ r \notin gone /\ good \in BOOLEAN
    <3>1. r \in Requests /\ client[r] \in Unstarted
      BY <1>2
    <3> QED BY <3>1, Finds DEF Unstarted
  <2>2. client[r] \in Unstarted /\ client'[r] = "sending"
    BY <1>2
  <2>3. handler[r] = "new"
    BY <2>1, <2>2 DEF Kept
  <2>4. PICK a : a = evidence'[r]
    OBVIOUS
  <2>5. a = evidence[r] \o Started
    BY <1>2, <2>4
  <2>6. Told("sending", status[r], kind[r], deltas[r], evidence[r] \o Started)
    BY <2>1, <2>2, TellStarted
  <2> HIDE DEF good
  <2>7. Kept("sending", status[r], a, wire[r], handler[r], served[r], good)
    BY <2>1, <2>3, KeptNew
  <2> QED BY <1>1, <2>1, <2>2, <2>4, <2>5, <2>6, <2>7 DEF Retained, good
<1>3. ASSUME NEW r \in Requests \ S PROVE Retained(r)'
  <2>1. Retained(r) /\ r \in Requests
    BY <1>3 DEF TableInv
  <2>2. Spares(r)
    BY <1>1, <1>3 DEF Spares
  <2> QED BY <2>1, <2>2, Spared
<1>4. DOMAIN wire' = Requests /\ DOMAIN served' = Requests
  BY <1>1 DEF TableInv
<1> QED BY <1>2, <1>3, <1>4 DEF TableInv

LEMMA WhoStarts ==
  ASSUME RestOK, PlaceInv, TableInv, StartWarmup \/ StartTasks \/ Resume
  PROVE  KeepIdle /\ \E S \in SUBSET Requests : Starting(S)
<1>1. /\ load \in Loads /\ client \in [Requests -> States] /\ DOMAIN evidence = Requests /\ PlaceOK
      /\ \A r \in Requests : client[r] # "abandoned" => evidence[r] \in Seq(Entries)
  <2>1. DOMAIN evidence = Requests
    BY DEF TableInv
  <2>2. \A r \in Requests : client[r] # "abandoned" => evidence[r] \in Seq(Entries)
    BY Finds DEF PlaceInv
  <2> QED BY <2>1, <2>2 DEF PlaceInv, PlaceOK
<1>2. ASSUME NEW r \in Requests, client[r] \in Unstarted, client' = [client EXCEPT ![r] = "sending"],
             Log(r, Started)
      PROVE  \E S \in SUBSET Requests : Starting(S)
  <2>1. /\ client'[r] = "sending" /\ evidence'[r] = evidence[r] \o Started /\ DOMAIN evidence' = Requests
        /\ \A c \in Requests \ {r} : client'[c] = client[c] /\ evidence'[c] = evidence[c]
    BY <1>1, <1>2 DEF Log
  <2>2. PICK S \in SUBSET Requests : S = {r}
    BY <1>2
  <2>3. \A c \in S : client[c] \in Unstarted /\ client'[c] = "sending" /\ evidence'[c] = evidence[c] \o Started
    BY <1>2, <2>1, <2>2
  <2>4. \A c \in Requests \ S : evidence'[c] = evidence[c] /\ client'[c] = client[c]
    BY <2>1, <2>2
  <2> QED BY <2>1, <2>3, <2>4 DEF Starting
<1>3. CASE StartWarmup
  <2>1. Warmup \in Requests
    BY <1>1, LoadFacts
  <2> QED BY <1>2, <1>3, <2>1 DEF StartWarmup, Unstarted
<1>4. CASE Resume
  <2>1. phase = "measured" /\ ready # <<>> /\ ~aborting
    BY <1>4 DEF Resume, PlaceInv, StartedInv, PlaceOK
  <2>2. PICK s \in 0..Len(Measured), t \in 0..Len(Measured) :
          s <= t /\ Line(s, t) /\ (ready = <<>> <=> s = t) /\ (s < t => Head(ready) = Measured[s + 1])
    BY <2>1, InLine
  <2>3. Len(Measured) \in Nat /\ \A i \in 1..Len(Measured) : Measured[i] \in Requests
    BY <1>1, LoadFacts
  <2>4. s < t /\ s + 1 \in 1..Len(Measured) /\ ~(s + 1 <= s) /\ s + 1 <= t
    BY <2>1, <2>2, <2>3
  <2>5. Head(ready) \in Requests /\ client[Head(ready)] = "granted"
    BY <2>2, <2>3, <2>4 DEF Line
  <2> QED BY <1>2, <1>4, <2>5 DEF Resume, Unstarted
<1>5. CASE StartTasks
  <2>1. phase = "created"
    BY <1>5 DEF StartTasks
  <2> DEFINE n == IF Len(Measured) < Concurrency THEN Len(Measured) ELSE Concurrency
             S == Range(SubSeq(Measured, 1, n))
  <2>2. /\ client' = [r \in Requests |-> IF r \in S THEN "sending"
                                         ELSE IF r \in Range(Measured) THEN "queued" ELSE client[r]]
        /\ evidence' = [r \in Requests |-> evidence[r] \o (IF r \in S THEN Started ELSE <<>>)]
    BY <1>5 DEF StartTasks
  <2>3. n \in 0..Len(Measured)
    BY <1>1, LoadFacts, FixtureAssumption DEF FixtureAssumption
  <2>4. S \subseteq Range(Measured) /\ S \in SUBSET Requests
    <3> HIDE DEF n
    <3>1. S = {Measured[i] : i \in 1..n}
      BY <1>1, <2>3, FirstOnes
    <3>2. \A i \in 1..n : i \in 1..Len(Measured)
      BY <1>1, <2>3, LoadFacts
    <3> QED BY <1>1, <3>1, <3>2, LoadFacts
  <2>5. /\ \A r \in Range(Measured) : client[r] = "new"
        /\ \A r \in Requests : client[r] # "abandoned"
    BY <2>1 DEF PlaceInv, ClientInv
  <2> HIDE DEF S
  <2>6. \A r \in S : client[r] \in Unstarted /\ client'[r] = "sending" /\ evidence'[r] = evidence[r] \o Started
    BY <2>2, <2>4, <2>5 DEF Unstarted
  <2>7. ASSUME NEW r \in Requests \ S
        PROVE  /\ evidence'[r] = evidence[r]
               /\ client'[r] = client[r] \/ (client[r] \in Unstarted /\ client'[r] \in Unstarted)
    <3>1. evidence[r] \o <<>> = evidence[r]
      BY <1>1, <2>5, <2>7, ConcatEmptySeq
    <3> QED BY <2>2, <2>5, <2>7, <3>1 DEF Unstarted
  <2>8. DOMAIN evidence' = Requests
    BY <2>2
  <2>9. KeepIdle
    BY <1>5 DEF StartTasks
  <2> QED BY <2>4, <2>6, <2>7, <2>8, <2>9 DEF Starting
<1> QED BY <1>3, <1>4, <1>5

LEMMA StartsTable ==
  ASSUME RestOK, PlaceInv, TableInv, StartWarmup \/ StartTasks \/ Resume
  PROVE  TableInv'
<1>1. KeepIdle
  BY WhoStarts
<1>2. PICK S \in SUBSET Requests : Starting(S)
  BY WhoStarts
<1> QED BY <1>1, <1>2, StartTable DEF PlaceInv

LEMMA InterruptTable ==
  ASSUME RestOK, PlaceInv, TableInv, Interrupt
  PROVE  TableInv'
<1> DEFINE awaited == CASE phase = "warmup" -> {Warmup} [] phase = "measured" -> Range(Measured) [] OTHER -> {}
           caught == {r \in awaited : client[r] \in {"sending", "reading", "draining"}}
           lost == {r \in awaited : client[r] \in {"new", "queued", "granted", "closing"}}
<1>1. /\ client' = [r \in Requests |-> IF r \in caught THEN "closing"
                                       ELSE IF r \in lost THEN "abandoned" ELSE client[r]]
      /\ kind' = [r \in Requests |-> IF r \in caught THEN "CANCELLED" ELSE kind[r]]
      /\ gone' = gone \cup {r \in lost : client[r] = "closing"}
      /\ UNCHANGED <<status, deltas, wire, evidence, handler, served>>
  BY DEF Interrupt, serverVars, logVars
<1>2. PlaceOK
  BY DEF PlaceInv
<1>3. ASSUME NEW r \in Requests, r \in caught PROVE Retained(r)'
  <2> DEFINE good == Script[r][1] # "httpError"
  <2>1. client[r] \in {"sending", "reading", "draining"} /\ r \notin lost
    BY <1>3
  <2>2. /\ Told(client[r], status[r], kind[r], deltas[r], evidence[r])
        /\ Kept(client[r], status[r], evidence[r], wire[r], handler[r], served[r], good)
        /\ evidence[r] \in Seq(Entries) /\ r \notin gone /\ good \in BOOLEAN
    BY <2>1, Finds
  <2> HIDE DEF good, caught, lost
  <2>3. Told("closing", status[r], "CANCELLED", deltas[r], evidence[r])
    BY <2>1, <2>2, TellFailure
  <2>4. client[r] \notin Unstarted /\ "closing" \notin Unstarted
    BY <2>1 DEF Unstarted
  <2>5. Kept("closing", status[r], evidence[r], wire[r], handler[r], served[r], good)
    BY <2>2, <2>4, KeptAway
  <2>6. client'[r] = "closing" /\ kind'[r] = "CANCELLED" /\ r \notin gone'
    BY <1>1, <1>3, <2>1, <2>2
  <2> QED BY <1>1, <2>3, <2>5, <2>6 DEF Retained, good
<1>4. ASSUME NEW r \in Requests, r \notin caught PROVE Retained(r)'
  <2>1. /\ kind'[r] = kind[r] /\ client'[r] = IF r \in lost THEN "abandoned" ELSE client[r]
        /\ r \in gone' => r \in gone \/ r \in lost
    BY <1>1, <1>4
  <2> HIDE DEF caught, lost
  <2>2. Spares(r)
    BY <1>1, <2>1 DEF Spares
  <2> QED BY <2>2, Spared DEF TableInv
<1> HIDE DEF caught, lost
<1>5. DOMAIN evidence' = Requests /\ DOMAIN wire' = Requests /\ DOMAIN served' = Requests
  BY <1>1 DEF TableInv
<1> QED BY <1>3, <1>4, <1>5 DEF TableInv

LEMMA SameTable ==
  ASSUME TableInv, UNCHANGED <<client, status, deltas, kind, gone, wire, evidence, handler, served>>
  PROVE  TableInv'
<1>1. \A r \in Requests : Retained(r)'
  BY Spared DEF Spares, TableInv
<1> QED BY <1>1 DEF TableInv

LEMMA TableStep ==
  ASSUME IInv, TableInv, [Next]_vars
  PROVE  TableInv'
<1> USE DEF IInv
<1>1. PlaceOK
  BY DEF PlaceInv
<1>2. CASE StartWarmup \/ StartTasks \/ Resume
  BY <1>2, StartsTable
<1>3. CASE Gathered \/ Stopped \/ UNCHANGED vars
  <2>1. UNCHANGED <<client, status, deltas, kind, gone, wire, evidence, handler, served>>
    BY <1>3 DEF Gathered, Stopped, vars, KeepRun, clientVars, logVars, serverVars
  <2> QED BY <2>1, SameTable
<1>4. CASE Interrupt
  BY <1>4, InterruptTable
<1>5. ASSUME NEW r \in Requests, Client(r) \/ Server(r) \/ Timeout(r)
      PROVE  TableInv'
  <2>1. CASE ReadHead(r)
    BY <1>1, <2>1, HeadTable
  <2>2. CASE ReadChunk(r)
    BY <1>1, <2>2, ChunkTable
  <2>3. CASE ReadEof(r) \/ ReadReset(r) \/ Timeout(r)
    BY <1>1, <2>3, OutcomeTable
  <2>4. CASE Close(r)
    BY <2>4, CloseTable
  <2>5. CASE Accept(r)
    BY <1>1, <2>5, AcceptTable
  <2>6. CASE Act(r)
    BY <1>1, <2>6, ActTable
  <2>7. CASE StallEnds(r) \/ Disconnected(r) \/ CancelHandler(r)
    BY <1>1, <2>7, LeavesTable
  <2> QED BY <1>5, <2>1, <2>2, <2>3, <2>4, <2>5, <2>6, <2>7 DEF Client, Server
<1> QED BY <1>2, <1>3, <1>4, <1>5 DEF Next, Runner

-----------------------------------------------------------------------------
(* The lifecycle log and the end of a run                                   *)

LEMMA LifecycleSame ==
  ASSUME LifecycleInv, lifecycle' = lifecycle, aborting' = aborting \/ aborting' = TRUE
  PROVE  LifecycleInv'
BY DEF LifecycleInv, Ordered, Bounded

LEMMA LifecycleOne ==
  ASSUME PlaceInv, PlaceInv', LifecycleInv, aborting' = aborting,
         NEW k \in {"CLIENT_REQUEST_STARTED", "CLIENT_REQUEST_ENDED"}, NEW r \in Requests, LogLifecycle(k, <<r>>),
         \/ k = "CLIENT_REQUEST_STARTED" /\ client[r] \in Unstarted
         \/ k = "CLIENT_REQUEST_ENDED" /\ client[r] \in InFlight
  PROVE  LifecycleInv'
<1>1. lifecycle \in Seq(Lifecycle) /\ ActiveBound'
  BY ActiveStaysBounded DEF PlaceInv, LogInv
<1>2. \/ k = "CLIENT_REQUEST_STARTED" /\ ~Mentioned(r)
      \/ k = "CLIENT_REQUEST_ENDED" /\ Mentioned(r) /\ ~Ended(r)
  BY DEF PlaceInv, LogInv, Unstarted
<1>3. PICK rs \in Seq(Requests) : rs = <<r>>
  <2>1. \A x \in Requests : <<x>> \in Seq(Requests)
    OBVIOUS
  <2> QED BY <2>1
<1>4. Len(rs) = 1 /\ rs[1] = r /\ \A j \in 1..1 : j = 1
  BY <1>3
<1>5. LogLifecycle(k, rs)
  BY <1>3
<1>6. \A i, j \in 1..Len(rs) : i # j => rs[i] # rs[j]
  BY <1>4
<1>7. \/ k = "CLIENT_REQUEST_STARTED" /\ \A j \in 1..Len(rs) : ~Mentioned(rs[j])
      \/ k = "CLIENT_REQUEST_ENDED" /\ Len(rs) = 1 /\ Mentioned(rs[1]) /\ ~Ended(rs[1])
  BY <1>2, <1>4
<1> QED BY <1>1, <1>5, <1>6, <1>7, LifecycleMore

LEMMA LifecycleStep ==
  ASSUME PlaceInv, PlaceInv', LifecycleInv, [Next]_vars
  PROVE  LifecycleInv'
<1>1. load \in Loads /\ Warmup \in Requests
  BY LoadFacts DEF PlaceInv, PlaceOK
<1>2. CASE StartWarmup
  <2>1. /\ client[Warmup] \in Unstarted /\ LogLifecycle("CLIENT_REQUEST_STARTED", <<Warmup>>)
        /\ aborting' = aborting
    BY <1>2 DEF StartWarmup, KeepIdle, Unstarted
  <2> QED BY <1>1, <2>1, LifecycleOne
<1>3. CASE Resume
  <2>1. phase = "measured" /\ ready # <<>> /\ ~aborting
    BY <1>3 DEF Resume, PlaceInv, StartedInv, PlaceOK
  <2>2. PICK s \in 0..Len(Measured), t \in 0..Len(Measured) :
          s <= t /\ Line(s, t) /\ (ready = <<>> <=> s = t) /\ (s < t => Head(ready) = Measured[s + 1])
    BY <2>1, InLine
  <2>3. Len(Measured) \in Nat /\ \A i \in 1..Len(Measured) : Measured[i] \in Requests
    BY <1>1, LoadFacts
  <2>4. s < t /\ s + 1 \in 1..Len(Measured) /\ ~(s + 1 <= s) /\ s + 1 <= t
    BY <2>1, <2>2, <2>3
  <2>5. PICK r \in Requests : r = Head(ready) /\ client[r] \in Unstarted
    BY <2>2, <2>3, <2>4 DEF Line, Unstarted
  <2>6. LogLifecycle("CLIENT_REQUEST_STARTED", <<r>>) /\ aborting' = aborting
    BY <1>3, <2>5 DEF Resume, KeepIdle
  <2> QED BY <2>5, <2>6, LifecycleOne
<1>4. CASE StartTasks
  <2> DEFINE n == IF Len(Measured) < Concurrency THEN Len(Measured) ELSE Concurrency
             first == SubSeq(Measured, 1, n)
  <2>1. phase = "created" /\ LogLifecycle("CLIENT_REQUEST_STARTED", first) /\ aborting' = aborting
    BY <1>4 DEF StartTasks, KeepIdle
  <2>2. n \in 0..Len(Measured) /\ 0 \in 0..Len(Measured)
    BY <1>1, LoadFacts, FixtureAssumption DEF FixtureAssumption
  <2>3. /\ Measured \in Seq(Requests) /\ Len(Measured) \in Nat
        /\ \A i \in 1..Len(Measured) : Measured[i] \in Range(Measured)
        /\ \A i, j \in 1..Len(Measured) : Measured[i] = Measured[j] => i = j
        /\ Range(Measured) \subseteq Requests
    BY <1>1, LoadFacts
  <2> HIDE DEF n
  <2>4. first \in Seq(Requests) /\ Len(first) = n /\ \A i \in 1..n : first[i] = Measured[i]
    <3>1. /\ SubSeq(Measured, 0 + 1, n) \in Seq(Requests) /\ Len(SubSeq(Measured, 0 + 1, n)) = n - 0
          /\ \A i \in 1..(n - 0) : SubSeq(Measured, 0 + 1, n)[i] = Measured[0 + i]
      BY <2>2, <2>3, Slice
    <3> QED BY <2>2, <2>3, <3>1
  <2>5. \A i \in 1..n : i \in 1..Len(Measured)
    BY <2>2, <2>3
  <2>6. \A r \in Range(Measured) : client[r] = "new"
    BY <2>1 DEF PlaceInv, ClientInv
  <2> HIDE DEF first
  <2>7. \A i, j \in 1..Len(first) : i # j => first[i] # first[j]
    BY <2>3, <2>4, <2>5
  <2>8. \A j \in 1..Len(first) : ~Mentioned(first[j])
    <3>1. \A r \in Range(Measured) : ~Mentioned(r)
      BY <2>3, <2>6 DEF PlaceInv, LogInv
    <3> QED BY <2>3, <2>4, <2>5, <3>1
  <2>9. lifecycle \in Seq(Lifecycle) /\ ActiveBound'
    BY ActiveStaysBounded DEF PlaceInv, LogInv
  <2> QED BY <2>1, <2>4, <2>7, <2>8, <2>9, LifecycleMore
<1>5. CASE Gathered \/ Stopped \/ Interrupt \/ UNCHANGED vars
  <2>1. lifecycle' = lifecycle /\ (aborting' = aborting \/ aborting' = TRUE)
    BY <1>5 DEF Gathered, Stopped, Interrupt, KeepRun, vars, logVars
  <2> QED BY <2>1, LifecycleSame
<1>6. ASSUME NEW r \in Requests, Client(r) \/ Timeout(r) PROVE LifecycleInv'
  <2>1. CASE Close(r)
    <3>1. /\ LogLifecycle("CLIENT_REQUEST_ENDED", <<r>>) /\ aborting' = aborting /\ client[r] \in InFlight
      BY <2>1 DEF Close, InFlight
    <3> QED BY <3>1, LifecycleOne
  <2>2. CASE ReadHead(r) \/ ReadChunk(r) \/ ReadEof(r) \/ ReadReset(r) \/ Timeout(r)
    <3>1. lifecycle' = lifecycle /\ aborting' = aborting
      BY <2>2, ReadersGoOn DEF GoesOn
    <3> QED BY <3>1, LifecycleSame
  <2> QED BY <1>6, <2>1, <2>2 DEF Client
<1>7. ASSUME NEW r \in Requests, Server(r) PROVE LifecycleInv'
  BY <1>7, ServerMovesNobody, LifecycleSame
<1> QED BY <1>2, <1>3, <1>4, <1>5, <1>6, <1>7 DEF Next, Runner

\* A run that is over does nothing more.
LEMMA OverStays ==
  ASSUME IInv, StopInv, Over, [Next]_vars
  PROVE  UNCHANGED vars
<1>1. phase \in {"accepted", "refused"} /\ \A r \in Requests : handler[r] \in {"new", "done"}
  BY DEF Over, StopInv
<1>2. \A r \in Requests : client[r] \in {"new", "ended", "abandoned"}
  BY <1>1 DEF IInv, PlaceInv, ClientInv, Planned, StopInv
<1>3. ~Runner /\ ~Interrupt
  BY <1>1 DEF Runner, StartWarmup, StartTasks, Resume, Gathered, Stopped, Interrupt
<1>4. ASSUME NEW r \in Requests, Client(r) \/ Timeout(r) PROVE FALSE
  <2>1. client[r] \in InFlight
    BY <1>4 DEF Client, Timeout, ReadHead, ReadChunk, ReadEof, ReadReset, Close, InFlight
  <2> QED BY <1>2, <2>1 DEF InFlight
<1>5. ASSUME NEW r \in Requests, Server(r) PROVE FALSE
  <2>1. handler[r] \in {"serving", "stalled"} \/ phase \in {"warmup", "created", "measured", "stopping"}
    BY <1>5 DEF Server, Accept, Act, StallEnds, Disconnected, CancelHandler
  <2> QED BY <1>1, <1>5, <2>1
<1> QED BY <1>3, <1>4, <1>5 DEF Next

LEMMA EndedStays ==
  ASSUME IInv, [Next]_vars, phase \notin {"warmup", "created", "measured"},
         \A r \in Planned : client[r] = "ended"
  PROVE  \A r \in Planned' : client'[r] = "ended"
<1>1. load \in Loads /\ PlaceInv /\ client \in [Requests -> States]
  BY DEF IInv, PlaceInv, PlaceOK
<1>2. load' = load /\ Planned' = Planned /\ Planned \subseteq Requests
  <2>1. load' = load
    <3>1. CASE Runner \/ UNCHANGED vars
      BY <3>1 DEF Runner, StartWarmup, StartTasks, Resume, Gathered, Stopped, KeepIdle, KeepRun, vars
    <3>2. CASE Interrupt
      BY <3>2 DEF Interrupt
    <3>3. ASSUME NEW r \in Requests, Client(r) \/ Timeout(r) PROVE load' = load
      <4>1. CASE Close(r)
        BY <4>1 DEF Close
      <4> QED BY <1>1, <3>3, <4>1, ReadersGoOn DEF Client, GoesOn
    <3> QED BY <3>1, <3>2, <3>3, ServerMovesNobody DEF Next
  <2> QED BY <1>1, <2>1, SameLoad, LoadFacts
<1>3. ASSUME NEW r \in Requests, Client(r) \/ Timeout(r), client[r] \in InFlight PROVE FALSE
  <2>1. r \in Planned
    BY <1>1, <1>3 DEF PlaceInv, ClientInv, InFlight
  <2> QED BY <1>3, <2>1 DEF InFlight
<1>4. ASSUME NEW r \in Requests, Client(r) \/ Timeout(r) PROVE FALSE
  <2>1. client[r] \in InFlight
    BY <1>4 DEF Client, Timeout, ReadHead, ReadChunk, ReadEof, ReadReset, Close, InFlight
  <2> QED BY <1>3, <1>4, <2>1
<1>5. CASE Interrupt
  <2> DEFINE awaited == CASE phase = "warmup" -> {Warmup} [] phase = "measured" -> Range(Measured) [] OTHER -> {}
             caught == {r \in awaited : client[r] \in {"sending", "reading", "draining"}}
             lost == {r \in awaited : client[r] \in {"new", "queued", "granted", "closing"}}
  <2>1. client' = [r \in Requests |-> IF r \in caught THEN "closing"
                                      ELSE IF r \in lost THEN "abandoned" ELSE client[r]]
    BY <1>5 DEF Interrupt
  <2> QED BY <1>2, <2>1
<1>6. CASE Runner \/ UNCHANGED vars
  <2>1. client' = client
    BY <1>6 DEF Runner, StartWarmup, StartTasks, Resume, Gathered, Stopped, KeepRun, clientVars, vars
  <2> QED BY <1>2, <2>1
<1>7. ASSUME NEW r \in Requests, Server(r) PROVE client' = client
  BY <1>7, ServerMovesNobody
<1> QED BY <1>2, <1>4, <1>5, <1>6, <1>7 DEF Next

LEMMA StopStep ==
  ASSUME IInv, StopInv, [Next]_vars
  PROVE  StopInv'
<1>1. CASE Over
  <2>1. UNCHANGED vars
    BY <1>1, OverStays
  <2> QED BY <2>1 DEF vars, clientVars, logVars, serverVars, StopInv, Over, BundleValid, Planned, Measured
<1>2. CASE ~Over
  <2>1. /\ load \in Loads /\ phase \in Phases /\ aborting \in BOOLEAN /\ PlaceInv
    BY DEF IInv, PlaceInv, PlaceOK
  <2>2. ASSUME phase' \notin {"warmup", "created", "measured"}, ~aborting'
        PROVE  \A r \in Planned' : client'[r] = "ended"
    <3>1. CASE phase \notin {"warmup", "created", "measured"}
      <4>1. ~aborting
        <5>1. CASE Runner \/ UNCHANGED vars
          BY <2>2, <5>1 DEF Runner, StartWarmup, StartTasks, Resume, Gathered, Stopped, KeepIdle, vars
        <5>2. CASE Interrupt
          BY <2>2, <3>1, <5>2 DEF Interrupt
        <5>3. ASSUME NEW r \in Requests, Client(r) \/ Timeout(r) PROVE ~aborting
          <6>1. CASE Close(r)
            BY <2>2, <6>1 DEF Close
          <6> QED BY <2>1, <2>2, <5>3, <6>1, ReadersGoOn DEF Client, GoesOn
        <5> QED BY <2>2, <5>1, <5>2, <5>3, ServerMovesNobody DEF Next
      <4>2. \A r \in Planned : client[r] = "ended"
        BY <3>1, <4>1 DEF StopInv
      <4> QED BY <3>1, <4>2, EndedStays
    <3>2. CASE phase \in {"warmup", "created", "measured"}
      <4>1. CASE Gathered
        <5>1. /\ phase = "measured"
              /\ \/ \A r \in Range(Measured) : client[r] = "ended"
                 \/ \E r \in Range(Measured) : client[r] = "abandoned"
              /\ UNCHANGED <<aborting, client, load>>
          BY <4>1 DEF Gathered, KeepRun, clientVars
        <5>2. \A r \in Planned : client[r] = "ended"
          <6>1. Planned \subseteq Requests
            BY <2>1, LoadFacts
          <6>2. \A r \in Planned : client[r] # "abandoned"
            BY <2>1, <2>2, <5>1, <6>1 DEF PlaceInv, ClientInv
          <6>3. client[Warmup] \in {"ended", "abandoned"} /\ \A r \in Range(Measured) : r \in Planned
            BY <2>1, <5>1 DEF PlaceInv, ClientInv, Planned
          <6> QED BY <5>1, <6>2, <6>3 DEF Planned
        <5> QED BY <5>1, <5>2, SameLoad
      <4>2. CASE StartWarmup \/ StartTasks \/ Resume \/ Stopped \/ UNCHANGED vars
        BY <2>2, <3>2, <4>2 DEF StartWarmup, StartTasks, Resume, Stopped, vars
      <4>3. CASE Interrupt
        BY <2>2, <3>2, <4>3 DEF Interrupt
      <4>4. ASSUME NEW r \in Requests, Client(r) \/ Timeout(r) PROVE FALSE
        <5>1. CASE Close(r)
          BY <2>2, <3>2, <5>1 DEF Close
        <5> QED BY <2>1, <2>2, <3>2, <4>4, <5>1, ReadersGoOn DEF Client, GoesOn
      <4> QED BY <2>2, <3>2, <4>1, <4>2, <4>3, <4>4, ServerMovesNobody DEF Next, Runner
    <3> QED BY <3>1, <3>2
  <2>3. ASSUME Over' PROVE Stopped
    <3>1. phase' \in {"accepted", "refused"} /\ phase \notin {"accepted", "refused"}
      BY <1>2, <2>3 DEF Over
    <3>2. ~StartWarmup /\ ~StartTasks /\ ~Resume /\ ~Gathered /\ ~UNCHANGED vars
      BY <3>1 DEF StartWarmup, StartTasks, Resume, Gathered, vars
    <3>3. ~Interrupt
      BY <3>1 DEF Interrupt
    <3>4. ASSUME NEW r \in Requests, Client(r) \/ Timeout(r) PROVE FALSE
      <4>1. CASE Close(r)
        BY <3>1, <4>1 DEF Close
      <4> QED BY <2>1, <3>1, <3>4, <4>1, ReadersGoOn DEF Client, GoesOn
    <3> QED BY <3>1, <3>2, <3>3, <3>4, ServerMovesNobody DEF Next, Runner
  <2>4. ASSUME Stopped
        PROVE  /\ Over' => ~aborting' /\ \A r \in Requests : handler'[r] \in {"new", "done"}
               /\ phase' = "refused" => ~BundleValid'
    <3>1. /\ UNCHANGED <<aborting, handler, status, deltas, kind, evidence, lifecycle, load>>
          /\ \A r \in Requests : handler[r] \in {"new", "done"}
          /\ phase' = IF aborting THEN "aborted" ELSE IF BundleValid THEN "accepted" ELSE "refused"
      BY <2>4 DEF Stopped, KeepRun, serverVars, clientVars, logVars
    <3>2. BundleValid' <=> BundleValid
      BY <3>1 DEF BundleValid, Planned, Measured
    <3>3. (Over' => ~aborting) /\ (phase' = "refused" => ~BundleValid)
      BY <3>1 DEF Over
    <3> QED BY <3>1, <3>2, <3>3
  <2>5. phase' = "refused" => Over'
    BY DEF Over
  <2> QED BY <2>2, <2>3, <2>4, <2>5 DEF StopInv
<1> QED BY <1>1, <1>2

LEMMA RetainedInit == Init => RetainedInv
<1> SUFFICES ASSUME Init PROVE RetainedInv
  OBVIOUS
<1>1. ASSUME NEW good \in BOOLEAN PROVE Kept("new", "none", <<>>, <<>>, "new", <<>>, good)
  <2>1. \A S : <<>> \in Seq(S)
    BY EmptySeq
  <2>2. Count(<<>>, "REQUEST_HANDLER_ENDED") = 0
    BY NothingRecorded
  <2> QED BY <2>1, <2>2 DEF Kept, Unstarted
<1>2. ASSUME NEW r \in Requests PROVE Retained(r)
  <2> DEFINE good == Script[r][1] # "httpError"
  <2>1. Kept("new", "none", <<>>, <<>>, "new", <<>>, good)
    BY <1>1
  <2> HIDE DEF good
  <2>2. /\ client[r] = "new" /\ status[r] = "none" /\ kind[r] = "NONE" /\ deltas[r] = <<>> /\ gone = {}
        /\ evidence[r] = <<>> /\ wire[r] = <<>> /\ handler[r] = "new" /\ served[r] = <<>>
    BY DEF Init
  <2> QED BY <2>1, <2>2, TellBorn DEF Retained, good
<1>3. TableInv
  BY <1>2 DEF TableInv, Init
<1>4. LifecycleInv
  <2>1. lifecycle = <<>> /\ DOMAIN lifecycle = {}
    BY EmptySeq DEF Init
  <2> QED BY <2>1 DEF LifecycleInv, Ordered, Bounded
<1>5. StopInv
  BY DEF Init, StopInv, Over
<1> QED BY <1>3, <1>4, <1>5 DEF RetainedInv

\* What a run retains, at every await: the stream events of a request say what its client is doing
\* and has made of the frames (execute_streaming_request), the server events what its handler has
\* written (_handle_client), with the wire between the two, and the lifecycle log is one the
\* validator will accept (_validate_cross_records).
THEOREM Retention == Spec => []RetainedInv
<1>1. Init => RetainedInv
  BY RetainedInit
<1>2. IInv /\ IInv' /\ RetainedInv /\ [Next]_vars => RetainedInv'
  BY TableStep, LifecycleStep, StopStep DEF IInv, RetainedInv
<1> QED BY <1>1, <1>2, Invariant, PTL DEF Spec

\* Where a sequence begins like another it is a prefix of it.
LEMMA PrefixIs ==
  ASSUME NEW S, NEW a \in Seq(S), NEW b \in Seq(S), Begins(a, b)
  PROVE  IsPrefix(a, b)
<1>1. Len(a) \in Nat /\ Len(b) \in Nat /\ Len(a) <= Len(b)
  <2>1. Len(a) \in Nat /\ Len(b) \in Nat
    BY LenProperties
  <2>2. Len(a) = 0 \/ Len(a) \in 1..Len(a)
    BY <2>1
  <2> QED BY <2>1, <2>2 DEF Begins
<1>2. 0 \in 0..Len(a) /\ 0 \in 0..Len(b) /\ Len(a) \in 0..Len(a) /\ Len(a) \in 0..Len(b)
  BY <1>1
<1>3. /\ SubSeq(a, 0 + 1, Len(a)) \in Seq(S) /\ Len(SubSeq(a, 0 + 1, Len(a))) = Len(a) - 0
      /\ \A i \in 1..(Len(a) - 0) : SubSeq(a, 0 + 1, Len(a))[i] = a[0 + i]
  BY <1>2, Slice
<1>4. /\ SubSeq(b, 0 + 1, Len(a)) \in Seq(S) /\ Len(SubSeq(b, 0 + 1, Len(a))) = Len(a) - 0
      /\ \A i \in 1..(Len(a) - 0) : SubSeq(b, 0 + 1, Len(a))[i] = b[0 + i]
  BY <1>2, Slice
<1>5. PICK s \in Seq(S) : s = SubSeq(a, 1, Len(a)) /\ Len(s) = Len(a) /\ \A i \in 1..Len(a) : s[i] = a[i]
  <2>1. /\ SubSeq(a, 1, Len(a)) \in Seq(S) /\ Len(SubSeq(a, 1, Len(a))) = Len(a)
        /\ \A i \in 1..Len(a) : SubSeq(a, 1, Len(a))[i] = a[i]
    BY ONLY <1>1, <1>3
  <2> QED BY ONLY <2>1
<1>6. PICK t \in Seq(S) : t = SubSeq(b, 1, Len(a)) /\ Len(t) = Len(a) /\ \A i \in 1..Len(a) : t[i] = b[i]
  <2>1. /\ SubSeq(b, 1, Len(a)) \in Seq(S) /\ Len(SubSeq(b, 1, Len(a))) = Len(a)
        /\ \A i \in 1..Len(a) : SubSeq(b, 1, Len(a))[i] = b[i]
    BY ONLY <1>1, <1>4
  <2> QED BY ONLY <2>1
<1>7. \A i \in 1..Len(a) : s[i] = t[i]
  BY <1>5, <1>6 DEF Begins
<1>8. s = t
  BY ONLY <1>5, <1>6, <1>7, SeqEqual
<1> QED BY <1>1, <1>5, <1>6, <1>8 DEF IsPrefix

LEMMA TakenIsWritten ==
  ASSUME NEW e \in Seq(Entries), NEW v \in Seq(Entries), Begins(Taken("ok", e), Written(v))
  PROVE  IsPrefix(Raw(e), Subjects(Recorded(v, "SENT")))
<1>1. PICK a \in Seq(Subject) : a = Raw(e)
  <2>1. PICK x \in Entries : x = Event0("SSE_DONE")
    BY NewEvent DEF EventKinds
  <2> QED BY <2>1, FramesAppend
<1>2. PICK b \in Seq(Subject) : b = Subjects(Recorded(v, "SENT"))
  <2>1. PICK x \in Entries : x = Event0("SSE_DONE")
    BY NewEvent DEF EventKinds
  <2>2. Recorded(v, "SENT") \in Seq(Entries)
    BY <2>1, RecordedAppend DEF EventKinds
  <2> QED BY <2>1, <2>2, SubjectsAppend
<1>3. Begins(<<"ok">> \o a, <<"ok">> \o b)
  BY <1>1, <1>2 DEF Taken, Written
<1>4. ASSUME NEW q \in Seq(Subject)
      PROVE  /\ Len(<<"ok">> \o q) = 1 + Len(q) /\ Len(q) \in Nat
             /\ \A i \in 1..Len(q) : (<<"ok">> \o q)[1 + i] = q[i]
  <2>1. Subject \subseteq Sendable /\ "ok" \in Sendable
    BY DEF Sendable
  <2>2. q \in Seq(Sendable)
    BY <1>4, <2>1, SeqMonotonic
  <2>3. PICK h \in Seq(Sendable) : h = <<"ok">> /\ Len(h) = 1
    <3>1. \A x \in Sendable : <<x>> \in Seq(Sendable) /\ Len(<<x>>) = 1
      OBVIOUS
    <3> QED BY <2>1, <3>1
  <2>4. /\ Len(h \o q) = Len(h) + Len(q) /\ Len(q) \in Nat
        /\ \A i \in 1..(Len(h) + Len(q)) : (h \o q)[i] = IF i <= Len(h) THEN h[i] ELSE q[i - Len(h)]
    BY <2>2, <2>3, ConcatProperties, LenProperties
  <2>5. ASSUME NEW i \in 1..Len(q) PROVE (h \o q)[1 + i] = q[i]
    <3>1. 1 + i \in 1..(Len(h) + Len(q)) /\ ~(1 + i <= Len(h)) /\ 1 + i - Len(h) = i
      BY <2>3, <2>4, <2>5
    <3>2. (h \o q)[1 + i] = q[1 + i - Len(h)]
      BY <2>4, <3>1
    <3> QED BY <3>1, <3>2
  <2> QED BY <2>3, <2>4, <2>5
<1>5. ASSUME NEW i \in 1..Len(a) PROVE i <= Len(b) /\ a[i] = b[i]
  <2>1. /\ Len(<<"ok">> \o a) = 1 + Len(a) /\ Len(a) \in Nat /\ (<<"ok">> \o a)[1 + i] = a[i]
        /\ Len(<<"ok">> \o b) = 1 + Len(b) /\ Len(b) \in Nat
    BY <1>4, <1>5
  <2>2. 1 + i \in 1..(1 + Len(a))
    BY <1>5, <2>1
  <2>3. 1 + i <= 1 + Len(b) /\ (<<"ok">> \o a)[1 + i] = (<<"ok">> \o b)[1 + i]
    BY <1>3, <2>1, <2>2 DEF Begins
  <2>4. i \in 1..Len(b)
    BY <1>5, <2>1, <2>3
  <2>5. (<<"ok">> \o b)[1 + i] = b[i]
    BY <1>4, <2>4
  <2> QED BY <2>1, <2>3, <2>4, <2>5
<1>6. Begins(a, b)
  BY <1>5 DEF Begins
<1> QED BY <1>1, <1>2, <1>6, PrefixIs

\* The server events that are written tell the whole story of each accepted request: stop has
\* awaited the handlers (FixtureServer.stop), so each has recorded its end, once and last, and
\* what it recorded as sent begins with every frame its client retained.
THEOREM ServerEvidence == Spec => []ServerEventsComplete
<1> SUFFICES ASSUME IInv, RetainedInv, Over, NEW r \in Requests, served[r] # <<>>
             PROVE  /\ served[r][1].kind = "REQUEST_ACCEPTED"
                    /\ Last(served[r]).kind = "REQUEST_HANDLER_ENDED"
                    /\ Len(Recorded(served[r], "REQUEST_HANDLER_ENDED")) = 1
                    /\ status[r] = "ok" => IsPrefix(Raw(evidence[r]), Subjects(Recorded(served[r], "SENT")))
  <2>1. IInv /\ RetainedInv => ServerEventsComplete
    BY DEF ServerEventsComplete
  <2> QED BY <2>1, Invariant, Retention, PTL
<1> DEFINE good == Script[r][1] # "httpError"
<1>1. ~aborting /\ handler[r] \in {"new", "done"} /\ client[r] # "abandoned"
  BY DEF RetainedInv, StopInv, IInv, PlaceInv, ClientInv
<1>2. /\ Kept(client[r], status[r], evidence[r], wire[r], handler[r], served[r], good)
      /\ evidence[r] \in Seq(Entries) /\ good \in BOOLEAN
  BY <1>1, Finds DEF IInv, RetainedInv
<1> HIDE DEF good
<1>3. /\ served[r] \in Seq(Entries) /\ handler[r] = "done"
      /\ served[r][1].kind = "REQUEST_ACCEPTED" /\ Last(served[r]).kind = "REQUEST_HANDLER_ENDED"
      /\ Count(served[r], "REQUEST_HANDLER_ENDED") = 1
  BY <1>1, <1>2 DEF Kept
<1>4. ASSUME status[r] = "ok" PROVE IsPrefix(Raw(evidence[r]), Subjects(Recorded(served[r], "SENT")))
  <2>1. Begins(Taken("ok", evidence[r]), Written(served[r]))
    BY <1>2, <1>3, <1>4 DEF Kept
  <2> QED BY <1>2, <1>3, <2>1, TakenIsWritten
<1> QED BY <1>3, <1>4 DEF Count

LEMMA LifecycleAccepted ==
  ASSUME PlaceInv, LifecycleInv, ~aborting, \A r \in Planned : client[r] = "ended"
  PROVE  LifecycleValid(lifecycle, Concurrency)
<1>1. /\ lifecycle \in Seq(Lifecycle)
      /\ \A r \in Requests : client[r] = "new" => ~Mentioned(r)
      /\ \A r \in Requests : client[r] = "ended" => Ended(r)
      /\ \A r \in Requests \ Planned : client[r] = "new"
  BY DEF PlaceInv, LogInv, ClientInv
<1>2. ASSUME NEW c \in ActiveAfter(lifecycle, Len(lifecycle)) PROVE FALSE
  <2>1. Mentioned(c) /\ ~Ended(c)
    BY <1>1, <1>2, ActiveIs DEF Mentioned, Ended
  <2>2. PICK i \in DOMAIN lifecycle : lifecycle[i].of = c
    BY <2>1 DEF Mentioned
  <2>3. DOMAIN lifecycle = 1..Len(lifecycle) /\ lifecycle[i] \in Lifecycle
    BY <1>1, <2>2, LenProperties, ElementOfSeq
  <2>4. c \in Requests
    BY <2>2, <2>3 DEF Lifecycle
  <2> QED BY <1>1, <2>1, <2>4
<1>3. ActiveAfter(lifecycle, Len(lifecycle)) = {}
  BY <1>2
<1> QED BY <1>3 DEF LifecycleInv, Ordered, Bounded, LifecycleValid

\* The validator accepts what the run it belongs to has retained (validate_execution_bundle), in
\* every interleaving of clients, handlers, slow reads and a cancelled warmup, unless a request
\* failed after it had seen [DONE].
THEOREM OwnEvidence == Spec => []OwnEvidenceAccepted
<1> SUFFICES ASSUME IInv, RetainedInv, phase = "refused",
                    \A r \in Requests : kind[r] = "NONE" \/ "done" \notin Range(Raw(evidence[r]))
             PROVE  FALSE
  <2>1. IInv /\ RetainedInv => OwnEvidenceAccepted
    BY DEF OwnEvidenceAccepted
  <2> QED BY <2>1, Invariant, Retention, PTL
<1>1. ~BundleValid /\ ~aborting /\ \A r \in Planned : client[r] = "ended"
  BY DEF RetainedInv, StopInv, Over
<1>2. Planned \subseteq Requests
  BY LoadFacts DEF IInv, PlaceInv, PlaceOK
<1>3. ASSUME NEW r \in Planned PROVE RequestValid(evidence[r], status[r] = "ok", kind[r], deltas[r])
  <2>1. r \in Requests /\ client[r] = "ended"
    BY <1>1, <1>2
  <2>2. Told("ended", status[r], kind[r], deltas[r], evidence[r]) /\ kind[r] \in Kinds
    BY <2>1, Finds DEF IInv, RetainedInv
  <2> QED BY <2>1, <2>2, ToldIsValid
<1>4. LifecycleValid(lifecycle, Concurrency)
  BY <1>1, LifecycleAccepted DEF IInv, RetainedInv
<1> QED BY <1>1, <1>3, <1>4 DEF BundleValid

-----------------------------------------------------------------------------
(* A run that nothing upsets                                                *)

ParsedKinds == {"SSE_COMMENT", "SSE_TOKEN_EVENT", "SSE_DONE"}
Parsed(e) == Select(e, Events(ParsedKinds))
EventsOf(q) == [i \in DOMAIN q |-> EventOf(q[i])]
Sent(v) == Subjects(Recorded(v, "SENT"))

\* A client that reads a stream has come to a frame before the one where it will stop, and has
\* parsed what it read.
Follows(s, e) == Len(Raw(e)) < StopsAt(s) /\ Parsed(e) = EventsOf(Raw(e))

\* The handler, in state h at action n, has sent the frames before it and nothing else is before
\* it; a stall is at a stall, the end of the stream at its end, and a reset at an error.
Plays(s, n, h, v, w) ==
  /\ n \in 1..(Len(s) + 1) /\ Len(Sent(v)) = n - 1
  /\ \A i \in 1..(n - 1) : Sent(v)[i] = s[i] /\ s[i] \in Frames
  /\ h = "stalled" => n <= Len(s) /\ s[n] = "stall"
  /\ "eof" \in Range(w) => n = Len(s) + 1
  /\ "reset" \in Range(w) => n <= Len(s) /\ s[n] = "httpError"

\* A client that is refused has read what is no longer on the wire.
Refused(c, s, d, e, h, w) ==
  /\ Parsed(e) = <<>> /\ d = <<>>
  /\ h = "new" => c = "sending"
  /\ c = "sending" => Raw(e) = <<>>
  /\ h # "new" => \/ c = "sending" /\ w = <<"error", "text", "eof">>
                  \/ c = "reading" /\ s = "error" /\ Raw(e) = <<>> /\ w = <<"text", "eof">>
                  \/ c = "reading" /\ s = "error" /\ Raw(e) = <<"text">> /\ w = <<"eof">>

\* The course of a request that nothing upsets: while its client reads, and what it leaves.
Runs(r, c, s, k, d, e, w, h, n, v) ==
  /\ h = "new" => n = 1
  /\ c \in {"sending", "reading"} =>
       IF Script[r][1] = "httpError" THEN Refused(c, s, d, e, h, w)
                                     ELSE Follows(Script[r], e) /\ Plays(Script[r], n, h, v, w)
  /\ c \in {"draining", "closing", "ended"} => RequestRecord(k, d, e) = DeclaredRecord(r)
Course(r) ==
  Runs(r, client[r], status[r], kind[r], deltas[r], evidence[r], wire[r], handler[r], at[r], served[r])
CourseInv == Calm => \A r \in Requests : Course(r)

\* How the lifecycle log begins, as far as the run has come.
Width == IF Len(Measured) < Concurrency THEN Len(Measured) ELSE Concurrency
Opening(i) ==
  IF i = 1 THEN Event("CLIENT_REQUEST_STARTED", Warmup)
  ELSE IF i = 2 THEN Event("CLIENT_REQUEST_ENDED", Warmup)
  ELSE Event("CLIENT_REQUEST_STARTED", Measured[i - 2])
Opened == CASE phase = "warmup" -> IF client[Warmup] = "new" THEN 0 ELSE 1
            [] phase = "created" -> 2
            [] OTHER -> 2 + Width
OpeningInv ==
  ~aborting => /\ Opened <= Len(lifecycle) /\ \A i \in 1..Opened : lifecycle[i] = Opening(i)
               /\ phase \in {"warmup", "created"} => Len(lifecycle) = Opened

-----------------------------------------------------------------------------
(* Where a client stops                                                     *)

LEMMA StopFacts ==
  ASSUME NEW s \in Seq(FixtureActions)
  PROVE  /\ Len(s) \in Nat /\ StopsAt(s) \in 1..(Len(s) + 1)
         /\ \A i \in 1..(StopsAt(s) - 1) :
              i \in 1..Len(s) /\ s[i] \in Frames /\ FrameFailure(SubSeq(s, 1, i - 1), s[i]) = "NONE"
         /\ StopsAt(s) <= Len(s) =>
              \/ s[StopsAt(s)] \notin Frames
              \/ FrameFailure(SubSeq(s, 1, StopsAt(s) - 1), s[StopsAt(s)]) # "NONE"
<1> DEFINE Stops(i) == s[i] \notin Frames \/ FrameFailure(SubSeq(s, 1, i - 1), s[i]) # "NONE"
           S == {i \in DOMAIN s : Stops(i)} \cup {Len(s) + 1}
<1>1. Len(s) \in Nat /\ DOMAIN s = 1..Len(s)
  BY LenProperties
<1>2. StopsAt(s) = CHOOSE x \in S : \A y \in S : x <= y
  BY DEF StopsAt, Min
<1> HIDE DEF Stops
<1>3. S \in SUBSET Nat /\ S # {}
  BY <1>1
<1>4. \E x \in S : \A y \in S : x <= y
  <2> HIDE DEF S
  <2> QED BY <1>3, Least
<1>5. StopsAt(s) \in S /\ \A y \in S : StopsAt(s) <= y
  <2> HIDE DEF S
  <2> QED BY <1>2, <1>4
<1>6. StopsAt(s) \in 1..(Len(s) + 1)
  BY <1>1, <1>5
<1>7. ASSUME NEW i \in 1..(StopsAt(s) - 1) PROVE i \in 1..Len(s) /\ ~Stops(i)
  BY <1>1, <1>5, <1>6, <1>7
<1>8. StopsAt(s) <= Len(s) => Stops(StopsAt(s))
  BY <1>1, <1>5, <1>6
<1> QED BY <1>1, <1>6, <1>7, <1>8 DEF Stops

\* What begins like a script is a piece of it.
LEMMA PieceIs ==
  ASSUME NEW S, NEW T, NEW s \in Seq(S), NEW q \in Seq(T), Len(q) <= Len(s), \A i \in 1..Len(q) : q[i] = s[i]
  PROVE  q = SubSeq(s, 1, Len(q))
<1>1. Len(s) \in Nat /\ Len(q) \in Nat
  BY LenProperties
<1>2. q \in Seq(S \cup T)
  <2>1. T \subseteq S \cup T
    OBVIOUS
  <2> QED BY <2>1, SeqMonotonic
<1>3. s \in Seq(S \cup T)
  <2>1. S \subseteq S \cup T
    OBVIOUS
  <2> QED BY <2>1, SeqMonotonic
<1>4. 0 \in 0..Len(s) /\ Len(q) \in 0..Len(s)
  BY <1>1
<1>5. /\ SubSeq(s, 0 + 1, Len(q)) \in Seq(S \cup T) /\ Len(SubSeq(s, 0 + 1, Len(q))) = Len(q) - 0
      /\ \A i \in 1..(Len(q) - 0) : SubSeq(s, 0 + 1, Len(q))[i] = s[0 + i]
  BY <1>3, <1>4, Slice
<1>6. PICK t \in Seq(S \cup T) : t = SubSeq(s, 1, Len(q)) /\ Len(t) = Len(q) /\ \A i \in 1..Len(q) : t[i] = s[i]
  <2>1. /\ SubSeq(s, 1, Len(q)) \in Seq(S \cup T) /\ Len(SubSeq(s, 1, Len(q))) = Len(q)
        /\ \A i \in 1..Len(q) : SubSeq(s, 1, Len(q))[i] = s[i]
    BY ONLY <1>1, <1>5
  <2> QED BY ONLY <2>1
<1>7. \A i \in 1..Len(q) : q[i] = t[i]
  BY <1>6
<1>8. q = t
  BY ONLY <1>2, <1>6, <1>7, SeqEqual
<1> QED BY <1>6, <1>8

\* The next action decides whether this is where the client stops.
LEMMA StopHere ==
  ASSUME NEW s \in Seq(FixtureActions), NEW q \in Seq(Subject), Len(q) < StopsAt(s),
         \A i \in 1..Len(q) : q[i] = s[i]
  PROVE  /\ Len(q) \in Nat /\ Len(s) \in Nat /\ Len(q) <= Len(s) /\ q = SubSeq(s, 1, Len(q))
         /\ Len(q) = Len(s) => StopsAt(s) = Len(q) + 1
         /\ Len(q) < Len(s) =>
              IF s[Len(q) + 1] \in Frames /\ FrameFailure(q, s[Len(q) + 1]) = "NONE"
                THEN Len(q) + 1 < StopsAt(s) ELSE StopsAt(s) = Len(q) + 1
<1>1. Len(q) \in Nat /\ Len(s) \in Nat /\ StopsAt(s) \in 1..(Len(s) + 1) /\ Len(q) <= Len(s)
  <2>1. Len(q) \in Nat
    BY LenProperties
  <2> QED BY <2>1, StopFacts
<1>2. q = SubSeq(s, 1, Len(q))
  BY <1>1, PieceIs
<1>3. Len(q) = Len(s) => StopsAt(s) = Len(q) + 1
  BY <1>1
<1>4. ASSUME Len(q) < Len(s), s[Len(q) + 1] \in Frames, FrameFailure(q, s[Len(q) + 1]) = "NONE"
      PROVE  Len(q) + 1 < StopsAt(s)
  <2>1. Len(q) + 1 <= StopsAt(s) /\ (Len(q) + 1) - 1 = Len(q)
    BY <1>1
  <2>2. CASE StopsAt(s) = Len(q) + 1
    <3>1. StopsAt(s) <= Len(s) /\ StopsAt(s) - 1 = Len(q)
      BY <1>1, <1>4, <2>2
    <3>2. \/ s[StopsAt(s)] \notin Frames
          \/ FrameFailure(SubSeq(s, 1, StopsAt(s) - 1), s[StopsAt(s)]) # "NONE"
      BY <3>1, StopFacts
    <3>3. s[Len(q) + 1] \notin Frames \/ FrameFailure(q, s[Len(q) + 1]) # "NONE"
      BY <1>2, <2>2, <3>1, <3>2
    <3> QED BY <1>4, <3>3
  <2> QED BY <1>1, <2>1, <2>2
<1>5. ASSUME Len(q) < Len(s), ~(s[Len(q) + 1] \in Frames /\ FrameFailure(q, s[Len(q) + 1]) = "NONE")
      PROVE  StopsAt(s) = Len(q) + 1
  <2>1. (Len(q) + 1) - 1 = Len(q)
    BY <1>1
  <2>2. CASE Len(q) + 1 < StopsAt(s)
    <3>1. Len(q) + 1 \in 1..(StopsAt(s) - 1)
      BY <1>1, <2>2
    <3> QED BY <1>2, <1>5, <2>1, <3>1, StopFacts
  <2> QED BY <1>1, <2>2
<1> QED BY <1>1, <1>2, <1>3, <1>4, <1>5

-----------------------------------------------------------------------------
(* What was parsed of a stream                                              *)

LEMMA ParsedAppend ==
  ASSUME NEW e \in Seq(Entries), NEW x \in Entries
  PROVE  /\ Parsed(e) \in Seq(Entries)
         /\ Parsed(Append(e, x)) = IF x.kind \in ParsedKinds THEN Append(Parsed(e), x) ELSE Parsed(e)
<1>1. Parsed(e) \in Seq(Events(ParsedKinds) \cap Entries)
  BY SelectType DEF Parsed
<1>2. Parsed(e) \in Seq(Entries)
  <2>1. Events(ParsedKinds) \cap Entries \subseteq Entries
    OBVIOUS
  <2> QED BY <1>1, <2>1, SeqMonotonic
<1>3. x \in Events(ParsedKinds) <=> x.kind \in ParsedKinds
  <2>1. x.of \in Subject /\ x = Event(x.kind, x.of)
    BY EntryFacts
  <2>2. PICK k, o : x = Event(k, o) /\ k = x.kind /\ o \in Subject
    BY <2>1
  <2>3. x \in Events(ParsedKinds) <=> k \in ParsedKinds
    BY <2>2 DEF Events, Event, Subject
  <2> QED BY <2>2, <2>3
<1>4. Parsed(Append(e, x)) = IF x \in Events(ParsedKinds) THEN Append(Parsed(e), x) ELSE Parsed(e)
  BY SelectAppend DEF Parsed
<1> QED BY <1>2, <1>3, <1>4

LEMMA EventOfFacts ==
  ASSUME NEW f \in Subject
  PROVE  EventOf(f) \in Entries /\ EventOf(f).kind \in ParsedKinds /\ EventOf(f).of = f
BY DEF EventOf, Event, Entries, Events, EventKinds, Subject, ParsedKinds

LEMMA EventsOfAppend ==
  ASSUME NEW q \in Seq(Subject), NEW f \in Subject
  PROVE  EventsOf(q) \in Seq(Entries) /\ EventsOf(Append(q, f)) = Append(EventsOf(q), EventOf(f))
<1>1. /\ Append(q, f) \in Seq(Subject) /\ Len(Append(q, f)) = Len(q) + 1 /\ Append(q, f)[Len(q) + 1] = f
      /\ \A i \in 1..Len(q) : Append(q, f)[i] = q[i]
  BY AppendProperties
<1>2. Len(q) \in Nat /\ DOMAIN q = 1..Len(q) /\ DOMAIN Append(q, f) = 1..(Len(q) + 1)
  BY <1>1, LenProperties
<1>3. EventOf(f) \in Entries /\ \A i \in 1..Len(q) : EventOf(q[i]) \in Entries
  <2>1. \A i \in 1..Len(q) : q[i] \in Subject
    BY ElementOfSeq
  <2> QED BY <2>1, EventOfFacts
<1>4. PICK a : a = EventsOf(q)
  OBVIOUS
<1>5. PICK b : b = EventsOf(Append(q, f))
  OBVIOUS
<1>6. a \in [1..Len(q) -> Entries] /\ b \in [1..(Len(q) + 1) -> Entries]
  <2>1. \A i \in 1..(Len(q) + 1) : i \in 1..Len(q) \/ i = Len(q) + 1
    BY <1>2
  <2>2. \A i \in 1..(Len(q) + 1) : EventOf(Append(q, f)[i]) \in Entries
    BY <1>1, <1>3, <2>1
  <2> QED BY <1>2, <1>3, <1>4, <1>5, <2>2 DEF EventsOf
<1>7. a \in Seq(Entries) /\ Len(a) = Len(q) /\ b \in Seq(Entries) /\ Len(b) = Len(q) + 1
  <2>1. Len(q) + 1 \in Nat
    BY <1>2
  <2> QED BY <1>2, <1>6, <2>1, SeqIntro
<1>8. PICK x \in Entries : x = EventOf(f)
  BY <1>3
<1>9. /\ Append(a, x) \in Seq(Entries) /\ Len(Append(a, x)) = Len(a) + 1 /\ Append(a, x)[Len(a) + 1] = x
      /\ \A i \in 1..Len(a) : Append(a, x)[i] = a[i]
  BY <1>7, AppendProperties
<1>10. \A i \in 1..(Len(q) + 1) : b[i] = Append(a, x)[i]
  <2>1. \A i \in 1..(Len(q) + 1) : i \in 1..Len(q) \/ i = Len(q) + 1
    BY <1>2
  <2>2. \A i \in 1..Len(q) : a[i] = EventOf(q[i])
    BY <1>2, <1>4 DEF EventsOf
  <2>3. \A i \in 1..(Len(q) + 1) : b[i] = EventOf(Append(q, f)[i])
    BY <1>2, <1>5 DEF EventsOf
  <2> QED BY <1>1, <1>7, <1>8, <1>9, <2>1, <2>2, <2>3
<1>11. b = Append(a, x)
  <2>1. PICK c \in Seq(Entries) : c = Append(a, x)
    BY <1>9
  <2> QED BY ONLY <1>7, <1>9, <1>10, <2>1, SeqEqual
<1> QED BY <1>4, <1>5, <1>7, <1>8, <1>11

\* What a step of a client adds to the chunks and to what was parsed.
LEMMA ParsedLogged ==
  ASSUME NEW e \in Seq(Entries)
  PROVE  /\ \A f \in Frames \cup {"text"} :
              LET a == e \o <<Event("RAW_BODY_CHUNK", f)>>
              IN a \in Seq(Entries) /\ Raw(a) = Append(Raw(e), f) /\ Parsed(a) = Parsed(e)
         /\ \A f \in Frames :
              LET a == e \o <<Event("RAW_BODY_CHUNK", f), EventOf(f)>>
              IN a \in Seq(Entries) /\ Raw(a) = Append(Raw(e), f) /\ Parsed(a) = Append(Parsed(e), EventOf(f))
         /\ \A k \in Kinds :
              LET a == e \o <<Event("REQUEST_TERMINAL", k), Event0("CLIENT_REQUEST_ENDED")>>
              IN Raw(a) = Raw(e) /\ Parsed(a) = Parsed(e)
<1>1. ASSUME NEW f \in Frames \cup {"text"}
      PROVE  /\ Append(e, Event("RAW_BODY_CHUNK", f)) \in Seq(Entries)
             /\ e \o <<Event("RAW_BODY_CHUNK", f)>> = Append(e, Event("RAW_BODY_CHUNK", f))
             /\ Raw(Append(e, Event("RAW_BODY_CHUNK", f))) = Append(Raw(e), f)
             /\ Parsed(Append(e, Event("RAW_BODY_CHUNK", f))) = Parsed(e)
  <2>1. PICK x \in Entries : x = Event("RAW_BODY_CHUNK", f) /\ x.kind = "RAW_BODY_CHUNK" /\ x.of = f
    BY WiredFacts, NewEvent DEF EventKinds, Subject
  <2>2. Append(e, x) \in Seq(Entries) /\ e \o <<x>> = Append(e, x)
    BY OneMore
  <2>3. Raw(Append(e, x)) = Append(Raw(e), f)
    BY <2>1, FramesAppend
  <2>4. Parsed(Append(e, x)) = Parsed(e)
    BY <2>1, ParsedAppend DEF ParsedKinds
  <2> QED BY <2>1, <2>2, <2>3, <2>4
<1>2. ASSUME NEW f \in Frames
      PROVE  LET a == e \o <<Event("RAW_BODY_CHUNK", f), EventOf(f)>>
             IN a \in Seq(Entries) /\ Raw(a) = Append(Raw(e), f) /\ Parsed(a) = Append(Parsed(e), EventOf(f))
  <2>1. PICK x \in Entries : x = Event("RAW_BODY_CHUNK", f)
    BY WiredFacts, NewEvent DEF EventKinds
  <2>2. PICK y \in Entries : y = EventOf(f) /\ y.kind \in ParsedKinds
    BY WiredFacts, EventOfFacts
  <2>3. PICK b \in Seq(Entries) : b = Append(e, x) /\ Raw(b) = Append(Raw(e), f) /\ Parsed(b) = Parsed(e)
    BY <1>1, <2>1
  <2>4. e \o <<x, y>> = Append(b, y)
    BY <2>3, TwoMore
  <2>5. Append(b, y) \in Seq(Entries)
    BY OneMore
  <2>6. Raw(Append(b, y)) = Raw(b)
    BY <2>2, FramesAppend DEF ParsedKinds
  <2>7. Parsed(Append(b, y)) = Append(Parsed(b), y)
    BY <2>2, ParsedAppend
  <2> QED BY <2>1, <2>2, <2>3, <2>4, <2>5, <2>6, <2>7
<1>3. ASSUME NEW k \in Kinds
      PROVE  LET a == e \o <<Event("REQUEST_TERMINAL", k), Event0("CLIENT_REQUEST_ENDED")>>
             IN Raw(a) = Raw(e) /\ Parsed(a) = Parsed(e)
  <2>1. PICK x \in Entries : x = Event("REQUEST_TERMINAL", k) /\ x.kind = "REQUEST_TERMINAL"
    BY NewEvent DEF EventKinds, Subject
  <2>2. PICK y \in Entries : y = Event0("CLIENT_REQUEST_ENDED") /\ y.kind = "CLIENT_REQUEST_ENDED"
    BY NewEvent DEF EventKinds
  <2>3. PICK b \in Seq(Entries) : b = Append(e, x)
    BY OneMore
  <2>4. e \o <<x, y>> = Append(b, y)
    BY <2>3, TwoMore
  <2>5. Raw(b) = Raw(e) /\ Raw(Append(b, y)) = Raw(b)
    BY <2>1, <2>2, <2>3, FramesAppend
  <2>6. Parsed(b) = Parsed(e) /\ Parsed(Append(b, y)) = Parsed(b)
    BY <2>1, <2>2, <2>3, ParsedAppend DEF ParsedKinds
  <2> QED BY <2>1, <2>2, <2>4, <2>5, <2>6
<1>4. ASSUME NEW f \in Frames \cup {"text"}
      PROVE  LET a == e \o <<Event("RAW_BODY_CHUNK", f)>>
             IN a \in Seq(Entries) /\ Raw(a) = Append(Raw(e), f) /\ Parsed(a) = Parsed(e)
  <2>1. PICK b : b = Append(e, Event("RAW_BODY_CHUNK", f))
    OBVIOUS
  <2>2. b \in Seq(Entries) /\ e \o <<Event("RAW_BODY_CHUNK", f)>> = b /\ Raw(b) = Append(Raw(e), f) /\ Parsed(b) = Parsed(e)
    BY <1>1, <2>1
  <2> QED BY <2>2
<1> QED BY <1>2, <1>3, <1>4

LEMMA JustStarted ==
  Raw(<<>> \o Started) = <<>> /\ Parsed(<<>> \o Started) = <<>> /\ Parsed(<<>>) = <<>> /\ Sent(<<>>) = <<>>
<1>1. PICK x \in Entries : x = Event0("CLIENT_REQUEST_STARTED") /\ x.kind = "CLIENT_REQUEST_STARTED"
  BY NewEvent DEF EventKinds
<1>2. PICK e \in Seq(Entries) : e = <<>>
  BY EmptySeq
<1>3. e \o <<x>> = Append(e, x)
  BY OneMore
<1>4. Raw(Append(e, x)) = Raw(e)
  BY <1>1, FramesAppend
<1>5. Parsed(Append(e, x)) = Parsed(e)
  BY <1>1, ParsedAppend DEF ParsedKinds
<1>6. Raw(e) = <<>> /\ Parsed(e) = <<>>
  BY <1>2, NothingRecorded, SelectNone DEF Parsed
<1>7. Sent(<<>>) = <<>>
  <2>1. Recorded(<<>>, "SENT") = <<>> /\ DOMAIN <<>> = {}
    BY NothingRecorded, EmptySeq
  <2> QED BY <2>1 DEF Sent, Subjects
<1> QED BY <1>1, <1>2, <1>3, <1>4, <1>5, <1>6, <1>7 DEF Started

\* What is recorded of a request that was parsed up to where q ends.
RecordOf(k, q, body) ==
  [kind |-> k, deltas |-> Shapes(q), body |-> body,
   protocol |-> [i \in DOMAIN q |-> [kind |-> EventOf(q[i]).kind, tokens |-> Tokens(q[i])]]]

LEMMA RecordIs ==
  ASSUME NEW q \in Seq(Subject), NEW e, Parsed(e) = EventsOf(q), NEW k
  PROVE  RequestRecord(k, Shapes(q), e) = RecordOf(k, q, Raw(e))
<1>1. ProtocolShape(e) = [i \in DOMAIN Parsed(e) |-> [kind |-> Parsed(e)[i].kind, tokens |-> Tokens(Parsed(e)[i].of)]]
  BY DEF ProtocolShape, Parsed, ParsedKinds
<1>2. DOMAIN Parsed(e) = DOMAIN q /\ \A i \in DOMAIN q : Parsed(e)[i] = EventOf(q[i])
  BY DEF EventsOf
<1>3. \A i \in DOMAIN q : EventOf(q[i]).of = q[i]
  BY DEF EventOf, Event
<1>4. ProtocolShape(e) = [i \in DOMAIN q |-> [kind |-> EventOf(q[i]).kind, tokens |-> Tokens(q[i])]]
  BY <1>1, <1>2, <1>3
<1> QED BY <1>4 DEF RequestRecord, RecordOf

\* What the script declares of a request whose client stops after the frames in q.
LEMMA DeclaredIs ==
  ASSUME NEW r \in Requests, NEW q \in Seq(Subject), StopsAt(Script[r]) = Len(q) + 1,
         q = SubSeq(Script[r], 1, Len(q)), NEW x, x = Script[r][Len(q) + 1], Len(Script[r]) \in Nat
  PROVE  /\ Script[r][1] = "httpError" /\ Len(q) < Len(Script[r]) /\ x \notin Frames =>
              DeclaredRecord(r) = RecordOf("HTTP_STATUS", q, <<"text">>)
         /\ Script[r][1] # "httpError" =>
              /\ Len(q) = Len(Script[r]) =>
                   DeclaredRecord(r) = RecordOf(KindAtEof(q, Shapes(q), ExpectedTokens[r]), q, q)
              /\ Len(q) < Len(Script[r]) /\ x \in Frames =>
                   DeclaredRecord(r) = RecordOf(FrameFailure(q, x), q, Append(q, x))
              /\ Len(q) < Len(Script[r]) /\ x \notin Frames =>
                   DeclaredRecord(r) = RecordOf(IF x = "stall" THEN "TIMEOUT" ELSE "TRANSPORT", q, q)
<1>1. Len(q) \in Nat /\ (Len(q) + 1) - 1 = Len(q)
  <2>1. Len(q) \in Nat
    BY LenProperties
  <2> QED BY <2>1
<1>2. SubSeq(Script[r], 1, StopsAt(Script[r]) - 1) = q
  BY <1>1
<1>3. PICK m \in Nat : m = Len(q)
  BY <1>1
<1>4. PICK l \in Nat : l = Len(Script[r])
  OBVIOUS
<1>5. DeclaredRecord(r) =
        [kind |-> CASE Script[r][1] = "httpError" -> "HTTP_STATUS"
                    [] m + 1 > l -> KindAtEof(q, Shapes(q), ExpectedTokens[r])
                    [] m + 1 <= l /\ x \in Frames -> FrameFailure(q, x)
                    [] OTHER -> IF x = "stall" THEN "TIMEOUT" ELSE "TRANSPORT",
         deltas |-> Shapes(q),
         body |-> IF Script[r][1] = "httpError" THEN <<"text">>
                  ELSE IF m + 1 <= l /\ x \in Frames THEN Append(q, x) ELSE q,
         protocol |-> [i \in DOMAIN q |-> [kind |-> EventOf(q[i]).kind, tokens |-> Tokens(q[i])]]]
  BY <1>2, <1>3, <1>4 DEF DeclaredRecord
<1>6. ASSUME Script[r][1] = "httpError", m < l, x \notin Frames
      PROVE  DeclaredRecord(r) = RecordOf("HTTP_STATUS", q, <<"text">>)
  <2>1. ~(m + 1 > l)
    BY <1>6
  <2> QED BY <1>5, <1>6, <2>1 DEF RecordOf
<1>7. CASE Script[r][1] # "httpError" /\ m = l
  <2>1. m + 1 > l /\ ~(m + 1 <= l) /\ ~(m < l)
    BY <1>7
  <2> QED BY <1>3, <1>4, <1>5, <1>7, <2>1 DEF RecordOf
<1>8. CASE Script[r][1] # "httpError" /\ m < l /\ x \in Frames
  <2>1. ~(m + 1 > l) /\ m + 1 <= l /\ m # l
    BY <1>8
  <2> QED BY <1>3, <1>4, <1>5, <1>8, <2>1 DEF RecordOf
<1>9. CASE Script[r][1] # "httpError" /\ m < l /\ x \notin Frames
  <2>1. ~(m + 1 > l) /\ m # l
    BY <1>9
  <2> QED BY <1>3, <1>4, <1>5, <1>9, <2>1 DEF RecordOf
<1>10. (Len(q) = Len(Script[r]) <=> m = l) /\ (Len(q) < Len(Script[r]) <=> m < l)
  BY <1>3, <1>4
<1> QED BY <1>6, <1>7, <1>8, <1>9, <1>10

\* A response head before a sequence of frames, item by item.
LEMMA AfterHead ==
  ASSUME NEW q \in Seq(Subject)
  PROVE  /\ Len(<<"ok">> \o q) = 1 + Len(q) /\ Len(q) \in Nat
         /\ \A i \in 1..Len(q) : (<<"ok">> \o q)[1 + i] = q[i]
<1>1. Subject \subseteq Sendable /\ "ok" \in Sendable
  BY DEF Sendable
<1>2. q \in Seq(Sendable)
  BY <1>1, SeqMonotonic
<1>3. PICK h \in Seq(Sendable) : h = <<"ok">> /\ Len(h) = 1
  <2>1. \A x \in Sendable : <<x>> \in Seq(Sendable) /\ Len(<<x>>) = 1
    OBVIOUS
  <2> QED BY <1>1, <2>1
<1>4. /\ Len(h \o q) = Len(h) + Len(q) /\ Len(q) \in Nat
      /\ \A i \in 1..(Len(h) + Len(q)) : (h \o q)[i] = IF i <= Len(h) THEN h[i] ELSE q[i - Len(h)]
  BY <1>2, <1>3, ConcatProperties, LenProperties
<1>5. ASSUME NEW i \in 1..Len(q) PROVE (h \o q)[1 + i] = q[i]
  <2>1. 1 + i \in 1..(Len(h) + Len(q)) /\ ~(1 + i <= Len(h)) /\ 1 + i - Len(h) = i
    BY <1>3, <1>4, <1>5
  <2>2. (h \o q)[1 + i] = q[1 + i - Len(h)]
    BY <1>4, <2>1
  <2> QED BY <2>1, <2>2
<1> QED BY <1>3, <1>4, <1>5

LEMMA RawIs == ASSUME NEW e \in Seq(Entries) PROVE Raw(e) \in Seq(Subject) /\ Sent(e) \in Seq(Subject)
<1>1. PICK x \in Entries : x = Event0("SSE_DONE")
  BY NewEvent DEF EventKinds
<1>2. Recorded(e, "SENT") \in Seq(Entries)
  BY <1>1, RecordedAppend DEF EventKinds
<1> QED BY <1>1, <1>2, FramesAppend, SubjectsAppend DEF Sent

\* A client and a handler on the way through a script: where they are and what is between them.
Reader(s, c, st, k, d, e, w, h, n, v) ==
  /\ s \in Seq(FixtureActions) /\ c \in {"sending", "reading"} /\ st \in {"none", "ok", "error"}
  /\ e \in Seq(Entries) /\ Told(c, st, k, d, e) /\ Kept(c, st, e, w, h, v, TRUE)
  /\ h # "new" /\ Plays(s, n, h, v, w) /\ Follows(s, e)

LEMMA OnTheWay ==
  ASSUME NEW s, NEW c, NEW st, NEW k, NEW d, NEW e, NEW w, NEW h, NEW n, NEW v,
         Reader(s, c, st, k, d, e, w, h, n, v)
  PROVE  /\ Raw(e) \in Seq(Subject) /\ Len(Raw(e)) \in Nat /\ n \in Nat /\ Len(Raw(e)) + 1 <= n
         /\ n <= Len(s) + 1 /\ Len(s) \in Nat
         /\ \A i \in 1..Len(Raw(e)) : Raw(e)[i] = s[i]
         /\ c = "reading" => st = "ok"
         /\ st = "ok" /\ w # <<>> =>
              IF Len(Raw(e)) + 1 < n THEN Head(w) = s[Len(Raw(e)) + 1] /\ Head(w) \in Frames
                                     ELSE Head(w) \in {"eof", "reset"}
         /\ w = <<>> /\ h # "done" => st = "ok" /\ n = Len(Raw(e)) + 1
<1> USE DEF Reader
<1>1. PICK q \in Seq(Subject) : q = Raw(e)
  BY RawIs
<1>2. v \in Seq(Entries) /\ w \in Seq(Wired) /\ st # "error"
  BY DEF Kept, Wired
<1>3. PICK b \in Seq(Subject) : b = Sent(v)
  BY <1>2, RawIs
<1>4. Written(v) = <<"ok">> \o b
  BY <1>3 DEF Written, Sent
<1>5. /\ Len(q) \in Nat /\ Len(b) \in Nat
      /\ Len(<<"ok">> \o q) = 1 + Len(q) /\ Len(<<"ok">> \o b) = 1 + Len(b)
      /\ \A i \in 1..Len(q) : (<<"ok">> \o q)[1 + i] = q[i]
      /\ \A i \in 1..Len(b) : (<<"ok">> \o b)[1 + i] = b[i]
  BY AfterHead
<1>6. PICK x : x = <<"ok">> \o q
  OBVIOUS
<1>7. PICK y : y = <<"ok">> \o b
  OBVIOUS
<1>8. /\ n \in 1..(Len(s) + 1) /\ Len(b) = n - 1 /\ Len(s) \in Nat
      /\ \A i \in 1..(n - 1) : b[i] = s[i] /\ s[i] \in Frames
  BY <1>3, LenProperties DEF Plays
<1>9. Begins(Taken(st, e), y) /\ Continues(Taken(st, e), w, y, h # "done")
  BY <1>4, <1>7 DEF Kept
<1>10. st = "ok" => Taken(st, e) = x
  BY <1>1, <1>6 DEF Taken
<1>11. Len(q) + 1 <= n /\ \A i \in 1..Len(q) : q[i] = s[i]
  <2>1. CASE st = "ok"
    <3>1. ASSUME NEW i \in 1..Len(q) PROVE i <= n - 1 /\ q[i] = s[i]
      <4>1. 1 + i \in 1..(1 + Len(q))
        BY <1>5, <3>1
      <4>2. 1 + i <= 1 + Len(b) /\ x[1 + i] = y[1 + i]
        BY <1>5, <1>6, <1>7, <1>9, <1>10, <2>1, <4>1 DEF Begins
      <4>3. i \in 1..Len(b) /\ i \in 1..(n - 1)
        BY <1>5, <1>8, <3>1, <4>2
      <4> QED BY <1>5, <1>6, <1>7, <1>8, <3>1, <4>2, <4>3
    <3>2. Len(q) = 0 \/ Len(q) \in 1..Len(q)
      BY <1>5
    <3> QED BY <1>5, <1>8, <3>1, <3>2
  <2>2. CASE st # "ok"
    <3>1. st = "none"
      BY <1>2, <2>2
    <3>2. q = <<>> /\ Len(q) = 0
      BY <1>1, <3>1, EmptySeq DEF Told
    <3> QED BY <1>8, <3>2
  <2> QED BY <2>1, <2>2
<1>12. c = "reading" => st = "ok"
  BY <1>2 DEF Told
<1>13. ASSUME st = "ok", w # <<>>
       PROVE  IF Len(q) + 1 < n THEN Head(w) = s[Len(q) + 1] /\ Head(w) \in Frames ELSE Head(w) \in {"eof", "reset"}
  <2>1. Head(w) = w[1] /\ 1 \in 1..Len(w)
    <3>1. Len(w) \in Nat /\ Len(w) # 0
      BY <1>2, <1>13, LenProperties, EmptySeq
    <3> QED BY <1>2, <1>13, <3>1, HeadTailProperties
  <2>2. Len(x) = 1 + Len(q) /\ Len(y) = n
    BY <1>5, <1>6, <1>7, <1>8
  <2>3. IF Len(x) + 1 <= Len(y) THEN w[1] = y[Len(x) + 1] ELSE w[1] \in {"eof", "reset"}
    BY <1>9, <1>10, <1>13, <2>1 DEF Continues
  <2>4. CASE Len(q) + 1 < n
    <3>1. Len(q) + 1 \in 1..Len(b) /\ Len(q) + 1 \in 1..(n - 1) /\ Len(x) + 1 = 1 + (Len(q) + 1) /\ Len(x) + 1 <= Len(y)
      BY <1>5, <1>8, <2>2, <2>4
    <3>2. w[1] = b[Len(q) + 1]
      BY <1>5, <1>7, <2>3, <3>1
    <3> QED BY <1>8, <2>1, <2>4, <3>1, <3>2
  <2>5. CASE ~(Len(q) + 1 < n)
    <3>1. ~(Len(x) + 1 <= Len(y))
      BY <1>5, <1>8, <2>2, <2>5
    <3> QED BY <2>1, <2>3, <2>5, <3>1
  <2> QED BY <2>4, <2>5
<1>14. ASSUME w = <<>>, h # "done" PROVE st = "ok" /\ n = Len(q) + 1
  <2>1. Len(w) = 0 /\ Len(y) = n
    BY <1>5, <1>7, <1>8, <1>14, EmptySeq
  <2>2. Len(Taken(st, e)) + Len(w) = Len(y)
    BY <1>9, <1>14 DEF Continues
  <2>3. CASE st = "ok"
    <3>1. Len(x) = 1 + Len(q)
      BY <1>5, <1>6
    <3> QED BY <1>5, <1>8, <1>10, <2>1, <2>2, <2>3, <3>1
  <2>4. CASE st # "ok"
    <3>1. Taken(st, e) = <<>> /\ Len(<<>>) = 0
      BY <1>2, <2>4, EmptySeq DEF Taken
    <3> QED BY <1>8, <2>1, <2>2, <3>1
  <2> QED BY <2>3, <2>4
<1> QED BY <1>1, <1>5, <1>8, <1>11, <1>12, <1>13, <1>14

-----------------------------------------------------------------------------
(* The course of a request, step by step                                    *)

LEMMA ScriptFacts ==
  ASSUME NEW r \in Requests
  PROVE  /\ Script[r] \in Seq(FixtureActions) /\ Script[r] # <<>> /\ Len(Script[r]) \in Nat /\ Len(Script[r]) >= 1
         /\ "httpError" \notin Frames /\ "stall" \notin Frames /\ "text" \notin Frames
<1>1. Script[r] \in Seq(FixtureActions) /\ Script[r] # <<>>
  BY FixtureAssumption DEF FixtureAssumption
<1>2. "httpError" \notin Frames /\ "stall" \notin Frames /\ "text" \notin Frames
  BY DEF Frames, Data
<1> QED BY <1>1, <1>2, LenProperties, EmptySeq

LEMMA TextSeq == ASSUME NEW e \in Seq(Entries), Raw(e) = <<>> PROVE Append(Raw(e), "text") = <<"text">>
<1>1. "text" \in Subject
  BY DEF Subject
<1>2. <<>> \o <<"text">> = <<"text">> /\ <<"text">> \in Seq(Subject)
  <2>1. \A x \in Subject : <<x>> \in Seq(Subject)
    OBVIOUS
  <2> QED BY <1>1, <2>1, ConcatEmptySeq
<1>3. PICK q \in Seq(Subject) : q = <<>>
  BY EmptySeq
<1>4. Append(q, "text") = q \o <<"text">>
  BY <1>1, AppendIsConcat
<1> QED BY <1>2, <1>3, <1>4

\* A request that the server answers with an error.
LEMMA RefusedEnds ==
  ASSUME NEW r \in Requests, Script[r][1] = "httpError", NEW e, Parsed(e) = <<>>, Raw(e) = <<"text">>
  PROVE  RequestRecord("HTTP_STATUS", <<>>, e) = DeclaredRecord(r)
<1>1. PICK q \in Seq(Subject) : q = <<>>
  BY EmptySeq
<1>2. Len(q) = 0 /\ DOMAIN q = {} /\ Shapes(q) = <<>> /\ EventsOf(q) = <<>>
  BY <1>1, EmptySeq, NothingRecorded DEF EventsOf
<1>3. Len(q) < StopsAt(Script[r]) /\ \A i \in 1..Len(q) : q[i] = Script[r][i]
  BY <1>2, ScriptFacts, StopFacts
<1>4. /\ q = SubSeq(Script[r], 1, Len(q))
      /\ Len(q) < Len(Script[r]) =>
           IF Script[r][Len(q) + 1] \in Frames /\ FrameFailure(q, Script[r][Len(q) + 1]) = "NONE"
             THEN Len(q) + 1 < StopsAt(Script[r]) ELSE StopsAt(Script[r]) = Len(q) + 1
  BY <1>3, ScriptFacts, StopHere
<1>5. StopsAt(Script[r]) = Len(q) + 1
  BY <1>2, <1>4, ScriptFacts
<1>6. DeclaredRecord(r) = RecordOf("HTTP_STATUS", q, <<"text">>)
  <2>1. PICK x : x = Script[r][Len(q) + 1]
    OBVIOUS
  <2>2. Len(q) < Len(Script[r]) /\ x \notin Frames
    BY <1>2, <2>1, ScriptFacts
  <2> QED BY <1>4, <1>5, <2>1, <2>2, ScriptFacts, DeclaredIs
<1>7. RequestRecord("HTTP_STATUS", Shapes(q), e) = RecordOf("HTTP_STATUS", q, Raw(e))
  BY <1>2, RecordIs
<1> QED BY <1>2, <1>6, <1>7

LEMMA RunsStart ==
  ASSUME NEW r \in Requests, NEW c \in Unstarted, NEW s, NEW k, NEW d, NEW e, NEW w, NEW h, NEW n, NEW v,
         NEW good \in BOOLEAN, Told(c, s, k, d, e), Kept(c, s, e, w, h, v, good), Runs(r, c, s, k, d, e, w, h, n, v)
  PROVE  Runs(r, "sending", s, k, d, e \o Started, w, h, n, v)
<1>1. h = "new" /\ e = <<>> /\ s = "none" /\ d = <<>> /\ v = <<>> /\ w = <<>> /\ n = 1
  BY DEF Told, Kept, Runs
<1>2. PICK a : a = e \o Started
  OBVIOUS
<1>3. Raw(a) = <<>> /\ Parsed(a) = <<>> /\ Sent(v) = <<>>
  BY <1>1, <1>2, JustStarted
<1>4. Refused("sending", s, d, a, h, w)
  BY <1>1, <1>3 DEF Refused
<1>5. Len(<<>>) = 0 /\ DOMAIN <<>> = {} /\ Range(<<>>) = {}
  BY EmptySeq DEF Range
<1>6. Follows(Script[r], a)
  <2>1. EventsOf(<<>>) = <<>>
    BY <1>5 DEF EventsOf
  <2>2. 0 < StopsAt(Script[r])
    BY ScriptFacts, StopFacts
  <2> QED BY <1>3, <1>5, <2>1, <2>2 DEF Follows
<1>7. Plays(Script[r], n, h, v, w)
  BY <1>1, <1>3, <1>5, ScriptFacts DEF Plays
<1> QED BY <1>1, <1>2, <1>4, <1>6, <1>7 DEF Runs

LEMMA RangeTail ==
  ASSUME NEW S, NEW w \in Seq(S), w # <<>>
  PROVE  Range(Tail(w)) \subseteq Range(w) /\ Head(w) \in Range(w)
<1>1. /\ Head(w) = w[1] /\ Tail(w) \in Seq(S) /\ Len(Tail(w)) = Len(w) - 1
      /\ \A i \in 1..Len(Tail(w)) : Tail(w)[i] = w[i + 1]
  BY HeadTailProperties
<1>2. Len(w) \in Nat /\ Len(w) # 0 /\ DOMAIN w = 1..Len(w)
  BY LenProperties, EmptySeq
<1>3. PICK t \in Seq(S) : t = Tail(w)
  BY <1>1
<1>4. DOMAIN t = 1..Len(t)
  BY LenProperties
<1>5. ASSUME NEW x \in Range(t) PROVE x \in Range(w)
  <2>1. PICK i \in DOMAIN t : t[i] = x
    BY <1>5 DEF Range
  <2>2. i + 1 \in DOMAIN w /\ w[i + 1] = x
    BY <1>1, <1>2, <1>3, <1>4, <2>1
  <2> QED BY <2>2 DEF Range
<1>6. 1 \in DOMAIN w
  BY <1>2
<1> QED BY <1>1, <1>3, <1>5, <1>6 DEF Range

LEMMA PlaysOn ==
  ASSUME NEW s, NEW n, NEW h, NEW v, NEW S, NEW w \in Seq(S), w # <<>>, Plays(s, n, h, v, w)
  PROVE  Plays(s, n, h, v, Tail(w))
<1>1. Range(Tail(w)) \subseteq Range(w)
  BY RangeTail
<1> QED BY <1>1 DEF Plays

\* What is on the way to a client that has not begun or that is refused.
LEMMA RefusedHead ==
  ASSUME NEW c \in {"sending", "reading"}, NEW s, NEW d, NEW e, NEW h, NEW w, NEW v, NEW good \in BOOLEAN,
         Kept(c, s, e, w, h, v, good), w # <<>>, Refused(c, s, d, e, h, w)
  PROVE  \/ c = "sending" /\ Head(w) = "error" /\ Tail(w) = <<"text", "eof">> /\ Raw(e) = <<>>
         \/ c = "reading" /\ s = "error" /\ Raw(e) = <<>> /\ Head(w) = "text" /\ Tail(w) = <<"eof">>
         \/ c = "reading" /\ s = "error" /\ Raw(e) = <<"text">> /\ Head(w) = "eof"
<1>1. h # "new"
  BY DEF Kept
<1>2. /\ Head(<<"error", "text", "eof">>) = "error" /\ Tail(<<"error", "text", "eof">>) = <<"text", "eof">>
      /\ Head(<<"text", "eof">>) = "text" /\ Tail(<<"text", "eof">>) = <<"eof">>
      /\ Head(<<"eof">>) = "eof"
  OBVIOUS
<1> QED BY <1>1, <1>2 DEF Refused

LEMMA RunsHead ==
  ASSUME NEW r \in Requests, NEW s, NEW k, NEW d, NEW e, NEW w, NEW h, NEW n, NEW v,
         Told("sending", s, k, d, e), Kept("sending", s, e, w, h, v, Script[r][1] # "httpError"),
         Runs(r, "sending", s, k, d, e, w, h, n, v), NEW x \in {"ok", "error"}, w # <<>>, Head(w) = x
  PROVE  Runs(r, "reading", x, k, d, e, Tail(w), h, n, v)
<1>1. h # "new"
  BY DEF Kept
<1>2. CASE Script[r][1] = "httpError"
  <2>1. Refused("sending", s, d, e, h, w)
    BY <1>2 DEF Runs
  <2>2. Kept("sending", s, e, w, h, v, FALSE)
    BY <1>2
  <2>3. x = "error" /\ Tail(w) = <<"text", "eof">> /\ Raw(e) = <<>>
    BY <2>1, <2>2, RefusedHead
  <2>4. PICK w1 : w1 = Tail(w)
    OBVIOUS
  <2>5. Refused("reading", x, d, e, h, w1)
    BY <1>1, <2>1, <2>3, <2>4 DEF Refused
  <2> QED BY <1>1, <1>2, <2>4, <2>5 DEF Runs
<1>3. CASE Script[r][1] # "httpError"
  <2>1. Follows(Script[r], e) /\ Plays(Script[r], n, h, v, w)
    BY <1>3 DEF Runs
  <2>2. w \in Seq(Wired)
    BY <1>3 DEF Kept, Wired
  <2>3. PICK w1 : w1 = Tail(w)
    OBVIOUS
  <2>4. Plays(Script[r], n, h, v, w1)
    BY <2>1, <2>2, <2>3, PlaysOn
  <2> QED BY <1>1, <1>3, <2>1, <2>3, <2>4 DEF Runs
<1> QED BY <1>2, <1>3

LEMMA RunsChunk ==
  ASSUME NEW r \in Requests, NEW s \in {"none", "ok", "error"}, NEW k, NEW d, NEW e \in Seq(Entries),
         NEW w, NEW h, NEW n, NEW v,
         Told("reading", s, k, d, e), Kept("reading", s, e, w, h, v, Script[r][1] # "httpError"),
         Runs(r, "reading", s, k, d, e, w, h, n, v), NEW f \in Frames \cup {"text"}, w # <<>>, Head(w) = f,
         NEW new, NEW c1, NEW k1, NEW d1, ChunkNoted(f, s, k, d, e, new, c1, k1, d1)
  PROVE  Runs(r, c1, s, k1, d1, e \o new, Tail(w), h, n, v)
<1>1. h # "new"
  BY DEF Kept
<1>2. PICK w1 : w1 = Tail(w)
  OBVIOUS
<1>3. PICK a : a = e \o new
  OBVIOUS
<1>4. CASE Script[r][1] = "httpError"
  <2>1. Refused("reading", s, d, e, h, w)
    BY <1>4 DEF Runs
  <2>2. Kept("reading", s, e, w, h, v, FALSE)
    BY <1>4
  <2>3. s = "error" /\ Raw(e) = <<>> /\ f = "text" /\ w1 = <<"eof">>
    <3>1. f # "eof"
      BY DEF Frames, Data
    <3> QED BY <1>2, <2>1, <2>2, <3>1, RefusedHead
  <2>4. new = <<Event("RAW_BODY_CHUNK", f)>> /\ c1 = "reading" /\ d1 = d
    BY <2>3 DEF ChunkNoted
  <2>5. Raw(a) = Append(Raw(e), f) /\ Parsed(a) = Parsed(e)
    BY <1>3, <2>4, ParsedLogged
  <2>6. Raw(a) = <<"text">>
    BY <2>3, <2>5, TextSeq
  <2>7. Refused("reading", s, d1, a, h, w1)
    BY <1>1, <2>1, <2>3, <2>4, <2>5, <2>6 DEF Refused
  <2> QED BY <1>1, <1>2, <1>3, <1>4, <2>4, <2>7 DEF Runs
<1>5. CASE Script[r][1] # "httpError"
  <2>1. Follows(Script[r], e) /\ Plays(Script[r], n, h, v, w) /\ Kept("reading", s, e, w, h, v, TRUE)
    BY <1>5 DEF Runs
  <2>2. w \in Seq(Wired)
    BY <2>1 DEF Kept, Wired
  <2>3. PICK q \in Seq(Subject) : q = Raw(e) /\ Len(q) \in Nat
    BY RawIs, LenProperties
  <2>4. /\ n \in Nat /\ Len(q) + 1 <= n /\ n <= Len(Script[r]) + 1 /\ Len(Script[r]) \in Nat
        /\ \A i \in 1..Len(q) : q[i] = Script[r][i]
        /\ s = "ok"
        /\ IF Len(q) + 1 < n THEN f = Script[r][Len(q) + 1] /\ f \in Frames ELSE f \in {"eof", "reset"}
    <3>1. PICK t \in Seq(FixtureActions) : t = Script[r]
      BY ScriptFacts
    <3>2. Plays(t, n, h, v, w) /\ Follows(t, e)
      BY <2>1, <3>1
    <3>3. /\ Len(Raw(e)) \in Nat /\ n \in Nat /\ Len(Raw(e)) + 1 <= n /\ n <= Len(t) + 1 /\ Len(t) \in Nat
          /\ \A i \in 1..Len(Raw(e)) : Raw(e)[i] = t[i]
          /\ s = "ok"
          /\ IF Len(Raw(e)) + 1 < n THEN f = t[Len(Raw(e)) + 1] /\ f \in Frames ELSE f \in {"eof", "reset"}
      <4>1. Reader(t, "reading", s, k, d, e, w, h, n, v)
        BY <1>1, <2>1, <3>1, <3>2 DEF Reader
      <4>2. PICK c : c = "reading"
        OBVIOUS
      <4>3. Reader(t, c, s, k, d, e, w, h, n, v)
        BY <4>1, <4>2
      <4>4. /\ Len(Raw(e)) \in Nat /\ n \in Nat /\ Len(Raw(e)) + 1 <= n
            /\ n <= Len(t) + 1 /\ Len(t) \in Nat
            /\ \A i \in 1..Len(Raw(e)) : Raw(e)[i] = t[i]
            /\ c = "reading" => s = "ok"
            /\ s = "ok" /\ w # <<>> =>
                 IF Len(Raw(e)) + 1 < n THEN Head(w) = t[Len(Raw(e)) + 1] /\ Head(w) \in Frames
                                        ELSE Head(w) \in {"eof", "reset"}
        BY ONLY <4>3, OnTheWay
      <4>5. s = "ok"
        BY <4>2, <4>4
      <4>6. IF Len(Raw(e)) + 1 < n THEN f = t[Len(Raw(e)) + 1] /\ f \in Frames ELSE f \in {"eof", "reset"}
        BY <4>4, <4>5
      <4> QED BY <4>4, <4>5, <4>6
    <3> QED BY <2>3, <3>1, <3>3
  <2>5. f \notin {"eof", "reset"}
    BY WiredFacts
  <2>6. Len(q) + 1 < n /\ f = Script[r][Len(q) + 1] /\ f \in Frames /\ Len(q) < Len(Script[r])
    BY <2>3, <2>4, <2>5
  <2>7. Len(q) < StopsAt(Script[r]) /\ Parsed(e) = EventsOf(q)
    BY <2>1, <2>3 DEF Follows
  <2>8. /\ q = SubSeq(Script[r], 1, Len(q))
        /\ IF FrameFailure(q, f) = "NONE" THEN Len(q) + 1 < StopsAt(Script[r]) ELSE StopsAt(Script[r]) = Len(q) + 1
    BY <2>4, <2>6, <2>7, ScriptFacts, StopHere
  <2>9. CASE FrameFailure(q, f) = "NONE"
    <3>1. new = <<Event("RAW_BODY_CHUNK", f), EventOf(f)>> /\ c1 = "reading"
      BY <2>3, <2>4, <2>9 DEF ChunkNoted
    <3>2. Raw(a) = Append(q, f) /\ Parsed(a) = Append(Parsed(e), EventOf(f))
      BY <1>3, <2>3, <2>6, <3>1, ParsedLogged
    <3>3. f \in Subject
      BY <2>6, WiredFacts
    <3>4. EventsOf(Append(q, f)) = Append(EventsOf(q), EventOf(f)) /\ Len(Append(q, f)) = Len(q) + 1
      BY <3>3, EventsOfAppend, AppendProperties
    <3>5. Follows(Script[r], a)
      BY <2>7, <2>8, <2>9, <3>2, <3>4 DEF Follows
    <3>6. Plays(Script[r], n, h, v, w1)
      BY <1>2, <2>1, <2>2, PlaysOn
    <3> QED BY <1>1, <1>2, <1>3, <1>5, <3>1, <3>5, <3>6 DEF Runs
  <2>10. CASE FrameFailure(q, f) # "NONE"
    <3>1. new = <<Event("RAW_BODY_CHUNK", f)>> /\ c1 = "closing" /\ k1 = FrameFailure(q, f) /\ d1 = d
      BY <2>3, <2>4, <2>10 DEF ChunkNoted
    <3>2. Raw(a) = Append(q, f) /\ Parsed(a) = EventsOf(q)
      BY <1>3, <2>3, <2>6, <2>7, <3>1, ParsedLogged
    <3>3. d = Shapes(q)
      BY <2>3, <2>4 DEF Told
    <3>4. DeclaredRecord(r) = RecordOf(FrameFailure(q, f), q, Append(q, f))
      BY <1>5, <2>4, <2>6, <2>8, <2>10, DeclaredIs
    <3>5. RequestRecord(k1, d1, a) = DeclaredRecord(r)
      BY <3>1, <3>2, <3>3, <3>4, RecordIs
    <3> QED BY <1>1, <1>2, <1>3, <3>1, <3>5 DEF Runs
  <2> QED BY <2>9, <2>10
<1> QED BY <1>4, <1>5

\* The client finds the end of the stream, a broken connection, or nothing while the server stalls.
LEMMA RunsOut ==
  ASSUME NEW r \in Requests, NEW c \in {"sending", "reading"}, NEW s \in {"none", "ok", "error"}, NEW k, NEW d,
         NEW e \in Seq(Entries), NEW w, NEW h, NEW n, NEW v,
         Told(c, s, k, d, e), Kept(c, s, e, w, h, v, Script[r][1] # "httpError"),
         Runs(r, c, s, k, d, e, w, h, n, v), NEW c1 \in {"draining", "closing"}, NEW k1, NEW w1,
         \/ /\ c = "reading" /\ w # <<>> /\ Head(w) = "eof"
            /\ k1 = IF s = "error" THEN "HTTP_STATUS" ELSE KindAtEof(Raw(e), d, ExpectedTokens[r])
         \/ c = "reading" /\ w # <<>> /\ Head(w) = "reset" /\ k1 = "TRANSPORT"
         \/ h = "stalled" /\ w = <<>> /\ k1 = "TIMEOUT"
  PROVE  Runs(r, c1, s, k1, d, e, w1, h, n, v)
<1>1. h # "new"
  BY DEF Kept
<1>2. CASE Script[r][1] = "httpError"
  <2>1. Refused(c, s, d, e, h, w)
    BY <1>2 DEF Runs
  <2>2. Kept(c, s, e, w, h, v, FALSE)
    BY <1>2
  <2>3. h # "stalled"
    BY <2>2 DEF Kept
  <2>4. s = "error" /\ Raw(e) = <<"text">> /\ k1 = "HTTP_STATUS"
    BY <2>1, <2>2, <2>3, RefusedHead
  <2>5. Parsed(e) = <<>> /\ d = <<>>
    BY <2>1 DEF Refused
  <2>6. RequestRecord(k1, d, e) = DeclaredRecord(r)
    BY <1>2, <2>4, <2>5, RefusedEnds
  <2> QED BY <1>1, <2>6 DEF Runs
<1>3. CASE Script[r][1] # "httpError"
  <2>1. Follows(Script[r], e) /\ Plays(Script[r], n, h, v, w) /\ Kept(c, s, e, w, h, v, TRUE)
    BY <1>3 DEF Runs
  <2>2. w \in Seq(Wired)
    BY <2>1 DEF Kept, Wired
  <2>3. PICK q \in Seq(Subject) : q = Raw(e) /\ Len(q) \in Nat
    BY RawIs, LenProperties
  <2>4. /\ n \in Nat /\ Len(q) + 1 <= n /\ n <= Len(Script[r]) + 1 /\ Len(Script[r]) \in Nat
        /\ \A i \in 1..Len(q) : q[i] = Script[r][i]
        /\ c = "reading" => s = "ok"
        /\ s = "ok" /\ w # <<>> =>
             IF Len(q) + 1 < n THEN Head(w) = Script[r][Len(q) + 1] /\ Head(w) \in Frames
                               ELSE Head(w) \in {"eof", "reset"}
        /\ w = <<>> /\ h # "done" => s = "ok" /\ n = Len(q) + 1
    <3>1. PICK t \in Seq(FixtureActions) : t = Script[r]
      BY ScriptFacts
    <3>2. Plays(t, n, h, v, w) /\ Follows(t, e)
      BY <2>1, <3>1
    <3>3. /\ Len(Raw(e)) \in Nat /\ n \in Nat /\ Len(Raw(e)) + 1 <= n /\ n <= Len(t) + 1 /\ Len(t) \in Nat
          /\ \A i \in 1..Len(Raw(e)) : Raw(e)[i] = t[i]
          /\ c = "reading" => s = "ok"
          /\ s = "ok" /\ w # <<>> =>
               IF Len(Raw(e)) + 1 < n THEN Head(w) = t[Len(Raw(e)) + 1] /\ Head(w) \in Frames
                                      ELSE Head(w) \in {"eof", "reset"}
          /\ w = <<>> /\ h # "done" => s = "ok" /\ n = Len(Raw(e)) + 1
      <4>1. Reader(t, c, s, k, d, e, w, h, n, v)
        BY <1>1, <2>1, <3>1, <3>2 DEF Reader
      <4> QED BY <4>1, OnTheWay
    <3> QED BY <2>3, <3>1, <3>3
  <2>5. s = "ok" /\ n = Len(q) + 1
    <3>1. "eof" \notin Frames /\ "reset" \notin Frames
      BY DEF Frames, Data
    <3> QED BY <2>3, <2>4, <3>1
  <2>6. Len(q) < StopsAt(Script[r]) /\ Parsed(e) = EventsOf(q)
    BY <2>1, <2>3 DEF Follows
  <2>7. PICK x : x = Script[r][Len(q) + 1]
    OBVIOUS
  <2>8. /\ q = SubSeq(Script[r], 1, Len(q))
        /\ Len(q) = Len(Script[r]) => StopsAt(Script[r]) = Len(q) + 1
        /\ Len(q) < Len(Script[r]) /\ x \notin Frames => StopsAt(Script[r]) = Len(q) + 1
    BY <2>4, <2>6, <2>7, ScriptFacts, StopHere
  <2>9. d = Shapes(q)
    BY <2>3, <2>5 DEF Told
  <2>10. RequestRecord(k1, d, e) = RecordOf(k1, q, q)
    BY <2>3, <2>6, <2>9, RecordIs
  <2>11. \A y : w # <<>> /\ Head(w) = y => y \in Range(w)
    BY <2>2, RangeTail
  <2>12. CASE w # <<>> /\ Head(w) = "eof" /\ k1 = KindAtEof(Raw(e), d, ExpectedTokens[r])
    <3>1. Len(q) = Len(Script[r])
      BY <2>1, <2>3, <2>4, <2>5, <2>11, <2>12 DEF Plays
    <3>2. DeclaredRecord(r) = RecordOf(k1, q, q)
      BY <1>3, <2>3, <2>4, <2>7, <2>8, <2>9, <2>12, <3>1, DeclaredIs
    <3> QED BY <1>1, <2>10, <3>2 DEF Runs
  <2>13. CASE w # <<>> /\ Head(w) = "reset" /\ k1 = "TRANSPORT"
    <3>1. Len(q) < Len(Script[r]) /\ x = "httpError"
      BY <2>1, <2>3, <2>4, <2>5, <2>7, <2>11, <2>13 DEF Plays
    <3>2. DeclaredRecord(r) = RecordOf(k1, q, q)
      BY <1>3, <2>4, <2>7, <2>8, <2>13, <3>1, ScriptFacts, DeclaredIs
    <3> QED BY <1>1, <2>10, <3>2 DEF Runs
  <2>14. CASE h = "stalled" /\ w = <<>> /\ k1 = "TIMEOUT"
    <3>1. Len(q) < Len(Script[r]) /\ x = "stall"
      BY <2>1, <2>3, <2>4, <2>5, <2>7, <2>14 DEF Plays
    <3>2. DeclaredRecord(r) = RecordOf(k1, q, q)
      BY <1>3, <2>4, <2>7, <2>8, <2>14, <3>1, ScriptFacts, DeclaredIs
    <3> QED BY <1>1, <2>10, <3>2 DEF Runs
  <2> QED BY <2>5, <2>12, <2>13, <2>14
<1> QED BY <1>2, <1>3

LEMMA RunsEnd ==
  ASSUME NEW r \in Requests, NEW c \in {"draining", "closing"}, NEW s, NEW k \in Kinds, NEW d, NEW e \in Seq(Entries),
         NEW w, NEW h, NEW n, NEW v, Runs(r, c, s, k, d, e, w, h, n, v), NEW w1
  PROVE  Runs(r, "ended", s, k, d, e \o <<Event("REQUEST_TERMINAL", k), Event0("CLIENT_REQUEST_ENDED")>>, w1, h, n, v)
<1>1. PICK a : a = e \o <<Event("REQUEST_TERMINAL", k), Event0("CLIENT_REQUEST_ENDED")>>
  OBVIOUS
<1>2. Raw(a) = Raw(e) /\ Parsed(a) = Parsed(e)
  BY <1>1, ParsedLogged
<1>3. ProtocolShape(a) = ProtocolShape(e)
  BY <1>2 DEF ProtocolShape, Parsed, ParsedKinds
<1>4. RequestRecord(k, d, a) = RequestRecord(k, d, e)
  BY <1>2, <1>3 DEF RequestRecord
<1> QED BY <1>1, <1>4 DEF Runs

-----------------------------------------------------------------------------
(* The course of every request, action by action                            *)

Courses == \A r \in Requests : Course(r)

LEMMA CourseSpared ==
  ASSUME NEW c \in Requests, Course(c), Spares(c), at'[c] = at[c]
  PROVE  Course(c)'
<1>1. CASE client'[c] = client[c]
  BY <1>1 DEF Course, Spares
<1>2. CASE client'[c] \in Unstarted \cup {"abandoned"}
  BY <1>2 DEF Course, Spares, Runs, Unstarted
<1> QED BY <1>1, <1>2 DEF Spares

LEMMA HeadCourse ==
  ASSUME RestOK, PlaceOK, TableInv, Courses, NEW r \in Requests, ReadHead(r)
  PROVE  Courses'
<1>1. PICK x \in {"ok", "error"} : Reads(r, x) /\ status' = [status EXCEPT ![r] = x]
  BY DEF ReadHead
<1>2. /\ client[r] = "sending" /\ client' = [client EXCEPT ![r] = "reading"]
      /\ UNCHANGED <<deltas, kind, gone, evidence, handler, served, at>>
  BY DEF ReadHead, KeepAround, serverVars
<1>3. wire[r] # <<>> /\ Head(wire[r]) = x /\ wire' = [wire EXCEPT ![r] = Tail(wire[r])]
  BY <1>1 DEF Reads
<1>4. /\ DOMAIN wire = Requests
      /\ Told("sending", status[r], kind[r], deltas[r], evidence[r])
      /\ Kept("sending", status[r], evidence[r], wire[r], handler[r], served[r], Script[r][1] # "httpError")
  BY <1>2, Finds
<1>5. /\ client'[r] = "reading" /\ status'[r] = x /\ wire'[r] = Tail(wire[r])
      /\ \A c \in Requests \ {r} : client'[c] = client[c] /\ status'[c] = status[c] /\ wire'[c] = wire[c]
  BY <1>1, <1>2, <1>3, <1>4 DEF PlaceOK, RestOK
<1>6. Runs(r, "sending", status[r], kind[r], deltas[r], evidence[r], wire[r], handler[r], at[r], served[r])
  BY <1>2 DEF Courses, Course
<1>7. Runs(r, "reading", x, kind[r], deltas[r], evidence[r], Tail(wire[r]), handler[r], at[r], served[r])
  BY <1>3, <1>4, <1>6, RunsHead
<1>8. Course(r)'
  BY <1>2, <1>5, <1>7 DEF Course
<1>9. \A c \in Requests \ {r} : Course(c)'
  BY <1>2, <1>5, CourseSpared DEF Spares, Courses
<1> QED BY <1>8, <1>9 DEF Courses

LEMMA ChunkCourse ==
  ASSUME RestOK, PlaceOK, TableInv, Courses, NEW r \in Requests, ReadChunk(r)
  PROVE  Courses'
<1>0. PICK f \in Frames \cup {"text"} : \E new, c1, k1, d1 : Makes(r, f, new, c1, k1, d1)
  BY ChunkMade
<1>1. PICK new, c1, k1, d1 : Makes(r, f, new, c1, k1, d1)
  BY <1>0
<1>2. client[r] = "reading" /\ UNCHANGED <<status, gone, handler, served, at>>
  BY DEF ReadChunk, KeepAround, serverVars
<1>3. /\ DOMAIN evidence = Requests /\ DOMAIN wire = Requests
      /\ Told("reading", status[r], kind[r], deltas[r], evidence[r])
      /\ Kept("reading", status[r], evidence[r], wire[r], handler[r], served[r], Script[r][1] # "httpError")
      /\ evidence[r] \in Seq(Entries) /\ status[r] \in {"none", "ok", "error"}
  BY <1>2, Finds
<1>4. Runs(r, "reading", status[r], kind[r], deltas[r], evidence[r], wire[r], handler[r], at[r], served[r])
  BY <1>2 DEF Courses, Course
<1>5. /\ wire[r] # <<>> /\ Head(wire[r]) = f
      /\ ChunkNoted(f, status[r], kind[r], deltas[r], evidence[r], new, c1, k1, d1)
      /\ wire' = [wire EXCEPT ![r] = Tail(wire[r])] /\ evidence' = [evidence EXCEPT ![r] = evidence[r] \o new]
      /\ client'[r] = c1 /\ kind'[r] = k1 /\ deltas'[r] = d1
      /\ \A c \in Requests \ {r} : client'[c] = client[c] /\ kind'[c] = kind[c] /\ deltas'[c] = deltas[c]
  BY <1>1 DEF Makes, Log
<1>6. Runs(r, c1, status[r], k1, d1, evidence[r] \o new, Tail(wire[r]), handler[r], at[r], served[r])
  BY <1>3, <1>4, <1>5, RunsChunk
<1>7. /\ evidence'[r] = evidence[r] \o new /\ wire'[r] = Tail(wire[r])
      /\ \A c \in Requests \ {r} : evidence'[c] = evidence[c] /\ wire'[c] = wire[c]
  BY <1>3, <1>5
<1>8. Course(r)'
  BY <1>2, <1>5, <1>6, <1>7 DEF Course
<1>9. \A c \in Requests \ {r} : Course(c)'
  BY <1>2, <1>5, <1>7, CourseSpared DEF Spares, Courses
<1> QED BY <1>8, <1>9 DEF Courses

\* The client stops reading because of what it finds.
LEMMA AwayCourse ==
  ASSUME RestOK, PlaceOK, TableInv, Courses, NEW r \in Requests, client[r] \in {"sending", "reading"},
         NEW c1 \in {"draining", "closing"}, client' = [client EXCEPT ![r] = c1],
         NEW k1, kind' = [kind EXCEPT ![r] = k1],
         wire' = wire \/ wire' = [wire EXCEPT ![r] = Tail(wire[r])],
         UNCHANGED <<status, deltas, gone, evidence, handler, served, at>>,
         \/ /\ client[r] = "reading" /\ wire[r] # <<>> /\ Head(wire[r]) = "eof"
            /\ k1 = IF status[r] = "error" THEN "HTTP_STATUS"
                    ELSE KindAtEof(Raw(evidence[r]), deltas[r], ExpectedTokens[r])
         \/ client[r] = "reading" /\ wire[r] # <<>> /\ Head(wire[r]) = "reset" /\ k1 = "TRANSPORT"
         \/ handler[r] = "stalled" /\ wire[r] = <<>> /\ k1 = "TIMEOUT"
  PROVE  Courses'
<1>1. /\ DOMAIN wire = Requests
      /\ Told(client[r], status[r], kind[r], deltas[r], evidence[r])
      /\ Kept(client[r], status[r], evidence[r], wire[r], handler[r], served[r], Script[r][1] # "httpError")
      /\ evidence[r] \in Seq(Entries) /\ status[r] \in {"none", "ok", "error"}
  BY Finds
<1>2. Runs(r, client[r], status[r], kind[r], deltas[r], evidence[r], wire[r], handler[r], at[r], served[r])
  BY DEF Courses, Course
<1>3. /\ client'[r] = c1 /\ kind'[r] = k1
      /\ \A c \in Requests \ {r} : client'[c] = client[c] /\ kind'[c] = kind[c] /\ wire'[c] = wire[c]
  BY <1>1 DEF PlaceOK, RestOK
<1>4. PICK w1 : w1 = wire'[r]
  OBVIOUS
<1>5. Runs(r, c1, status[r], k1, deltas[r], evidence[r], w1, handler[r], at[r], served[r])
  BY <1>1, <1>2, RunsOut
<1>6. Course(r)'
  BY <1>3, <1>4, <1>5 DEF Course
<1>7. \A c \in Requests \ {r} : Course(c)'
  BY <1>3, CourseSpared DEF Spares, Courses
<1> QED BY <1>6, <1>7 DEF Courses

LEMMA OutcomeCourse ==
  ASSUME RestOK, PlaceOK, TableInv, Courses, Calm', NEW r \in Requests, ReadEof(r) \/ ReadReset(r) \/ Timeout(r)
  PROVE  Courses'
<1>1. CASE ReadEof(r)
  <2>1. PICK k1 : k1 = IF status[r] = "error" THEN "HTTP_STATUS"
                       ELSE KindAtEof(Raw(evidence[r]), deltas[r], ExpectedTokens[r])
    OBVIOUS
  <2>2. /\ client[r] = "reading" /\ client' = [client EXCEPT ![r] = "draining"] /\ kind' = [kind EXCEPT ![r] = k1]
        /\ wire[r] # <<>> /\ Head(wire[r]) = "eof" /\ wire' = [wire EXCEPT ![r] = Tail(wire[r])]
        /\ UNCHANGED <<status, deltas, gone, evidence, handler, served, at>>
    BY <1>1, <2>1 DEF ReadEof, Reads, KeepAround, serverVars
  <2> QED BY <2>1, <2>2, AwayCourse
<1>2. CASE ReadReset(r)
  <2>1. /\ client[r] = "reading" /\ client' = [client EXCEPT ![r] = "closing"] /\ kind' = [kind EXCEPT ![r] = "TRANSPORT"]
        /\ wire[r] # <<>> /\ Head(wire[r]) = "reset" /\ wire' = [wire EXCEPT ![r] = Tail(wire[r])]
        /\ UNCHANGED <<status, deltas, gone, evidence, handler, served, at>>
    BY <1>2 DEF ReadReset, Reads, Decide, KeepAround, serverVars
  <2> QED BY <2>1, AwayCourse
<1>3. CASE Timeout(r)
  <2>1. /\ client[r] \in {"sending", "reading"} /\ client' = [client EXCEPT ![r] = "closing"]
        /\ kind' = [kind EXCEPT ![r] = "TIMEOUT"] /\ wire[r] = <<>>
        /\ UNCHANGED <<status, deltas, gone, evidence, handler, served, at, wire>>
    BY <1>3 DEF Timeout, Decide, KeepAround, serverVars
  <2>2. handler[r] = "stalled"
    <3>1. slow' = 0 /\ slow \in Nat
      BY DEF Calm, RestOK
    <3> QED BY <1>3, <3>1 DEF Timeout
  <2> QED BY <2>1, <2>2, AwayCourse
<1> QED BY <1>1, <1>2, <1>3

LEMMA CloseCourse ==
  ASSUME RestOK, PlaceInv, TableInv, Courses, NEW r \in Requests, Close(r)
  PROVE  Courses'
<1>1. PICK new : new = <<Event("REQUEST_TERMINAL", kind[r]), Event0("CLIENT_REQUEST_ENDED")>>
  OBVIOUS
<1>2. /\ client[r] \in {"draining", "closing"} /\ gone' = gone \cup {r} /\ wire' = [wire EXCEPT ![r] = <<>>]
      /\ evidence' = [evidence EXCEPT ![r] = evidence[r] \o new]
      /\ UNCHANGED <<status, deltas, kind, handler, served, at>>
  BY <1>1 DEF Close, Log, serverVars
<1>3. /\ DOMAIN evidence = Requests /\ DOMAIN wire = Requests /\ kind[r] \in Kinds /\ evidence[r] \in Seq(Entries)
  BY <1>2, Finds
<1>4. /\ client'[r] = "ended"
      /\ \A c \in Requests \ {r} : client'[c] = client[c] \/ (client[c] \in Unstarted /\ client'[c] \in Unstarted)
  BY CloseMoves
<1>5. Runs(r, client[r], status[r], kind[r], deltas[r], evidence[r], wire[r], handler[r], at[r], served[r])
  BY DEF Courses, Course
<1>6. Runs(r, "ended", status[r], kind[r], deltas[r], evidence[r] \o new, <<>>, handler[r], at[r], served[r])
  BY <1>1, <1>2, <1>3, <1>5, RunsEnd
<1>7. /\ evidence'[r] = evidence[r] \o new /\ wire'[r] = <<>>
      /\ \A c \in Requests \ {r} : evidence'[c] = evidence[c] /\ wire'[c] = wire[c]
  BY <1>2, <1>3
<1>8. Course(r)'
  BY <1>2, <1>4, <1>6, <1>7 DEF Course
<1>9. \A c \in Requests \ {r} : Course(c)'
  BY <1>2, <1>4, <1>7, CourseSpared DEF Spares, Courses
<1> QED BY <1>8, <1>9 DEF Courses

LEMMA StartsCourse ==
  ASSUME RestOK, PlaceInv, TableInv, Courses, StartWarmup \/ StartTasks \/ Resume
  PROVE  Courses'
<1>1. UNCHANGED <<status, deltas, kind, gone, wire, handler, at, served>>
  BY WhoStarts DEF KeepIdle, serverVars
<1>2. PICK S \in SUBSET Requests : Starting(S)
  BY WhoStarts
<1>3. ASSUME NEW r \in S PROVE Course(r)'
  <2>1. client[r] \in Unstarted /\ client'[r] = "sending" /\ evidence'[r] = evidence[r] \o Started /\ r \in Requests
    BY <1>2, <1>3 DEF Starting
  <2>2. PICK good \in BOOLEAN : good = (Script[r][1] # "httpError")
    BY <2>1, Finds
  <2>3. /\ Told(client[r], status[r], kind[r], deltas[r], evidence[r])
        /\ Kept(client[r], status[r], evidence[r], wire[r], handler[r], served[r], good)
    BY <2>1, <2>2, Finds DEF Unstarted
  <2>4. Runs(r, client[r], status[r], kind[r], deltas[r], evidence[r], wire[r], handler[r], at[r], served[r])
    BY <2>1 DEF Courses, Course
  <2>5. Runs(r, "sending", status[r], kind[r], deltas[r], evidence[r] \o Started, wire[r], handler[r], at[r], served[r])
    BY <2>1, <2>3, <2>4, RunsStart
  <2> QED BY <1>1, <2>1, <2>5 DEF Course
<1>4. ASSUME NEW r \in Requests \ S PROVE Course(r)'
  <2>1. Course(r) /\ r \in Requests
    BY <1>4 DEF Courses
  <2>2. Spares(r) /\ at'[r] = at[r]
    BY <1>1, <1>2, <1>4 DEF Starting, Spares
  <2> QED BY <2>1, <2>2, CourseSpared
<1> QED BY <1>3, <1>4 DEF Courses

\* What a handler that goes on, or away, leaves of the course of its request.
LEMMA ServerCourse ==
  ASSUME RestOK, PlaceOK, TableInv, Courses, NEW r \in Requests, KeepClient,
         handler[r] # "new" \/ at[r] = 1, NEW w1, NEW h1, NEW v1, NEW n1, h1 # "new",
         wire' = [wire EXCEPT ![r] = w1] \/ (wire' = wire /\ w1 = wire[r]),
         handler' = [handler EXCEPT ![r] = h1] \/ (handler' = handler /\ h1 = handler[r]),
         served' = [served EXCEPT ![r] = v1] \/ (served' = served /\ v1 = served[r]),
         at' = [at EXCEPT ![r] = n1] \/ (at' = at /\ n1 = at[r]),
         client[r] \in {"sending", "reading"} =>
           IF Script[r][1] = "httpError" THEN Refused(client[r], status[r], deltas[r], evidence[r], h1, w1)
                                         ELSE Plays(Script[r], n1, h1, v1, w1)
  PROVE  Courses'
<1>1. UNCHANGED <<client, status, deltas, kind, gone, evidence>>
  BY DEF KeepClient, clientVars, logVars
<1>2. DOMAIN wire = Requests /\ DOMAIN served = Requests
  BY Finds
<1>3. handler \in [Requests -> {"new", "serving", "stalled", "done"}] /\ DOMAIN at = Requests
  BY DEF RestOK
<1>4. /\ wire'[r] = w1 /\ handler'[r] = h1 /\ served'[r] = v1 /\ at'[r] = n1
      /\ \A c \in Requests \ {r} : wire'[c] = wire[c] /\ handler'[c] = handler[c] /\ served'[c] = served[c] /\ at'[c] = at[c]
  BY <1>2, <1>3
<1>5. Runs(r, client[r], status[r], kind[r], deltas[r], evidence[r], wire[r], handler[r], at[r], served[r])
  BY DEF Courses, Course
<1>6. Runs(r, client[r], status[r], kind[r], deltas[r], evidence[r], w1, h1, n1, v1)
  BY <1>5 DEF Runs
<1>7. Course(r)'
  BY <1>1, <1>4, <1>6 DEF Course
<1>8. \A c \in Requests \ {r} : Course(c)'
  BY <1>1, <1>4, CourseSpared DEF Spares, Courses
<1> QED BY <1>7, <1>8 DEF Courses

\* What a handler is at, for a client that reads.
LEMMA AtHand ==
  ASSUME RestOK, TableInv, Courses, NEW r \in Requests, client[r] \in {"sending", "reading"}
  PROVE  /\ r \notin gone
         /\ handler[r] = "new" => wire[r] = <<>> /\ served[r] = <<>> /\ at[r] = 1
         /\ served[r] \in Seq(Entries)
         /\ Script[r][1] # "httpError" => Plays(Script[r], at[r], handler[r], served[r], wire[r]) /\ wire[r] \in Seq(Wired)
         /\ Script[r][1] = "httpError" =>
              /\ handler[r] \in {"new", "done"}
              /\ Refused(client[r], status[r], deltas[r], evidence[r], handler[r], wire[r])
<1>1. /\ Kept(client[r], status[r], evidence[r], wire[r], handler[r], served[r], Script[r][1] # "httpError")
      /\ r \notin gone
  BY Finds
<1>2. Runs(r, client[r], status[r], kind[r], deltas[r], evidence[r], wire[r], handler[r], at[r], served[r])
  BY DEF Courses, Course
<1> QED BY <1>1, <1>2 DEF Runs, Kept, Wired

\* What a handler adds to its log and to the wire.
LEMMA SentMore ==
  ASSUME NEW v \in Seq(Entries), NEW x \in Entries
  PROVE  Sent(Append(v, x)) = IF x.kind = "SENT" THEN Append(Sent(v), x.of) ELSE Sent(v)
<1>1. /\ Recorded(v, "SENT") \in Seq(Entries)
      /\ Recorded(Append(v, x), "SENT") = IF x.kind = "SENT" THEN Append(Recorded(v, "SENT"), x) ELSE Recorded(v, "SENT")
  BY RecordedAppend DEF EventKinds
<1> QED BY <1>1, SubjectsAppend DEF Sent

LEMMA AcceptCourse ==
  ASSUME RestOK, PlaceOK, TableInv, Courses, NEW r \in Requests, Accept(r)
  PROVE  Courses'
<1>1. handler[r] = "new" /\ KeepClient /\ at' = at /\ at[r] = 1
  BY DEF Accept, Courses, Course, Runs
<1>2. CASE Script[r][1] # "httpError"
  <2>1. PICK x \in Entries : x = Event0("REQUEST_ACCEPTED") /\ x.kind = "REQUEST_ACCEPTED"
    BY NewEvent DEF EventKinds
  <2>2. PICK y \in Entries : y = Event0("RESPONSE_HEADERS_SENT") /\ y.kind = "RESPONSE_HEADERS_SENT"
    BY NewEvent DEF EventKinds
  <2>3. Send(r, <<"ok">>) /\ Serve(r, <<x, y>>) /\ handler' = [handler EXCEPT ![r] = "serving"]
    BY <1>2, <2>1, <2>2 DEF Accept
  <2>4. PICK w1 : w1 = IF r \in gone THEN wire[r] ELSE wire[r] \o <<"ok">>
    OBVIOUS
  <2>5. PICK v1 : v1 = served[r] \o <<x, y>>
    OBVIOUS
  <2>6. wire' = [wire EXCEPT ![r] = w1] /\ served' = [served EXCEPT ![r] = v1]
    BY <2>3, <2>4, <2>5 DEF Send, Serve
  <2>7. ASSUME client[r] \in {"sending", "reading"} PROVE Plays(Script[r], at[r], "serving", v1, w1)
    <3>1. wire[r] = <<>> /\ served[r] = <<>> /\ r \notin gone
      BY <1>1, <2>7, AtHand
    <3>2. PICK v \in Seq(Entries) : v = <<>>
      BY EmptySeq
    <3>3. v1 = Append(Append(v, x), y) /\ Append(v, x) \in Seq(Entries)
      BY <2>5, <3>1, <3>2, OneMore, TwoMore
    <3>4. Sent(v1) = Sent(v)
      <4>1. Sent(Append(v, x)) = Sent(v)
        BY <2>1, SentMore
      <4>2. PICK a \in Seq(Entries) : a = Append(v, x)
        BY <3>3
      <4>3. Sent(Append(a, y)) = Sent(a)
        BY <2>2, SentMore
      <4> QED BY <3>3, <4>1, <4>2, <4>3
    <3>5. Sent(v1) = <<>> /\ Len(<<>>) = 0
      BY <3>2, <3>4, JustStarted, EmptySeq
    <3>6. w1 = <<"ok">>
      BY <2>4, <3>1, ConcatEmptySeq
    <3>7. Range(w1) = {"ok"}
      BY <3>6 DEF Range
    <3> QED BY <1>1, <3>5, <3>7, ScriptFacts DEF Plays
  <2> QED BY <1>1, <1>2, <2>3, <2>6, <2>7, ServerCourse
<1>3. CASE Script[r][1] = "httpError"
  <2>1. PICK error : error = <<Event0("REQUEST_ACCEPTED"), Event0("HTTP_ERROR_SENT")>>
    OBVIOUS
  <2>2. Send(r, <<"error", "text", "eof">>) /\ Finish(r, error)
    BY <1>3, <2>1 DEF Accept
  <2>3. PICK w1 : w1 = IF r \in gone THEN wire[r] ELSE wire[r] \o <<"error", "text", "eof">>
    OBVIOUS
  <2>4. PICK v1 : v1 = served[r] \o (error \o <<Event0("REQUEST_HANDLER_ENDED")>>)
    OBVIOUS
  <2>5. /\ wire' = [wire EXCEPT ![r] = w1] /\ served' = [served EXCEPT ![r] = v1]
        /\ handler' = [handler EXCEPT ![r] = "done"]
    BY <2>2, <2>3, <2>4 DEF Send, Finish, Serve
  <2>6. ASSUME client[r] \in {"sending", "reading"}
        PROVE  Refused(client[r], status[r], deltas[r], evidence[r], "done", w1)
    <3>1. wire[r] = <<>> /\ r \notin gone /\ Refused(client[r], status[r], deltas[r], evidence[r], "new", <<>>)
      BY <1>1, <1>3, <2>6, AtHand
    <3>2. <<>> \o <<"error", "text", "eof">> = <<"error", "text", "eof">>
      <4>1. <<"error", "text", "eof">> \in Seq({"error", "text", "eof"})
        OBVIOUS
      <4> QED BY <4>1, ConcatEmptySeq
    <3>3. w1 = <<"error", "text", "eof">>
      BY <2>3, <3>1, <3>2
    <3> QED BY <3>1, <3>3 DEF Refused
  <2> QED BY <1>1, <1>3, <2>5, <2>6, ServerCourse
<1> QED BY <1>2, <1>3

LEMMA PlaysFrame ==
  ASSUME NEW s \in Seq(FixtureActions), NEW n, n <= Len(s), s[n] \in Frames, NEW v \in Seq(Entries),
         NEW w \in Seq(Wired), Plays(s, n, "serving", v, w)
  PROVE  Plays(s, n + 1, "serving", Append(v, Event("SENT", s[n])), Append(w, s[n]))
<1>1. PICK f \in Frames : f = s[n] /\ f \in Subject /\ f \in Wired /\ f \notin {"eof", "reset", "httpError"}
  BY WiredFacts DEF Wired, Frames, Data
<1>2. PICK x \in Entries : x = Event("SENT", f) /\ x.kind = "SENT" /\ x.of = f
  BY <1>1, NewEvent DEF EventKinds
<1>3. PICK a \in Seq(Subject) : a = Sent(v) /\ Len(a) = n - 1 /\ n \in 1..(Len(s) + 1)
  BY RawIs DEF Plays
<1>4. PICK b \in Seq(Subject) : b = Sent(Append(v, x))
  <2>1. Append(v, x) \in Seq(Entries)
    BY OneMore
  <2> QED BY <2>1, RawIs
<1>5. b = Append(a, f)
  BY <1>2, <1>3, <1>4, SentMore
<1>6. Len(b) = Len(a) + 1 /\ b[Len(a) + 1] = f /\ \A i \in 1..Len(a) : b[i] = a[i]
  BY <1>1, <1>5, AppendProperties
<1>7. Len(s) \in Nat /\ Len(a) \in Nat
  BY LenProperties
<1>8. \A i \in 1..((n + 1) - 1) : b[i] = s[i] /\ s[i] \in Frames
  <2> TAKE i \in 1..((n + 1) - 1)
  <2>1. CASE i = n
    BY <1>1, <1>3, <1>6, <1>7, <2>1
  <2>2. CASE i # n
    <3>1. i \in 1..(n - 1) /\ i \in 1..Len(a)
      BY <1>3, <1>7, <2>2
    <3> QED BY <1>3, <1>6, <3>1 DEF Plays
  <2> QED BY <2>1, <2>2
<1>9. "eof" \notin Range(w) /\ "reset" \notin Range(w)
  BY <1>1, <1>3, <1>7 DEF Plays
<1>10. Range(Append(w, f)) = Range(w) \cup {f}
  BY <1>1, RangeAppend
<1>11. n + 1 \in 1..(Len(s) + 1) /\ Len(b) = (n + 1) - 1
  BY <1>3, <1>6, <1>7
<1>12. PICK w1 : w1 = Append(w, f) /\ "eof" \notin Range(w1) /\ "reset" \notin Range(w1)
  BY <1>1, <1>9, <1>10
<1>13. PICK v1 : v1 = Append(v, x) /\ b = Sent(v1)
  BY <1>4
<1>14. Plays(s, n + 1, "serving", v1, w1)
  BY <1>8, <1>11, <1>12, <1>13 DEF Plays
<1> QED BY <1>1, <1>2, <1>12, <1>13, <1>14

LEMMA PlaysOut ==
  ASSUME NEW s \in Seq(FixtureActions), NEW n, NEW v \in Seq(Entries), NEW x \in Entries, x.kind # "SENT",
         NEW w \in Seq(Wired), Plays(s, n, "serving", v, w), NEW y \in {"eof", "reset"},
         \/ y = "eof" /\ n > Len(s)
         \/ y = "reset" /\ n <= Len(s) /\ s[n] = "httpError"
  PROVE  Plays(s, n, "done", Append(v, x), Append(w, y))
<1>1. y \in Wired
  BY DEF Wired
<1>2. Range(Append(w, y)) = Range(w) \cup {y}
  BY <1>1, RangeAppend
<1>3. Sent(Append(v, x)) = Sent(v)
  BY SentMore
<1>4. Len(s) \in Nat /\ n \in 1..(Len(s) + 1)
  BY LenProperties DEF Plays
<1>5. PICK w1 : w1 = Append(w, y) /\ Range(w1) = Range(w) \cup {y}
  BY <1>2
<1>6. PICK v1 : v1 = Append(v, x) /\ Sent(v1) = Sent(v)
  BY <1>3
<1>7. Plays(s, n, "done", v1, w1)
  BY <1>4, <1>5, <1>6 DEF Plays
<1> QED BY <1>5, <1>6, <1>7

LEMMA PlaysStall ==
  ASSUME NEW s, NEW n, n <= Len(s), s[n] = "stall", NEW v \in Seq(Entries), NEW x \in Entries, x.kind # "SENT",
         NEW w, Plays(s, n, "serving", v, w)
  PROVE  Plays(s, n, "stalled", Append(v, x), w)
<1>1. PICK v1 : v1 = Append(v, x) /\ Sent(v1) = Sent(v)
  BY SentMore
<1>2. Plays(s, n, "stalled", v1, w)
  BY <1>1 DEF Plays
<1> QED BY <1>1, <1>2

LEMMA ActCourse ==
  ASSUME RestOK, PlaceOK, TableInv, Courses, NEW r \in Requests, Act(r)
  PROVE  Courses'
<1>1. handler[r] = "serving" /\ KeepClient
  BY DEF Act
<1>2. PICK s \in Seq(FixtureActions) : s = Script[r]
  BY ScriptFacts
<1>3. PICK n : n = at[r]
  OBVIOUS
<1>4. ASSUME client[r] \in {"sending", "reading"}
      PROVE  /\ Script[r][1] # "httpError" /\ served[r] \in Seq(Entries) /\ wire[r] \in Seq(Wired) /\ r \notin gone
             /\ Plays(s, n, "serving", served[r], wire[r])
  BY <1>1, <1>2, <1>3, <1>4, AtHand
<1>5. ASSUME NEW y \in {"eof", "reset"}, Send(r, <<y>>), Finish(r, <<>>), at' = at,
             \/ y = "eof" /\ n > Len(s)
             \/ y = "reset" /\ n <= Len(s) /\ s[n] = "httpError"
      PROVE  Courses'
  <2>1. PICK x \in Entries : x = Event0("REQUEST_HANDLER_ENDED") /\ x.kind # "SENT"
    BY NewEvent DEF EventKinds
  <2>2. PICK w1 : w1 = IF r \in gone THEN wire[r] ELSE wire[r] \o <<y>>
    OBVIOUS
  <2>3. PICK v1 : v1 = served[r] \o <<x>>
    OBVIOUS
  <2>4. <<>> \o <<x>> = <<x>>
    BY ConcatEmptySeq
  <2>5. /\ wire' = [wire EXCEPT ![r] = w1] /\ served' = [served EXCEPT ![r] = v1]
        /\ handler' = [handler EXCEPT ![r] = "done"]
    BY <1>5, <2>1, <2>2, <2>3, <2>4 DEF Send, Finish, Serve
  <2>6. ASSUME client[r] \in {"sending", "reading"} PROVE Script[r][1] # "httpError" /\ Plays(s, n, "done", v1, w1)
    <3>1. PICK w \in Seq(Wired) : w = wire[r]
      BY <1>4, <2>6
    <3>2. PICK v \in Seq(Entries) : v = served[r]
      BY <1>4, <2>6
    <3>3. Plays(s, n, "serving", v, w) /\ r \notin gone /\ Script[r][1] # "httpError"
      BY <1>4, <2>6, <3>1, <3>2
    <3>4. w1 = Append(w, y) /\ v1 = Append(v, x)
      BY <2>2, <2>3, <3>1, <3>2, <3>3, OneMore, AppendIsConcat DEF Wired
    <3> QED BY <1>5, <2>1, <3>3, <3>4, PlaysOut
  <2> QED BY <1>1, <1>2, <1>3, <1>5, <2>5, <2>6, ServerCourse
<1>6. ASSUME n <= Len(s), s[n] \in Frames, Send(r, <<s[n]>>), Serve(r, <<Event("SENT", s[n])>>),
             at' = [at EXCEPT ![r] = @ + 1], handler' = handler
      PROVE  Courses'
  <2>1. PICK f \in Frames : f = s[n]
    BY <1>6
  <2>2. PICK x \in Entries : x = Event("SENT", f)
    BY WiredFacts, NewEvent DEF EventKinds
  <2>3. PICK w1 : w1 = IF r \in gone THEN wire[r] ELSE wire[r] \o <<f>>
    OBVIOUS
  <2>4. PICK v1 : v1 = served[r] \o <<x>>
    OBVIOUS
  <2>5. wire' = [wire EXCEPT ![r] = w1] /\ served' = [served EXCEPT ![r] = v1] /\ at' = [at EXCEPT ![r] = n + 1]
    BY <1>3, <1>6, <2>1, <2>2, <2>3, <2>4 DEF Send, Serve
  <2>6. ASSUME client[r] \in {"sending", "reading"} PROVE Script[r][1] # "httpError" /\ Plays(s, n + 1, "serving", v1, w1)
    <3>1. PICK w \in Seq(Wired) : w = wire[r]
      BY <1>4, <2>6
    <3>2. PICK v \in Seq(Entries) : v = served[r]
      BY <1>4, <2>6
    <3>3. Plays(s, n, "serving", v, w) /\ r \notin gone /\ Script[r][1] # "httpError"
      BY <1>4, <2>6, <3>1, <3>2
    <3>4. w1 = Append(w, f) /\ v1 = Append(v, x)
      BY <2>3, <2>4, <3>1, <3>2, <3>3, OneMore, AppendIsConcat DEF Wired
    <3> QED BY <1>6, <2>1, <2>2, <3>3, <3>4, PlaysFrame
  <2> QED BY <1>1, <1>2, <1>6, <2>5, <2>6, ServerCourse
<1>7. ASSUME n <= Len(s), s[n] = "stall", Serve(r, <<Event0("STALL_STARTED")>>),
             handler' = [handler EXCEPT ![r] = "stalled"], UNCHANGED <<wire, at>>
      PROVE  Courses'
  <2>1. PICK x \in Entries : x = Event0("STALL_STARTED") /\ x.kind # "SENT"
    BY NewEvent DEF EventKinds
  <2>2. PICK v1 : v1 = served[r] \o <<x>>
    OBVIOUS
  <2>3. served' = [served EXCEPT ![r] = v1]
    BY <1>7, <2>1, <2>2 DEF Serve
  <2>4. ASSUME client[r] \in {"sending", "reading"}
        PROVE  Script[r][1] # "httpError" /\ Plays(s, n, "stalled", v1, wire[r])
    <3>1. PICK v \in Seq(Entries) : v = served[r]
      BY <1>4, <2>4
    <3>2. Plays(s, n, "serving", v, wire[r]) /\ Script[r][1] # "httpError"
      BY <1>4, <2>4, <3>1
    <3>3. v1 = Append(v, x)
      BY <2>2, <3>1, OneMore
    <3> QED BY <1>7, <2>1, <3>2, <3>3, PlaysStall
  <2> QED BY <1>1, <1>2, <1>3, <1>7, <2>3, <2>4, ServerCourse
<1> QED BY <1>2, <1>3, <1>5, <1>6, <1>7 DEF Act

LEMMA LeavesCourse ==
  ASSUME RestOK, PlaceOK, TableInv, Courses, NEW r \in Requests, StallEnds(r) \/ Disconnected(r) \/ CancelHandler(r)
  PROVE  Courses'
<1>1. handler[r] # "new" /\ KeepClient /\ wire' = wire /\ client[r] \notin {"sending", "reading"}
  <2>1. r \in gone => client[r] \in {"ended", "abandoned"}
    BY Finds
  <2> QED BY <2>1 DEF StallEnds, Disconnected, CancelHandler, KeepClient, KeepRun
<1>2. CASE StallEnds(r)
  <2>1. handler' = [handler EXCEPT ![r] = "serving"] /\ served' = served /\ at' = [at EXCEPT ![r] = at[r] + 1]
    BY <1>2 DEF StallEnds
  <2> QED BY <1>1, <2>1, ServerCourse
<1>3. CASE Disconnected(r) \/ CancelHandler(r)
  <2>1. PICK v1 : served' = [served EXCEPT ![r] = v1] /\ handler' = [handler EXCEPT ![r] = "done"] /\ at' = at
    BY <1>3 DEF Disconnected, CancelHandler, Finish, Serve
  <2> QED BY <1>1, <2>1, ServerCourse
<1> QED BY <1>2, <1>3

LEMMA CourseStep ==
  ASSUME IInv, RetainedInv, CourseInv, [Next]_vars
  PROVE  CourseInv'
<1> SUFFICES ASSUME Calm' PROVE Courses'
  BY DEF CourseInv, Courses
<1> USE DEF IInv, RetainedInv
<1>1. PlaceOK /\ slow \in Nat /\ interrupts \in Nat
  BY DEF PlaceInv, RestOK
<1>2. ~Interrupt /\ Calm
  <2>1. ~Interrupt
    BY <1>1 DEF Interrupt, Calm
  <2>2. ASSUME Runner \/ UNCHANGED vars PROVE Calm
    BY <2>2 DEF Runner, StartWarmup, StartTasks, Resume, Gathered, Stopped, KeepIdle, KeepRun, vars, Calm
  <2>3. ASSUME NEW r \in Requests, Client(r) PROVE Calm
    BY <2>3 DEF Client, ReadHead, ReadChunk, ReadEof, ReadReset, Close, Calm
  <2>4. ASSUME NEW r \in Requests, Server(r) PROVE Calm
    BY <2>4 DEF Server, Accept, Act, StallEnds, Disconnected, CancelHandler, KeepClient, KeepRun, Calm
  <2>5. ASSUME NEW r \in Requests, Timeout(r) PROVE Calm
    BY <1>1, <2>5 DEF Timeout, Calm
  <2> QED BY <2>1, <2>2, <2>3, <2>4, <2>5 DEF Next
<1>3. Courses
  BY <1>2 DEF CourseInv, Courses
<1>4. CASE StartWarmup \/ StartTasks \/ Resume
  BY <1>3, <1>4, StartsCourse
<1>5. CASE Gathered \/ Stopped \/ UNCHANGED vars
  <2>1. UNCHANGED <<client, status, deltas, kind, gone, wire, evidence, handler, served, at>>
    BY <1>5 DEF Gathered, Stopped, vars, KeepRun, clientVars, logVars, serverVars
  <2>2. \A r \in Requests : Course(r)'
    BY <1>3, <2>1, CourseSpared DEF Courses, Spares
  <2> QED BY <2>2 DEF Courses
<1>6. ASSUME NEW r \in Requests, Client(r) \/ Server(r) \/ Timeout(r) PROVE Courses'
  <2>1. CASE ReadHead(r)
    BY <1>1, <1>3, <2>1, HeadCourse
  <2>2. CASE ReadChunk(r)
    BY <1>1, <1>3, <2>2, ChunkCourse
  <2>3. CASE ReadEof(r) \/ ReadReset(r) \/ Timeout(r)
    BY <1>1, <1>3, <2>3, OutcomeCourse
  <2>4. CASE Close(r)
    BY <1>3, <2>4, CloseCourse
  <2>5. CASE Accept(r)
    BY <1>1, <1>3, <2>5, AcceptCourse
  <2>6. CASE Act(r)
    BY <1>1, <1>3, <2>6, ActCourse
  <2>7. CASE StallEnds(r) \/ Disconnected(r) \/ CancelHandler(r)
    BY <1>1, <1>3, <2>7, LeavesCourse
  <2> QED BY <1>6, <2>1, <2>2, <2>3, <2>4, <2>5, <2>6, <2>7 DEF Client, Server
<1> QED BY <1>2, <1>4, <1>5, <1>6 DEF Next, Runner

-----------------------------------------------------------------------------
(* How the lifecycle log begins                                             *)

LEMMA CourseInit == Init => CourseInv
<1> SUFFICES ASSUME Init, NEW r \in Requests PROVE Course(r)
  BY DEF CourseInv
<1> QED BY DEF Init, Course, Runs

LEMMA EventsAre ==
  ASSUME NEW k \in {"CLIENT_REQUEST_STARTED", "CLIENT_REQUEST_ENDED"}, NEW rs \in Seq(Requests)
  PROVE  \E new \in Seq(Lifecycle) :
           /\ new = [i \in DOMAIN rs |-> Event(k, rs[i])] /\ Len(new) = Len(rs)
           /\ \A j \in 1..Len(rs) : new[j] = Event(k, rs[j])
<1>1. Len(rs) \in Nat /\ DOMAIN rs = 1..Len(rs) /\ \A j \in 1..Len(rs) : rs[j] \in Requests
  BY LenProperties, ElementOfSeq
<1>2. PICK new : new = [i \in DOMAIN rs |-> Event(k, rs[i])]
  OBVIOUS
<1>3. \A j \in 1..Len(rs) : new[j] = Event(k, rs[j]) /\ Event(k, rs[j]) \in Lifecycle
  BY <1>1, <1>2 DEF Event, Lifecycle
<1>4. new \in [1..Len(rs) -> Lifecycle]
  BY <1>1, <1>2, <1>3
<1>5. new \in Seq(Lifecycle) /\ Len(new) = Len(rs)
  BY <1>1, <1>4, SeqIntro
<1> QED BY <1>2, <1>3, <1>5

LEMMA WidthIs ==
  ASSUME load \in Loads
  PROVE  /\ Width \in 1..Len(Measured) /\ Width \in Nat /\ Width >= 1 /\ Width <= Concurrency
         /\ Len(Measured) \in Nat /\ Concurrency \in Nat
         /\ \A m \in Nat : m <= Len(Measured) /\ m <= Concurrency => m <= Width
BY LoadFacts, FixtureAssumption DEF FixtureAssumption, Width

LEMMA OpensSame ==
  ASSUME OpeningInv, lifecycle' = lifecycle, load' = load, ~aborting' => ~aborting /\ Opened' = Opened,
         phase' \in {"warmup", "created"} => phase \in {"warmup", "created"}
  PROVE  OpeningInv'
<1>1. \A i : Opening(i)' = Opening(i)
  BY SameLoad DEF Opening
<1> QED BY <1>1 DEF OpeningInv

LEMMA OpensMore ==
  ASSUME OpeningInv, ~aborting, lifecycle \in Seq(Lifecycle), load' = load,
         NEW k \in {"CLIENT_REQUEST_STARTED", "CLIENT_REQUEST_ENDED"}, NEW rs \in Seq(Requests),
         LogLifecycle(k, rs), NEW n \in Nat, Opened = n, NEW m \in Nat, Opened' = m, m <= Len(lifecycle) + Len(rs),
         \A i \in 1..m : i <= n \/ \E j \in 1..Len(rs) : i = Len(lifecycle) + j /\ Event(k, rs[j]) = Opening(i),
         phase' \in {"warmup", "created"} => m = Len(lifecycle) + Len(rs)
  PROVE  OpeningInv'
<1>1. PICK new \in Seq(Lifecycle) :
        /\ lifecycle' = lifecycle \o new /\ Len(new) = Len(rs)
        /\ \A j \in 1..Len(rs) : new[j] = Event(k, rs[j])
  BY EventsAre DEF LogLifecycle
<1>2. PICK log \in Seq(Lifecycle) : log = lifecycle
  OBVIOUS
<1>3. PICK longer : longer = log \o new
  OBVIOUS
<1>4. /\ longer \in Seq(Lifecycle) /\ DOMAIN longer = 1..(Len(log) + Len(new))
      /\ Len(log) \in Nat /\ Len(new) \in Nat
      /\ \A i \in 1..Len(log) : longer[i] = log[i]
      /\ \A j \in 1..Len(new) : longer[Len(log) + j] = new[j]
  BY <1>3, LongerLog
<1>5. Len(longer) = Len(log) + Len(new)
  BY <1>4, LenProperties
<1>6. n <= Len(log) /\ \A i \in 1..n : log[i] = Opening(i)
  BY <1>2 DEF OpeningInv
<1>7. \A i \in 1..m : longer[i] = Opening(i)
  <2> TAKE i \in 1..m
  <2>1. CASE i <= n
    <3>1. i \in 1..n /\ i \in 1..Len(log)
      BY <1>4, <1>6, <2>1
    <3> QED BY <1>4, <1>6, <3>1
  <2>2. CASE ~(i <= n)
    <3>1. PICK j \in 1..Len(rs) : i = Len(lifecycle) + j /\ Event(k, rs[j]) = Opening(i)
      BY <2>2
    <3>2. j \in 1..Len(new) /\ i = Len(log) + j /\ new[j] = Opening(i)
      BY <1>1, <1>2, <3>1
    <3>3. longer[Len(log) + j] = new[j]
      BY <1>4, <3>2
    <3> QED BY <3>2, <3>3
  <2> QED BY <2>1, <2>2
<1>8. \A i : Opening(i)' = Opening(i)
  BY SameLoad DEF Opening
<1>9. lifecycle' = longer
  BY <1>1, <1>2, <1>3
<1>10. m <= Len(longer) /\ (phase' \in {"warmup", "created"} => m = Len(longer))
  BY <1>1, <1>2, <1>5
<1> QED BY <1>7, <1>8, <1>9, <1>10 DEF OpeningInv

LEMMA OpensLonger ==
  ASSUME PlaceInv, OpeningInv, phase = "measured", UNCHANGED <<phase, aborting, load>>,
         NEW k \in {"CLIENT_REQUEST_STARTED", "CLIENT_REQUEST_ENDED"}, NEW r \in Requests, LogLifecycle(k, <<r>>)
  PROVE  OpeningInv'
<1> SUFFICES ASSUME ~aborting PROVE OpeningInv'
  BY DEF OpeningInv
<1>1. PICK rs \in Seq(Requests) : rs = <<r>> /\ Len(rs) = 1
  <2>1. \A x \in Requests : <<x>> \in Seq(Requests) /\ Len(<<x>>) = 1
    OBVIOUS
  <2> QED BY <2>1
<1>2. lifecycle \in Seq(Lifecycle) /\ load \in Loads /\ Len(lifecycle) \in Nat
  BY LenProperties DEF PlaceInv, LogInv, PlaceOK
<1>3. PICK n \in Nat : n = 2 + Width
  BY <1>2, WidthIs
<1>4. Opened = n /\ Opened' = n
  <2>1. Width' = Width
    BY SameLoad DEF Width
  <2> QED BY <1>3, <2>1 DEF Opened
<1>5. n <= Len(lifecycle)
  BY <1>4 DEF OpeningInv
<1>6. n <= Len(lifecycle) + Len(rs) /\ \A i \in 1..n : i <= n
  BY <1>1, <1>2, <1>5
<1>7. LogLifecycle(k, rs)
  BY <1>1
<1> QED BY <1>2, <1>4, <1>6, <1>7, OpensMore

LEMMA OpensWarmup ==
  ASSUME PlaceInv, OpeningInv, StartWarmup \/ Close(Warmup)
  PROVE  OpeningInv'
<1>1. lifecycle \in Seq(Lifecycle) /\ load \in Loads /\ client \in [Requests -> States] /\ Warmup \in Requests
  BY LoadFacts DEF PlaceInv, LogInv, PlaceOK
<1>2. PICK rs \in Seq(Requests) : rs = <<Warmup>> /\ Len(rs) = 1 /\ rs[1] = Warmup
  <2>1. \A x \in Requests : <<x>> \in Seq(Requests) /\ Len(<<x>>) = 1
    OBVIOUS
  <2> QED BY <1>1, <2>1
<1>3. phase = "warmup" /\ ~aborting
  <2>1. phase = "warmup"
    BY DEF StartWarmup, Close, PlaceInv, ClientInv
  <2> QED BY <2>1 DEF PlaceInv, ClientInv
<1>4. CASE StartWarmup
  <2>1. /\ client[Warmup] = "new" /\ client'[Warmup] = "sending" /\ phase' = "warmup" /\ load' = load
        /\ LogLifecycle("CLIENT_REQUEST_STARTED", rs)
    BY <1>1, <1>2, <1>3, <1>4 DEF StartWarmup, KeepIdle
  <2>2. Opened = 0 /\ Opened' = 1
    BY <1>3, <2>1 DEF Opened
  <2>3. Len(lifecycle) = 0
    BY <1>3, <2>2 DEF OpeningInv
  <2>4. \A i \in 1..1 : \E j \in 1..Len(rs) : i = Len(lifecycle) + j /\ Event("CLIENT_REQUEST_STARTED", rs[j]) = Opening(i)
    BY <1>2, <2>3 DEF Opening
  <2>5. 1 \in Nat /\ 0 \in Nat /\ 1 <= Len(lifecycle) + Len(rs) /\ 1 = Len(lifecycle) + Len(rs)
    BY <1>2, <2>3
  <2>6. \A i \in 1..1 :
          i <= 0 \/ \E j \in 1..Len(rs) : i = Len(lifecycle) + j /\ Event("CLIENT_REQUEST_STARTED", rs[j]) = Opening(i)
    BY <2>4
  <2> QED BY <1>1, <1>2, <1>3, <2>1, <2>2, <2>5, <2>6, OpensMore
<1>5. CASE Close(Warmup)
  <2>1. /\ client[Warmup] # "new" /\ phase' = "created" /\ load' = load
        /\ LogLifecycle("CLIENT_REQUEST_ENDED", rs)
    BY <1>2, <1>5 DEF Close
  <2>2. Opened = 1 /\ Opened' = 2
    BY <1>3, <2>1 DEF Opened
  <2>3. Len(lifecycle) = 1
    BY <1>3, <2>2 DEF OpeningInv
  <2>4. \A i \in 1..2 : i <= 1 \/ \E j \in 1..Len(rs) : i = Len(lifecycle) + j /\ Event("CLIENT_REQUEST_ENDED", rs[j]) = Opening(i)
    BY <1>2, <2>3 DEF Opening
  <2>5. 1 \in Nat /\ 2 \in Nat /\ 2 <= Len(lifecycle) + Len(rs) /\ 2 = Len(lifecycle) + Len(rs)
    BY <1>2, <2>3
  <2> QED BY <1>1, <1>2, <1>3, <2>1, <2>2, <2>4, <2>5, OpensMore
<1> QED BY <1>4, <1>5

LEMMA OpensTasks ==
  ASSUME PlaceInv, OpeningInv, StartTasks
  PROVE  OpeningInv'
<1>1. lifecycle \in Seq(Lifecycle) /\ load \in Loads
  BY DEF PlaceInv, LogInv, PlaceOK
<1>2. phase = "created" /\ ~aborting
  BY DEF StartTasks, PlaceInv, ClientInv
<1>3. PICK first : first = SubSeq(Measured, 1, Width)
  OBVIOUS
<1>4. phase' = "measured" /\ load' = load /\ LogLifecycle("CLIENT_REQUEST_STARTED", first)
  BY <1>3 DEF StartTasks, KeepIdle, Width
<1>5. first \in Seq(Requests) /\ Len(first) = Width /\ \A j \in 1..Width : first[j] = Measured[j]
  <2>1. Measured \in Seq(Requests) /\ 0 \in 0..Len(Measured) /\ Width \in 0..Len(Measured)
    BY <1>1, LoadFacts, WidthIs
  <2>2. /\ SubSeq(Measured, 0 + 1, Width) \in Seq(Requests) /\ Len(SubSeq(Measured, 0 + 1, Width)) = Width - 0
        /\ \A i \in 1..(Width - 0) : SubSeq(Measured, 0 + 1, Width)[i] = Measured[0 + i]
    BY <2>1, Slice
  <2>3. PICK w \in Nat : w = Width
    BY <1>1, WidthIs
  <2> QED BY <1>3, <2>2, <2>3
<1>6. PICK w \in Nat : w = Width
  BY <1>1, WidthIs
<1>7. Opened = 2 /\ Opened' = 2 + w
  <2>1. Width' = Width
    BY <1>4, SameLoad DEF Width
  <2> QED BY <1>2, <1>4, <1>6, <2>1 DEF Opened
<1>8. Len(lifecycle) = 2
  BY <1>2, <1>7 DEF OpeningInv
<1>9. \A i \in 1..(2 + w) :
        i <= 2 \/ \E j \in 1..Len(first) : i = Len(lifecycle) + j /\ Event("CLIENT_REQUEST_STARTED", first[j]) = Opening(i)
  <2> TAKE i \in 1..(2 + w)
  <2>1. CASE ~(i <= 2)
    <3>1. i - 2 \in 1..w /\ i = 2 + (i - 2) /\ i # 1 /\ i # 2
      BY <2>1
    <3>2. Event("CLIENT_REQUEST_STARTED", first[i - 2]) = Opening(i)
      BY <1>5, <1>6, <3>1 DEF Opening
    <3> QED BY <1>5, <1>6, <1>8, <3>1, <3>2
  <2> QED BY <2>1
<1>10. 2 + w \in Nat /\ 2 + w <= Len(lifecycle) + Len(first)
  BY <1>5, <1>6, <1>8
<1> QED BY <1>1, <1>2, <1>4, <1>5, <1>7, <1>9, <1>10, OpensMore

LEMMA OpeningStep ==
  ASSUME IInv, OpeningInv, [Next]_vars
  PROVE  OpeningInv'
<1> USE DEF IInv
<1>1. /\ load \in Loads /\ Warmup \in Requests /\ client \in [Requests -> States] /\ PlaceOK
  BY LoadFacts DEF PlaceInv, PlaceOK
<1>2. CASE StartWarmup
  BY <1>2, OpensWarmup
<1>3. CASE StartTasks
  BY <1>3, OpensTasks
<1>4. CASE Resume
  <2>1. phase = "measured" /\ ready # <<>> /\ ready \in Seq(Requests)
    BY <1>4 DEF Resume, PlaceInv, PlaceOK
  <2>2. PICK r \in Requests : r = Head(ready)
    BY <2>1, HeadTailProperties
  <2>3. LogLifecycle("CLIENT_REQUEST_STARTED", <<r>>) /\ UNCHANGED <<phase, aborting, load>>
    BY <1>4, <2>2 DEF Resume, KeepIdle
  <2> QED BY <2>1, <2>3, OpensLonger
<1>5. CASE Gathered \/ Stopped
  <2>1. /\ UNCHANGED <<lifecycle, load, aborting>> /\ phase \in {"measured", "stopping"}
        /\ phase' \in {"stopping", "aborted", "accepted", "refused"}
    BY <1>5 DEF Gathered, Stopped, KeepRun, logVars
  <2>2. Opened' = Opened
    BY <2>1, SameLoad DEF Opened, Width
  <2> QED BY <2>1, <2>2, OpensSame
<1>6. CASE Interrupt
  <2>1. lifecycle' = lifecycle /\ load' = load
    BY <1>6 DEF Interrupt, logVars
  <2>2. CASE aborting'
    BY <2>2 DEF OpeningInv
  <2>3. CASE ~aborting'
    <3>1. phase = "warmup" /\ phase' = phase /\ aborting' = aborting /\ client[Warmup] \in {"sending", "reading", "draining"}
          /\ client'[Warmup] = "closing"
      BY <1>1, <1>6, <2>3 DEF Interrupt
    <3>2. Opened' = Opened
      BY <3>1 DEF Opened
    <3> QED BY <2>1, <3>1, <3>2, OpensSame
  <2> QED BY <2>2, <2>3
<1>7. ASSUME UNCHANGED <<phase, aborting, lifecycle, load>>, client'[Warmup] = "new" <=> client[Warmup] = "new"
      PROVE  OpeningInv'
  <2>1. Opened' = Opened
    BY <1>7, SameLoad DEF Opened, Width
  <2> QED BY <1>7, <2>1, OpensSame
<1>8. ASSUME NEW r \in Requests, Client(r) \/ Timeout(r) PROVE OpeningInv'
  <2>1. CASE Close(r) /\ r = Warmup
    BY <2>1, OpensWarmup
  <2>2. CASE Close(r) /\ r # Warmup
    <3>1. /\ phase = "measured" \/ aborting
          /\ LogLifecycle("CLIENT_REQUEST_ENDED", <<r>>) /\ UNCHANGED <<phase, aborting, load>>
      BY <2>2, ClosingFacts
    <3>2. CASE aborting
      BY <3>1, <3>2 DEF OpeningInv
    <3>3. CASE phase = "measured"
      BY <3>1, <3>3, OpensLonger
    <3> QED BY <3>1, <3>2, <3>3
  <2>3. CASE ReadHead(r) \/ ReadChunk(r) \/ ReadEof(r) \/ ReadReset(r) \/ Timeout(r)
    <3>1. GoesOn(r)
      BY <2>3, ReadersGoOn
    <3>2. client'[Warmup] = "new" <=> client[Warmup] = "new"
      BY <1>1, <3>1 DEF GoesOn, InFlight
    <3> QED BY <1>7, <3>1, <3>2 DEF GoesOn
  <2> QED BY <1>8, <2>1, <2>2, <2>3 DEF Client
<1>9. ASSUME NEW r \in Requests, Server(r) PROVE OpeningInv'
  BY <1>7, <1>9, ServerMovesNobody
<1>10. CASE UNCHANGED vars
  BY <1>7, <1>10 DEF vars, clientVars, logVars
<1> QED BY <1>2, <1>3, <1>4, <1>5, <1>6, <1>8, <1>9, <1>10 DEF Next, Runner

LEMMA OpeningInit == Init => OpeningInv
<1> SUFFICES ASSUME Init PROVE OpeningInv
  OBVIOUS
<1>1. lifecycle = <<>> /\ Len(<<>>) = 0 /\ phase = "warmup" /\ client[Warmup] = "new"
  <2>1. Warmup \in Requests
    BY DEF Requests
  <2> QED BY <2>1, EmptySeq DEF Init
<1>2. Opened = 0
  BY <1>1 DEF Opened
<1> QED BY <1>1, <1>2 DEF OpeningInv

-----------------------------------------------------------------------------
(* The concurrency of a log                                                 *)

\* The largest of the numbers of active requests.
LEMMA PeakOf ==
  ASSUME NEW log, NEW m \in Nat,
         \A n \in 0..Len(log) : Cardinality(ActiveAfter(log, n)) \in Nat /\ Cardinality(ActiveAfter(log, n)) <= m,
         \E n \in 0..Len(log) : Cardinality(ActiveAfter(log, n)) = m
  PROVE  ObservedConcurrency(log) = m
<1> DEFINE S == {Cardinality(ActiveAfter(log, n)) : n \in 0..Len(log)}
<1>1. m \in S /\ \A x \in S : x \in Nat /\ x <= m
  OBVIOUS
<1>2. ObservedConcurrency(log) = CHOOSE x \in S : \A y \in S : x >= y
  BY DEF ObservedConcurrency, Max
<1> HIDE DEF S
<1>3. \E x \in S : \A y \in S : x >= y
  BY <1>1
<1>4. PICK x \in S : ObservedConcurrency(log) = x /\ \A y \in S : x >= y
  BY <1>2, <1>3
<1> QED BY <1>1, <1>4

\* At most the bound and at most the measured requests are active, and that many are when the
\* first ones have started, as long as the warmup has ended before.
LEMMA PeakIs ==
  ASSUME load \in Loads, NEW log \in Seq(Lifecycle), Bounded(log), NEW a \in {0, 2}, a + Width <= Len(log),
         a = 2 => \A i \in 1..2 : log[i] = Opening(i),
         \A i \in 1..Len(log) : a < i => log[i].of \in Range(Measured),
         \A i \in 1..Width : log[a + i] = Event("CLIENT_REQUEST_STARTED", Measured[i])
  PROVE  ObservedConcurrency(log) = Width
<1>1. PICK w \in Nat : w = Width /\ w >= 1 /\ w \in 0..Len(Measured)
  BY WidthIs
<1>2. PICK l \in Nat : l = Len(log) /\ DOMAIN log = 1..l
  BY LenProperties
<1>3. a \in Nat /\ a + w \in 0..l /\ a + w >= 1 /\ a + w >= a
  BY <1>1, <1>2
<1>4. ASSUME NEW n \in 0..l, NEW c \in ActiveAfter(log, n)
      PROVE  \E i \in 1..l : i <= n /\ log[i].of = c /\ \A j \in 1..l : j <= n /\ log[j].of = c => log[j].kind = "CLIENT_REQUEST_STARTED"
  <2>1. (\E i \in 1..n : log[i].of = c) /\ \A j \in 1..n : log[j].of = c => log[j].kind = "CLIENT_REQUEST_STARTED"
    BY <1>4 DEF ActiveAfter
  <2>2. \A i : i \in 1..n <=> i \in 1..l /\ i <= n
    BY <1>2
  <2> QED BY <2>1, <2>2
<1>5. ASSUME NEW n \in 0..l
      PROVE  ActiveAfter(log, n) \subseteq Range(Measured) \/ (n = 1 /\ ActiveAfter(log, n) \subseteq {Warmup})
  <2>1. ASSUME NEW c \in ActiveAfter(log, n), a < n \/ a = 0 PROVE c \in Range(Measured)
    <3>1. PICK i \in 1..l : /\ i <= n /\ log[i].of = c
                            /\ \A j \in 1..l : j <= n /\ log[j].of = c => log[j].kind = "CLIENT_REQUEST_STARTED"
      BY <1>4, <2>1
    <3>2. CASE a < i
      BY <1>2, <3>1, <3>2
    <3>3. CASE ~(a < i)
      <4>1. a = 2 /\ i \in 1..2 /\ 2 \in 1..l /\ 2 \in 1..2 /\ 2 <= n
        BY <1>2, <2>1, <3>1, <3>3
      <4>2. log[i] = Opening(i) /\ log[2] = Opening(2)
        BY <4>1
      <4>3. c = Warmup /\ log[2].of = Warmup /\ log[2].kind = "CLIENT_REQUEST_ENDED"
        BY <3>1, <4>1, <4>2 DEF Opening, Event
      <4> QED BY <3>1, <4>1, <4>3
    <3> QED BY <3>2, <3>3
  <2>2. CASE a < n \/ a = 0
    BY <2>1, <2>2
  <2>3. CASE n = 0
    <3>1. ActiveAfter(log, n) = {}
      BY <2>3, <1>4
    <3> QED BY <3>1
  <2>4. CASE a = 2 /\ n = 1
    <3>1. ASSUME NEW c \in ActiveAfter(log, n) PROVE c = Warmup
      <4>1. PICK i \in 1..l : i <= n /\ log[i].of = c
        BY <1>4, <3>1
      <4>2. i = 1 /\ log[1] = Opening(1)
        BY <2>4, <4>1
      <4> QED BY <4>1, <4>2 DEF Opening, Event
    <3> QED BY <2>4, <3>1
  <2>5. CASE a = 2 /\ n = 2
    <3>1. ASSUME NEW c \in ActiveAfter(log, n) PROVE FALSE
      <4>1. PICK i \in 1..l : /\ i <= n /\ log[i].of = c
                              /\ \A j \in 1..l : j <= n /\ log[j].of = c => log[j].kind = "CLIENT_REQUEST_STARTED"
        BY <1>4, <3>1
      <4>2. i \in 1..2 /\ 2 \in 1..l /\ log[i] = Opening(i) /\ log[2] = Opening(2)
        BY <2>5, <4>1
      <4>3. c = Warmup /\ log[2].of = Warmup /\ log[2].kind = "CLIENT_REQUEST_ENDED"
        BY <4>1, <4>2 DEF Opening, Event
      <4> QED BY <2>5, <4>1, <4>2, <4>3
    <3> QED BY <3>1
  <2> QED BY <1>2, <2>2, <2>3, <2>4, <2>5
<1>6. ASSUME NEW n \in 0..l
      PROVE  Cardinality(ActiveAfter(log, n)) \in Nat /\ Cardinality(ActiveAfter(log, n)) <= w
  <2>1. CASE ActiveAfter(log, n) \subseteq {Warmup}
    <3>1. IsFiniteSet({Warmup}) /\ Cardinality({Warmup}) = 1
      BY FS_Singleton
    <3>2. Cardinality(ActiveAfter(log, n)) <= 1 /\ Cardinality(ActiveAfter(log, n)) \in Nat
      BY <2>1, <3>1, FS_Subset, FS_CardinalityType
    <3> QED BY <1>1, <3>2
  <2>2. CASE ActiveAfter(log, n) \subseteq Range(Measured)
    <3>1. IsFiniteSet(Range(Measured)) /\ Cardinality(Range(Measured)) = Len(Measured)
      <4>1. Len(Measured) \in 0..Len(Measured) /\ Range(Measured) = {Measured[i] : i \in 1..Len(Measured)}
        BY LoadFacts
      <4> QED BY <4>1, FirstOnes
    <3>2. Cardinality(ActiveAfter(log, n)) \in Nat /\ Cardinality(ActiveAfter(log, n)) <= Len(Measured)
      BY <2>2, <3>1, FS_Subset, FS_CardinalityType
    <3>3. CASE n = 0
      <4>1. ActiveAfter(log, n) = {}
        BY <3>3, <1>4
      <4>2. Cardinality(ActiveAfter(log, n)) = 0
        BY <4>1, FS_EmptySet
      <4> QED BY <1>1, <4>2
    <3>4. CASE n # 0
      <4>1. Cardinality(ActiveAfter(log, n)) <= Concurrency
        <5>1. n \in DOMAIN log
          BY <1>2, <3>4
        <5> QED BY <5>1 DEF Bounded
      <4> QED BY <1>1, <3>2, <4>1, WidthIs
    <3> QED BY <3>3, <3>4
  <2> QED BY <1>5, <2>1, <2>2
<1>7. Cardinality(ActiveAfter(log, a + w)) = w
  <2> DEFINE first == {Measured[i] : i \in 1..w}
  <2>1. IsFiniteSet(first) /\ Cardinality(first) = w
    BY <1>1, FirstOnes
  <2>2. ASSUME NEW c \in first PROVE c \in ActiveAfter(log, a + w)
    <3>1. PICK i \in 1..w : c = Measured[i]
      OBVIOUS
    <3>2. a + i \in 1..(a + w) /\ log[a + i].of = c
      <4>1. log[a + i] = Event("CLIENT_REQUEST_STARTED", c)
        BY <1>1, <3>1
      <4> QED BY <1>1, <1>3, <4>1 DEF Event
    <3>3. ASSUME NEW j \in 1..(a + w), log[j].of = c PROVE log[j].kind = "CLIENT_REQUEST_STARTED"
      <4>1. c # Warmup
        BY <1>1, <3>1, LoadFacts
      <4>2. a < j
        <5>1. CASE ~(a < j)
          <6>1. a = 2 /\ j \in 1..2
            BY <1>3, <5>1
          <6>2. log[j] = Opening(j)
            BY <6>1
          <6> QED BY <3>3, <4>1, <6>1, <6>2 DEF Opening, Event
        <5> QED BY <5>1
      <4>3. j - a \in 1..w /\ j = a + (j - a)
        BY <1>1, <1>3, <4>2
      <4>4. log[a + (j - a)] = Event("CLIENT_REQUEST_STARTED", Measured[j - a])
        BY <1>1, <4>3
      <4> QED BY <4>3, <4>4 DEF Event
    <3> QED BY <3>2, <3>3 DEF ActiveAfter
  <2> HIDE DEF first
  <2>3. IsFiniteSet(ActiveAfter(log, a + w))
    <3>1. IsFiniteSet(Range(Measured)) /\ IsFiniteSet({Warmup})
      BY MeasuredFinite, FS_Singleton
    <3> QED BY <1>3, <1>5, <3>1, FS_Subset
  <2>4. w <= Cardinality(ActiveAfter(log, a + w))
    BY <2>1, <2>2, <2>3, FS_Subset
  <2> QED BY <1>3, <1>6, <2>4
<1>8. ObservedConcurrency(log) = w
  <2>1. a + w \in 0..Len(log) /\ \A n : n \in 0..Len(log) <=> n \in 0..l
    BY <1>2, <1>3
  <2> QED BY <1>6, <1>7, <2>1, PeakOf
<1> QED BY <1>1, <1>8

\* The declared log is that of a run whose first requests start together.
LEMMA DeclaredPeak ==
  ASSUME load \in Loads
  PROVE  ObservedConcurrency(DeclaredLog) = Width
<1>1. PICK w \in Nat : w = Width /\ w >= 1 /\ w \in 0..Len(Measured) /\ w <= Concurrency
  BY WidthIs
<1>2. Min({Concurrency, Len(Measured)}) = w
  <2>1. Min({Concurrency, Len(Measured)}) = CHOOSE x \in {Concurrency, Len(Measured)} :
          \A y \in {Concurrency, Len(Measured)} : x <= y
    BY DEF Min
  <2>2. Concurrency \in Nat /\ Len(Measured) \in Nat
    BY WidthIs
  <2>3. w \in {Concurrency, Len(Measured)} /\ \A y \in {Concurrency, Len(Measured)} : w <= y
    BY <1>1, <2>2 DEF Width
  <2> QED BY <2>1, <2>2, <2>3
<1>3. PICK first : first = SubSeq(Measured, 1, w)
  OBVIOUS
<1>4. /\ first \in Seq(Requests) /\ Len(first) = w /\ \A i \in 1..w : first[i] = Measured[i]
      /\ \A i \in 1..w : first[i] \in {Measured[j] : j \in 1..w}
  <2>1. Measured \in Seq(Requests) /\ 0 \in 0..Len(Measured) /\ w \in 0..Len(Measured)
    BY <1>1, LoadFacts
  <2>2. /\ SubSeq(Measured, 0 + 1, w) \in Seq(Requests) /\ Len(SubSeq(Measured, 0 + 1, w)) = w - 0
        /\ \A i \in 1..(w - 0) : SubSeq(Measured, 0 + 1, w)[i] = Measured[0 + i]
    BY <2>1, Slice
  <2> QED BY <1>1, <1>3, <2>2
<1>5. PICK up \in Seq(Lifecycle) : /\ up = [i \in DOMAIN first |-> Event("CLIENT_REQUEST_STARTED", first[i])]
                                   /\ Len(up) = w /\ \A j \in 1..w : up[j] = Event("CLIENT_REQUEST_STARTED", first[j])
  BY <1>4, EventsAre
<1>6. PICK down \in Seq(Lifecycle) : /\ down = [i \in DOMAIN first |-> Event("CLIENT_REQUEST_ENDED", first[i])]
                                     /\ Len(down) = w /\ \A j \in 1..w : down[j] = Event("CLIENT_REQUEST_ENDED", first[j])
  BY <1>4, EventsAre
<1>7. PICK log : log = up \o down
  OBVIOUS
<1>8. DeclaredLog = log
  BY <1>2, <1>3, <1>5, <1>6, <1>7 DEF DeclaredLog
<1>9. /\ log \in Seq(Lifecycle) /\ DOMAIN log = 1..(w + w)
      /\ \A i \in 1..w : log[i] = up[i] /\ log[w + i] = down[i]
      /\ \A i \in DOMAIN log : i \in 1..w \/ \E j \in 1..w : i = w + j
  <2>1. Len(up) = w /\ Len(down) = w
    BY <1>5, <1>6
  <2>2. /\ up \o down \in Seq(Lifecycle) /\ DOMAIN (up \o down) = 1..(Len(up) + Len(down))
        /\ \A i \in 1..Len(up) : (up \o down)[i] = up[i]
        /\ \A j \in 1..Len(down) : (up \o down)[Len(up) + j] = down[j]
        /\ \A i \in DOMAIN (up \o down) : i \in 1..Len(up) \/ \E j \in 1..Len(down) : i = Len(up) + j
    BY LongerLog
  <2> QED BY <1>7, <2>1, <2>2
<1>10. Len(log) = w + w
  BY <1>1, <1>9, LenProperties
<1>11. ASSUME NEW i \in 1..Len(log) PROVE log[i].of \in {Measured[j] : j \in 1..w}
  <2>1. CASE i \in 1..w
    <3>1. log[i] = Event("CLIENT_REQUEST_STARTED", first[i])
      BY <1>5, <1>9, <2>1
    <3>2. log[i].of = first[i]
      BY <3>1 DEF Event
    <3> QED BY <1>4, <2>1, <3>2
  <2>2. CASE \E j \in 1..w : i = w + j
    <3>1. PICK j \in 1..w : i = w + j
      BY <2>2
    <3>2. log[i] = Event("CLIENT_REQUEST_ENDED", first[j])
      BY <1>6, <1>9, <3>1
    <3>3. log[i].of = first[j]
      BY <3>2 DEF Event
    <3> QED BY <1>4, <3>1, <3>3
  <2> QED BY <1>9, <1>10, <2>1, <2>2
<1>12. Bounded(log)
  <2> SUFFICES ASSUME NEW n \in DOMAIN log PROVE Cardinality(ActiveAfter(log, n)) <= Concurrency
    BY DEF Bounded
  <2> DEFINE these == {Measured[j] : j \in 1..w}
  <2>1. IsFiniteSet(these) /\ Cardinality(these) = w
    BY <1>1, FirstOnes
  <2>2. ActiveAfter(log, n) \subseteq these
    <3>1. \A i \in 1..n : i \in 1..Len(log)
      BY <1>1, <1>9, <1>10
    <3> QED BY <1>11, <3>1 DEF ActiveAfter
  <2> HIDE DEF these
  <2>3. Cardinality(ActiveAfter(log, n)) <= w /\ Cardinality(ActiveAfter(log, n)) \in Nat
    BY <2>1, <2>2, FS_Subset, FS_CardinalityType
  <2> QED BY <1>1, <2>3, WidthIs
<1>13. \A i \in 1..Len(log) : 0 < i => log[i].of \in Range(Measured)
  <2>1. \A j \in 1..w : Measured[j] \in Range(Measured)
    BY <1>1, LoadFacts
  <2> QED BY <1>11, <2>1
<1>14. \A i \in 1..Width : log[0 + i] = Event("CLIENT_REQUEST_STARTED", Measured[i])
  <2> TAKE i \in 1..Width
  <2>1. i \in 1..w /\ 0 + i = i
    BY <1>1
  <2>2. log[i] = up[i] /\ up[i] = Event("CLIENT_REQUEST_STARTED", first[i]) /\ first[i] = Measured[i]
    BY <1>4, <1>5, <1>9, <2>1
  <2> QED BY <2>1, <2>2
<1>15. 0 \in {0, 2} /\ 0 + Width <= Len(log)
  BY <1>1, <1>10
<1>16. ObservedConcurrency(log) = Width
  BY <1>9, <1>12, <1>13, <1>14, <1>15, PeakIs
<1> QED BY <1>8, <1>16

\* So is the log of a run that is over.
LEMMA ThisPeak ==
  ASSUME PlaceInv, LifecycleInv, OpeningInv, ~aborting, phase \notin {"warmup", "created"}
  PROVE  ObservedConcurrency(lifecycle) = Width
<1>1. PICK log \in Seq(Lifecycle) : log = lifecycle
  BY DEF PlaceInv, LogInv
<1>2. load \in Loads /\ Ordered(log) /\ Bounded(log)
  BY <1>1 DEF PlaceInv, PlaceOK, LifecycleInv
<1>3. PICK w \in Nat : w = Width
  BY <1>2, WidthIs
<1>4. Opened = 2 + w
  BY <1>3 DEF Opened
<1>5. 2 + w <= Len(log) /\ \A i \in 1..(2 + w) : log[i] = Opening(i)
  BY <1>1, <1>4 DEF OpeningInv
<1>6. \A i \in 1..2 : log[i] = Opening(i)
  BY <1>5
<1>7. \A i \in 1..w : log[2 + i] = Event("CLIENT_REQUEST_STARTED", Measured[i])
  <2> TAKE i \in 1..w
  <2>1. 2 + i \in 1..(2 + w) /\ 2 + i # 1 /\ 2 + i # 2 /\ (2 + i) - 2 = i
    OBVIOUS
  <2>2. log[2 + i] = Opening(2 + i)
    BY <1>5, <2>1
  <2> QED BY <2>1, <2>2 DEF Opening
<1>8. ASSUME NEW i \in 1..Len(log), 2 < i PROVE log[i].of \in Range(Measured)
  <2>1. /\ DOMAIN log = 1..Len(log) /\ i \in DOMAIN log /\ 1 \in DOMAIN log /\ 2 \in DOMAIN log /\ i # 1 /\ i # 2
        /\ log[i] \in Lifecycle /\ Len(log) \in Nat
    BY <1>8, LenProperties, ElementOfSeq
  <2>2. log[i] # log[1] /\ log[i] # log[2]
    BY <1>2, <2>1 DEF Ordered
  <2>3. log[1] = Event("CLIENT_REQUEST_STARTED", Warmup) /\ log[2] = Event("CLIENT_REQUEST_ENDED", Warmup)
    BY <1>6 DEF Opening
  <2>4. /\ log[i].of \in Requests /\ log[i].kind \in {"CLIENT_REQUEST_STARTED", "CLIENT_REQUEST_ENDED"}
        /\ log[i] = Event(log[i].kind, log[i].of)
    BY <2>1 DEF Lifecycle, Event
  <2>5. log[i].of # Warmup
    BY <2>2, <2>3, <2>4
  <2>6. log[i].of \in Planned
    <3>1. Mentioned(log[i].of)
      BY <1>1, <2>1 DEF Mentioned
    <3> QED BY <2>4, <3>1 DEF PlaceInv, LogInv, ClientInv
  <2> QED BY <2>5, <2>6 DEF Planned
<1>9. 2 \in {0, 2} /\ 2 + Width <= Len(log)
  BY <1>3, <1>5
<1>10. ObservedConcurrency(log) = Width
  BY <1>2, <1>3, <1>6, <1>7, <1>8, <1>9, PeakIs
<1> QED BY <1>1, <1>10

-----------------------------------------------------------------------------
(* Only a success that has ended has missed the SLO                         *)

OverdueInv == \A r \in overdue : client[r] = "ended" /\ kind[r] = "NONE"

LEMMA OverdueStep ==
  ASSUME IInv, RetainedInv, OverdueInv, [Next]_vars
  PROVE  OverdueInv'
<1>0. /\ overdue \subseteq Requests /\ client \in [Requests -> States] /\ kind \in [Requests -> Kinds]
      /\ RestOK /\ PlaceInv /\ TableInv
  BY DEF IInv, PlaceInv, PlaceOK, RestOK, RetainedInv
<1>1. ASSUME UNCHANGED <<overdue, kind>>,
             \A r \in Requests : client[r] = "ended" => client'[r] = "ended"
      PROVE  OverdueInv'
  BY <1>0, <1>1 DEF OverdueInv
<1>2. CASE StartWarmup \/ StartTasks \/ Resume
  <2>1. KeepIdle
    BY <1>0, <1>2, WhoStarts
  <2>2. PICK S \in SUBSET Requests : Starting(S)
    BY <1>0, <1>2, WhoStarts
  <2>3. \A r \in Requests : client[r] = "ended" => client'[r] = "ended"
    BY <2>2 DEF Starting, Unstarted
  <2> QED BY <1>1, <2>1, <2>3 DEF KeepIdle
<1>3. CASE Gathered \/ Stopped \/ UNCHANGED vars
  BY <1>1, <1>3 DEF Gathered, Stopped, vars, KeepRun, clientVars
<1>4. CASE Interrupt
  <2> DEFINE awaited == CASE phase = "warmup" -> {Warmup} [] phase = "measured" -> Range(Measured) [] OTHER -> {}
             caught == {r \in awaited : client[r] \in {"sending", "reading", "draining"}}
             lost == {r \in awaited : client[r] \in {"new", "queued", "granted", "closing"}}
  <2>1. /\ client' = [r \in Requests |-> IF r \in caught THEN "closing"
                                         ELSE IF r \in lost THEN "abandoned" ELSE client[r]]
        /\ kind' = [r \in Requests |-> IF r \in caught THEN "CANCELLED" ELSE kind[r]]
        /\ UNCHANGED overdue
    BY <1>4 DEF Interrupt
  <2>2. ASSUME NEW r \in overdue PROVE client'[r] = "ended" /\ kind'[r] = "NONE"
    <3>1. r \in Requests /\ client[r] = "ended" /\ kind[r] = "NONE"
      BY <1>0, <2>2 DEF OverdueInv
    <3>2. r \notin caught /\ r \notin lost
      BY <3>1
    <3> HIDE DEF caught, lost
    <3> QED BY <2>1, <3>1, <3>2
  <2> QED BY <2>1, <2>2 DEF OverdueInv
<1>5. ASSUME NEW r \in Requests, ReadHead(r) \/ ReadChunk(r) \/ ReadEof(r) \/ ReadReset(r) \/ Timeout(r)
      PROVE  OverdueInv'
  <2>1. /\ overdue' = overdue /\ client[r] \in {"sending", "reading"}
        /\ client' = client \/ \E c : client' = [client EXCEPT ![r] = c]
        /\ kind' = kind \/ \E k : kind' = [kind EXCEPT ![r] = k]
    BY <1>5 DEF ReadHead, ReadChunk, ReadEof, ReadReset, Timeout, Decide, KeepAround
  <2>2. ASSUME NEW c \in overdue PROVE client'[c] = "ended" /\ kind'[c] = "NONE"
    <3>1. c \in Requests /\ c # r /\ client[c] = "ended" /\ kind[c] = "NONE"
      BY <1>0, <2>1, <2>2 DEF OverdueInv
    <3> QED BY <1>0, <2>1, <3>1
  <2> QED BY <2>1, <2>2 DEF OverdueInv
<1>6. ASSUME NEW r \in Requests, Close(r) PROVE OverdueInv'
  <2>1. /\ client'[r] = "ended" /\ kind' = kind
        /\ \A c \in Requests \ {r} : client[c] = "ended" => client'[c] = "ended"
    BY <1>0, <1>6, CloseMoves DEF Close, Unstarted
  <2>2. overdue' = overdue \/ (kind[r] = "NONE" /\ overdue' = overdue \cup {r})
    BY <1>6 DEF Close
  <2>3. \A c \in overdue : c \in Requests /\ client'[c] = "ended" /\ kind[c] = "NONE"
    BY <1>0, <2>1 DEF OverdueInv
  <2> QED BY <2>1, <2>2, <2>3 DEF OverdueInv
<1>7. ASSUME NEW r \in Requests, Server(r) PROVE OverdueInv'
  BY <1>1, <1>7
    DEF Server, Accept, Act, StallEnds, Disconnected, CancelHandler, KeepClient, KeepRun, clientVars
<1> QED BY <1>2, <1>3, <1>4, <1>5, <1>6, <1>7 DEF Next, Runner, Client

-----------------------------------------------------------------------------
(* What a run comes to                                                      *)

\* While nothing upsets a run, at every await: each client has read the beginning of what the
\* script of its request makes it read, and its handler is at the action that comes next
\* (execute_streaming_request, _execute_case), so a request that has ended has ended as its script
\* has it; and the lifecycle log begins with the warmup and then with as many measured requests as
\* may run together (execute_closed_loop_load).
THEOREM CalmRun == Spec => [](CourseInv /\ OpeningInv)
<1>1. Init => CourseInv /\ OpeningInv
  BY CourseInit, OpeningInit
<1>2. IInv /\ RetainedInv /\ (CourseInv /\ OpeningInv) /\ [Next]_vars => (CourseInv /\ OpeningInv)'
  BY CourseStep, OpeningStep
<1> QED BY <1>1, <1>2, Invariant, Retention, PTL DEF Spec

\* compare_validated_bundles of an undisturbed run and what its load declares is decided by the
\* SLO verdicts alone: whatever the interleaving, a run comes to the records and to the concurrency
\* that its scripts declare, and passes exactly if none of its successes was overdue.
THEOREM Reproduces == Spec => []ComparesEqual
<1> SUFFICES ASSUME IInv, RetainedInv, CourseInv, OpeningInv, OverdueInv, Over, Calm
             PROVE  ComparesAsDeclared <=> overdue = {}
  <2>1. IInv /\ RetainedInv /\ (CourseInv /\ OpeningInv) /\ OverdueInv => ComparesEqual
    BY DEF ComparesEqual
  <2>2. Init => OverdueInv
    BY DEF Init, OverdueInv
  <2>3. IInv /\ RetainedInv /\ OverdueInv /\ [Next]_vars => OverdueInv'
    BY OverdueStep
  <2> QED BY <2>1, <2>2, <2>3, Invariant, Retention, CalmRun, PTL DEF Spec
<1>1. /\ load \in Loads /\ ~aborting /\ phase \notin {"warmup", "created"}
      /\ \A r \in Planned : client[r] = "ended"
  BY DEF IInv, PlaceInv, PlaceOK, RetainedInv, StopInv, Over
<1>2. ASSUME NEW r \in Planned PROVE RequestRecord(kind[r], deltas[r], evidence[r]) = DeclaredRecord(r)
  <2>1. r \in Requests /\ client[r] = "ended"
    BY <1>1, LoadFacts
  <2>2. Course(r)
    BY <2>1 DEF CourseInv, Calm
  <2> QED BY <2>1, <2>2 DEF Course, Runs
<1>3. PICK records : records = [r \in Planned |-> DeclaredRecord(r)]
  OBVIOUS
<1>4. [r \in Planned |-> RequestRecord(kind[r], deltas[r], evidence[r])] = records
  BY <1>2, <1>3
<1>5. /\ ThisRun.records = records /\ DeclaredRun.records = records
      /\ ThisRun.log = lifecycle /\ DeclaredRun.log = DeclaredLog
  BY <1>3, <1>4 DEF ThisRun, DeclaredRun
<1>6. ObservedConcurrency(lifecycle) = Width /\ ObservedConcurrency(DeclaredLog) = Width
  BY <1>1, ThisPeak, DeclaredPeak DEF IInv, RetainedInv
<1>7. Fingerprint(ThisRun) = Fingerprint(DeclaredRun) <=> ThisRun.slo = DeclaredRun.slo
  BY <1>5, <1>6 DEF Fingerprint
<1>8. \A class : /\ CountOf(ThisRun, Range(Measured), class) = CountOf(DeclaredRun, Range(Measured), class)
                 /\ CountOf(DeclaredRun, Range(Measured), class) \in Nat
  <2> TAKE class
  <2>1. CountOf(ThisRun, Range(Measured), class) = CountOf(DeclaredRun, Range(Measured), class)
    BY <1>5 DEF CountOf
  <2>2. {r \in Range(Measured) : TerminalClass(DeclaredRun.records[r].kind) = class} \in SUBSET Range(Measured)
    OBVIOUS
  <2>3. CountOf(DeclaredRun, Range(Measured), class) \in Nat
    BY <1>1, <2>2, MeasuredFinite DEF CountOf
  <2> QED BY <2>1, <2>3
<1>9. \A n \in Nat : n <= n
  OBVIOUS
<1>10. /\ CountOf(ThisRun, Range(Measured), "SUCCESS") = CountOf(DeclaredRun, Range(Measured), "SUCCESS")
       /\ CountOf(DeclaredRun, Range(Measured), "FAILED") <= CountOf(ThisRun, Range(Measured), "FAILED")
       /\ CountOf(DeclaredRun, Range(Measured), "TIMEOUT") <= CountOf(ThisRun, Range(Measured), "TIMEOUT")
  BY <1>8, <1>9
<1>11. \A r \in DOMAIN ThisRun.records : ThisRun.records[r].kind = DeclaredRun.records[r].kind
  BY <1>5
<1>12. \A r \in Planned : DeclaredRecord(r).kind = kind[r]
  BY <1>2 DEF RequestRecord
<1>13. overdue \subseteq {r \in Planned : kind[r] = "NONE"}
  <2>1. ASSUME NEW r \in overdue PROVE r \in Planned /\ kind[r] = "NONE"
    <3>1. r \in Requests /\ client[r] = "ended" /\ kind[r] = "NONE"
      BY DEF OverdueInv, IInv, RestOK
    <3>2. r \in Planned
      BY <3>1 DEF IInv, PlaceInv, ClientInv
    <3> QED BY <3>1, <3>2
  <2> QED BY <2>1
<1>14. ThisRun.slo = DeclaredRun.slo <=> overdue = {}
  <2>1. /\ ThisRun.slo = {r \in Planned : kind[r] = "NONE" /\ r \notin overdue}
        /\ DeclaredRun.slo = {r \in Planned : DeclaredRecord(r).kind = "NONE"}
    BY DEF ThisRun, DeclaredRun
  <2> QED BY <1>12, <1>13, <2>1
<1> QED BY <1>7, <1>10, <1>11, <1>14 DEF ComparesAsDeclared, PolicyPassed
=============================================================================
