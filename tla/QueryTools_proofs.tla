--------------------------- MODULE QueryTools_proofs ---------------------------
(***************************************************************************)
(* What a preview of a deletion adds up to, for every cluster, every       *)
(* change of it and every list of names: PreviewInv is inductive.  What a  *)
(* tool of one read tells: ReadingInv, of what every tool has read, is     *)
(* inductive, and the one read asks for what the tool is to find.  What a  *)
(* tracing tool tells: TraceKept says why each of its reads was made, and  *)
(* what a chain of reads joins was in the cluster at one time.             *)
(***************************************************************************)
EXTENDS QueryTools, FiniteSetTheorems, SequenceTheorems, WellFoundedInduction, TLAPS

-----------------------------------------------------------------------------
\* The operators.

LEMMA LevelsAre ==
  /\ Levels = {"low", "medium", "high", "critical"}
  /\ "low" \in Levels
<1>1. \A i \in 1 .. 4 : i = 1 \/ i = 2 \/ i = 3 \/ i = 4
  OBVIOUS
<1>2. /\ RiskLevels[1] = "low" /\ RiskLevels[2] = "medium"
      /\ RiskLevels[3] = "high" /\ RiskLevels[4] = "critical"
  BY DEF RiskLevels
<1>3. 1 \in 1 .. 4 /\ 2 \in 1 .. 4 /\ 3 \in 1 .. 4 /\ 4 \in 1 .. 4
  OBVIOUS
<1> QED
  BY <1>1, <1>2, <1>3, Zenon DEF Levels

\* A risk level has a rank, and compareRiskLevel is the difference of two.
LEMMA LevelsHaveRanks ==
  \E rank \in [Levels -> 1 .. 4] :
    \A a, b \in Levels : compareRiskLevel(a, b) = rank[a] - rank[b]
<1> DEFINE rank == [a \in Levels |-> CHOOSE i \in 1 .. 4 : RiskLevels[i] = a]
<1>1. ASSUME NEW a \in Levels
      PROVE  (CHOOSE i \in 1 .. 4 : RiskLevels[i] = a) \in 1 .. 4
  <2>1. PICK i \in 1 .. 4 : RiskLevels[i] = a
    BY DEF Levels
  <2> QED
    BY <2>1
<1>2. rank \in [Levels -> 1 .. 4]
  BY <1>1
<1>3. \A a, b \in Levels : compareRiskLevel(a, b) = rank[a] - rank[b]
  BY DEF compareRiskLevel
<1> QED
  BY <1>2, <1>3, Zenon

\* Higher gives one of the two, and neither is above it.
LEMMA HigherIsHighest ==
  ASSUME NEW old \in Levels, NEW new \in Levels
  PROVE  /\ Higher(old, new) \in {old, new}
         /\ compareRiskLevel(Higher(old, new), new) >= 0
         /\ \A a \in Levels : compareRiskLevel(old, a) >= 0
              => compareRiskLevel(Higher(old, new), a) >= 0
<1>1. PICK rank \in [Levels -> 1 .. 4] :
        \A a, b \in Levels : compareRiskLevel(a, b) = rank[a] - rank[b]
  BY LevelsHaveRanks
<1>2. \A a \in Levels : rank[a] \in Int
  OBVIOUS
<1>3. CASE compareRiskLevel(new, old) > 0
  BY <1>1, <1>2, <1>3 DEF Higher
<1>4. CASE ~(compareRiskLevel(new, old) > 0)
  BY <1>1, <1>2, <1>4 DEF Higher
<1> QED
  BY <1>3, <1>4

\* Whatever kind is previewed, and whether or not it could be read.
LEMMA RiskIsALevel ==
  ASSUME NEW q, NEW g, NEW i
  PROVE  RiskLevel(q, g, i) \in Levels
<1>1. CASE q.kind \notin PreviewedKinds
  BY <1>1, LevelsAre DEF RiskLevel
<1>2. CASE q.kind \in PreviewedKinds
  BY <1>2, LevelsAre DEF RiskLevel, PreviewedKinds
<1> QED
  BY <1>1, <1>2

\* The groups of impacts are of four types at most.
LEMMA ImpactsAreFinite ==
  ASSUME NEW q, NEW g, NEW i
  PROVE  Cardinality(Impacts(q, g, i)) \in Nat
<1> DEFINE names(kind) == HangingNames(q, g, i, kind)
           active == ActiveAddresses(q, g, i)
           groups == {<<"Pod", names("Pod")>>, <<"ReplicaSet", names("ReplicaSet")>>,
                      <<"Ingress", names("Ingress")>>, <<"Endpoint", active>>}
<1>1. \A t, m : ImpactGroup(t, m) \subseteq {<<t, m>>}
  BY DEF ImpactGroup
<1>2. ASSUME NEW x \in Impacts(q, g, i)
      PROVE  x \in groups
  <2>1. \/ \E k \in {"Pod", "ReplicaSet", "Ingress"} : x \in ImpactGroup(k, names(k))
        \/ x \in ImpactGroup("Endpoint", active)
    BY DEF Impacts
  <2>2. \/ \E k \in {"Pod", "ReplicaSet", "Ingress"} : x = <<k, names(k)>>
        \/ x = <<"Endpoint", active>>
    BY <1>1, <2>1
  <2> QED
    BY <2>2, Zenon
<1>3. IsFiniteSet(groups)
  <2> DEFINE a == <<"Pod", names("Pod")>>
             b == <<"ReplicaSet", names("ReplicaSet")>>
             c == <<"Ingress", names("Ingress")>>
             d == <<"Endpoint", active>>
  <2> HIDE DEF a, b, c, d
  <2>1. IsFiniteSet({} \cup {a})
    BY FS_EmptySet, FS_AddElement
  <2>2. IsFiniteSet(({} \cup {a}) \cup {b})
    BY <2>1, FS_AddElement
  <2>3. IsFiniteSet((({} \cup {a}) \cup {b}) \cup {c})
    BY <2>2, FS_AddElement
  <2>4. IsFiniteSet(((({} \cup {a}) \cup {b}) \cup {c}) \cup {d})
    BY <2>3, FS_AddElement
  <2>5. (((({} \cup {a}) \cup {b}) \cup {c}) \cup {d}) = {a, b, c, d}
    OBVIOUS
  <2> QED
    BY <2>4, <2>5, Zenon DEF a, b, c, d, groups
<1>4. IsFiniteSet(Impacts(q, g, i))
  BY <1>2, <1>3, FS_Subset
<1> QED
  BY <1>4, FS_CardinalityType

-----------------------------------------------------------------------------
\* What is booked after a sequence of results.

LEMMA Appended ==
  ASSUME NEW s, NEW e, s \in Seq(Range(s))
  PROVE  /\ Len(s) \in Nat
         /\ DOMAIN s = 1 .. Len(s)
         /\ Append(s, e) \in Seq(Range(Append(s, e)))
         /\ Len(Append(s, e)) = Len(s) + 1
         /\ DOMAIN Append(s, e) = 1 .. (Len(s) + 1)
         /\ \A k \in 1 .. Len(s) : Append(s, e)[k] = s[k]
         /\ Append(s, e)[Len(s) + 1] = e
<1> DEFINE S == Range(s) \cup {e}
           t == Append(s, e)
<1>1. /\ Len(s) \in Nat
      /\ DOMAIN s = 1 .. Len(s)
      /\ s \in [1 .. Len(s) -> Range(s)]
  BY LenProperties, Zenon
<1>2. s \in Seq(S)
  <2>1. s \in [1 .. Len(s) -> S]
    BY <1>1
  <2> QED
    BY <1>1, <2>1, SeqDef
<1>3. e \in S
  OBVIOUS
<1> HIDE DEF S
<1>4. /\ t \in Seq(S)
      /\ Len(t) = Len(s) + 1
      /\ \A k \in 1 .. Len(s) : t[k] = s[k]
      /\ t[Len(s) + 1] = e
  BY <1>2, <1>3, AppendProperties
<1>5. t \in [1 .. Len(t) -> S] /\ DOMAIN t = 1 .. Len(t) /\ Len(t) \in Nat
  BY <1>4, LenProperties, Zenon
<1> HIDE DEF t
<1>6. t \in [1 .. Len(t) -> Range(t)]
  BY <1>5 DEF Range
<1>7. t \in Seq(Range(t))
  BY <1>5, <1>6, SeqDef
<1> QED
  BY <1>1, <1>4, <1>5, <1>7 DEF t

\* The total grows by the impacts of what is appended.
LEMMA AppendedAddsUp ==
  ASSUME NEW s, NEW e, s \in Seq(Range(s)),
         NEW total \in Nat, AddsUp(total, s), Cardinality(e.impacted) \in Nat
  PROVE  AddsUp(total + Cardinality(e.impacted), Append(s, e))
<1> DEFINE t == Append(s, e)
           sum == total + Cardinality(e.impacted)
<1>1. /\ Len(s) \in Nat
      /\ Len(t) = Len(s) + 1
      /\ \A k \in 1 .. Len(s) : t[k] = s[k]
      /\ t[Len(s) + 1] = e
  BY Appended
<1>2. PICK running \in [0 .. Len(s) -> 0 .. total] :
        /\ running[0] = 0
        /\ \A k \in 1 .. Len(s) : running[k] = running[k - 1] + Cardinality(s[k].impacted)
        /\ running[Len(s)] = total
  BY DEF AddsUp
<1> HIDE DEF t
<1> DEFINE further == [k \in 0 .. Len(t) |-> IF k = Len(t) THEN sum ELSE running[k]]
<1>3. sum \in Nat /\ total <= sum
  OBVIOUS
<1>4. further \in [0 .. Len(t) -> 0 .. sum]
  <2>1. ASSUME NEW k \in 0 .. Len(t), k # Len(t)
        PROVE  running[k] \in 0 .. sum
    <3>1. k \in 0 .. Len(s)
      BY <1>1, <2>1
    <3>2. running[k] \in 0 .. total
      BY <3>1
    <3> QED
      BY <1>3, <3>2
  <2> QED
    BY <1>3, <2>1
<1>5. further[0] = 0 /\ further[Len(t)] = sum
  BY <1>1, <1>2
<1>6. ASSUME NEW k \in 1 .. Len(t)
      PROVE  further[k] = further[k - 1] + Cardinality(t[k].impacted)
  <2>1. CASE k = Len(t)
    <3>1. k - 1 = Len(s) /\ t[k] = e
      BY <1>1, <2>1
    <3>2. further[k] = sum
      BY <1>5, <2>1
    <3>3. further[k - 1] = running[k - 1]
      BY <1>1, <2>1
    <3>4. further[k - 1] = total
      BY <1>2, <3>1, <3>3
    <3> QED
      BY <3>1, <3>2, <3>4 DEF sum
  <2>2. CASE k # Len(t)
    <3>1. k \in 1 .. Len(s) /\ k - 1 \in 0 .. Len(t) /\ k - 1 # Len(t)
      BY <1>1, <2>2
    <3>2. further[k] = running[k] /\ further[k - 1] = running[k - 1]
      BY <2>2, <3>1
    <3>3. t[k] = s[k]
      BY <1>1, <3>1
    <3>4. running[k] = running[k - 1] + Cardinality(s[k].impacted)
      BY <1>2, <3>1
    <3> QED
      BY <3>2, <3>3, <3>4
  <2> QED
    BY <2>1, <2>2
<1> HIDE DEF further, sum
<1>7. AddsUp(sum, t)
  BY <1>4, <1>5, <1>6 DEF AddsUp
<1> QED
  BY <1>7 DEF sum, t

\* A bijection that takes the members of P, and them only, to those of Q.
LEMMA SameNumberOfEach ==
  ASSUME NEW S, NEW T, NEW by \in [S -> T], IsInjective(by), Range(by) = T,
         NEW P \in SUBSET S, NEW Q \in SUBSET T, IsFiniteSet(S),
         \A k \in S : k \in P <=> by[k] \in Q
  PROVE  Cardinality(P) = Cardinality(Q)
<1> DEFINE f == [i \in P |-> by[i]]
<1>1. IsFiniteSet(P)
  BY FS_Subset
<1>2. f \in [P -> Q]
  OBVIOUS
<1>3. IsInjective(f)
  BY DEF IsInjective
<1>4. ASSUME NEW j \in Q
      PROVE  \E i \in P : f[i] = j
  <2>1. PICK i \in S : by[i] = j
    BY DEF Range
  <2> QED
    BY <2>1
<1>5. f \in Bijection(P, Q)
  BY <1>2, <1>3, <1>4 DEF Bijection, Injection, Surjection
<1> QED
  BY <1>1, <1>5, FS_Bijection DEF ExistsBijection

-----------------------------------------------------------------------------
\* The names of a preview.

\* No list was read, and there are no names.
LEMMA UnlistedHasNoNames ==
  ASSUME NEW q, NEW g, q.names = <<>>, NamesList(q) \notin DOMAIN g
  PROVE  DOMAIN PreviewNames(q, g) = {}
<1>1. Items(g, NamesList(q)) = {}
  BY Zenon DEF Items
<1>2. PreviewNames(q, g) = SetToSeq({})
  <2>1. {o.name : o \in Items(g, NamesList(q))} = {}
    BY <1>1
  <2> QED
    BY <2>1, Zenon DEF PreviewNames
<1>3. Cardinality({}) = 0
  BY FS_EmptySet
<1>4. \E f \in [1 .. 0 -> {}] : IsInjective(f)
  <2>1. <<>> \in [1 .. 0 -> {}]
    OBVIOUS
  <2>2. IsInjective(<<>>)
    BY DEF IsInjective
  <2> QED
    BY <2>1, <2>2, Zenon
<1>5. SetToSeq({}) \in [1 .. 0 -> {}]
  BY <1>3, <1>4 DEF SetToSeq
<1> QED
  BY <1>2, <1>5

\* A goroutine makes three reads at most.
LEMMA AnalysisIsShort ==
  ASSUME NEW q, NEW g, NEW i
  PROVE  DOMAIN Analysis(q, g, i) \subseteq 1 .. 3
<1>1. CASE q.kind \notin PreviewedKinds
  BY <1>1 DEF Analysis
<1>2. CASE q.kind \in PreviewedKinds /\ Items(g, Resource(q, g, i)) = {}
  BY <1>2 DEF Analysis
<1>3. CASE q.kind \in PreviewedKinds /\ Items(g, Resource(q, g, i)) # {}
  BY <1>3 DEF Analysis, PreviewedKinds
<1> QED
  BY <1>1, <1>2, <1>3

\* Of a preview, only what was not read is read next.
LEMMA NextReadsAreUnread ==
  ASSUME IsPreview, NEW r \in NextReads
  PROVE  r \notin DOMAIN got
<1>1. Scripts = PreviewScripts(req, got)
  <2>1. /\ req.tool \notin ResourceTools /\ req.tool \notin TracingTools
        /\ req.tool \notin InspectionTools
    BY DEF IsPreview, ResourceTools, TracingTools, NodePortTools, HostTools, InspectionTools
  <2> QED
    BY <2>1 DEF Scripts
<1>2. PICK s \in Scripts : Unread(s) # {} /\ r = s[Min(Unread(s))]
  BY DEF NextReads
<1>3. DOMAIN s \subseteq 1 .. 3
  BY <1>1, <1>2, AnalysisIsShort DEF PreviewScripts
<1>4. Unread(s) \subseteq {1, 2, 3}
  BY <1>3 DEF Unread
<1>5. \E x \in Unread(s) : \A y \in Unread(s) : x =< y
  BY <1>2, <1>4
<1>6. Min(Unread(s)) \in Unread(s)
  BY <1>5, Zenon DEF Min
<1> QED
  BY <1>2, <1>6 DEF Unread

\* Once a goroutine has booked, no read changes the names.
LEMMA ReadKeepsNames ==
  ASSUME IsPreview, BookedKept, booked # {}, NEW r \in NextReads, Read(r)
  PROVE  /\ PreviewNames(req, got)' = PreviewNames(req, got)
         /\ (req.names = <<>>)' => NamesList(req)' \in DOMAIN got'
<1>1. scene' = scene /\ DOMAIN got' = DOMAIN got \cup {r}
      /\ \A x \in DOMAIN got : x # r => got'[x] = got[x]
  BY DEF Read
<1>2. CASE req.names # <<>>
  BY <1>1, <1>2 DEF PreviewNames, req
<1>3. CASE req.names = <<>>
  <2>1. NamesList(req) \in DOMAIN got /\ NamesList(req) # r
    BY <1>3, NextReadsAreUnread DEF BookedKept
  <2>2. NamesList(req) \in DOMAIN got' /\ got'[NamesList(req)] = got[NamesList(req)]
    BY <1>1, <2>1
  <2>3. Items(got', NamesList(req)) = Items(got, NamesList(req))
    BY <2>1, <2>2 DEF Items
  <2>4. NamesList(req)' = NamesList(req) /\ req' = req
    BY <1>1 DEF NamesList, Request, Defaulted, req
  <2> QED
    BY <1>3, <2>2, <2>3, <2>4 DEF PreviewNames
<1> QED
  BY <1>2, <1>3

-----------------------------------------------------------------------------
\* PreviewInv is inductive.

LEMMA PreviewStarts == Init => PreviewInv
<1> SUFFICES ASSUME Init PROVE PreviewInv
  OBVIOUS
<1> USE DEF Init
<1>1. /\ preview.resources = <<>>
      /\ preview.totalImpactCount = 0
      /\ preview.maxRiskLevel = "low"
      /\ booked = {}
  OBVIOUS
<1>2. DOMAIN preview.resources = {} /\ Len(preview.resources) = 0
  BY <1>1
<1>3. ResultKept
  <2>1. preview.resources \in Seq(Range(preview.resources))
    BY <1>1
  <2> QED
    BY <1>1, <2>1 DEF ResultKept
<1>4. NamesKept
  <2> DEFINE by == [k \in DOMAIN preview.resources |-> k]
  <2>1. by \in [DOMAIN preview.resources -> booked] /\ DOMAIN by = {}
    BY <1>2
  <2>2. IsInjective(by) /\ Range(by) = booked
    BY <1>1, <2>1 DEF IsInjective, Range
  <2> HIDE DEF by
  <2> QED
    BY <2>1, <2>2 DEF NamesKept
<1>5. BookedKept
  BY <1>1 DEF BookedKept
<1>6. TotalKept
  <2> DEFINE running == [k \in {0} |-> 0]
  <2>1. running \in [0 .. 0 -> 0 .. 0] /\ running[0] = 0
    OBVIOUS
  <2>2. 1 .. 0 = {}
    OBVIOUS
  <2> HIDE DEF running
  <2> QED
    BY <1>1, <1>2, <2>1, <2>2 DEF TotalKept, AddsUp
<1>7. RiskKept
  BY <1>1, <1>2, LevelsAre DEF RiskKept
<1>8. AllBooked
  BY DEF AllBooked, Answered
<1> QED
  BY <1>3, <1>4, <1>5, <1>6, <1>7, <1>8 DEF PreviewInv

\* A step that neither reads nor books.
LEMMA OthersKeepPreview ==
  ASSUME PreviewInv, UNCHANGED <<scene, got, booked, preview>>, AllBooked'
  PROVE  PreviewInv'
<1>1. req' = req /\ IsPreview' = IsPreview /\ Goroutines' = Goroutines
  BY DEF req, IsPreview, Goroutines
<1>2. PreviewNames(req, got)' = PreviewNames(req, got) /\ NamesList(req)' = NamesList(req)
  BY <1>1
<1> QED
  BY <1>1, <1>2 DEF PreviewInv, ResultKept, NamesKept, BookedKept, TotalKept, RiskKept

LEMMA ReadKeepsPreview ==
  ASSUME PreviewInv, NEW r \in NextReads, Read(r)
  PROVE  PreviewInv'
<1>1. UNCHANGED <<scene, booked, preview>> /\ at = "reading"
  BY DEF Read
<1>2. ResultKept' /\ TotalKept' /\ RiskKept'
  BY <1>1 DEF PreviewInv, ResultKept, TotalKept, RiskKept
<1>3. ASSUME booked = {} PROVE NamesKept' /\ BookedKept'
  <2>1. NamesKept'
    BY <1>1, <1>3 DEF PreviewInv, NamesKept
  <2>2. BookedKept'
    BY <1>1, <1>3 DEF BookedKept
  <2> QED
    BY <2>1, <2>2
<1>4. ASSUME booked # {} PROVE NamesKept' /\ BookedKept'
  <2>1. IsPreview /\ IsPreview' /\ req' = req
    BY <1>1, <1>4 DEF PreviewInv, BookedKept, Goroutines, IsPreview, req
  <2>2. /\ PreviewNames(req, got)' = PreviewNames(req, got)
        /\ (req.names = <<>>)' => NamesList(req)' \in DOMAIN got'
    BY <1>4, <2>1, ReadKeepsNames DEF PreviewInv
  <2>3. NamesKept'
    BY <1>1, <2>2 DEF PreviewInv, NamesKept
  <2>4. BookedKept'
    BY <1>1, <2>1, <2>2 DEF PreviewInv, BookedKept, Goroutines
  <2> QED
    BY <2>3, <2>4
<1>5. AllBooked'
  BY <1>1 DEF AllBooked, Answered, Read, Return, Failure
<1> QED
  BY <1>2, <1>3, <1>4, <1>5 DEF PreviewInv

LEMMA BookKeepsPreview ==
  ASSUME PreviewInv, NEW i \in Goroutines, Book(i)
  PROVE  PreviewInv'
<1> DEFINE all == preview.resources
           risk == RiskLevel(req, got, i)
           count == Cardinality(Impacts(req, got, i))
           entry == [name |-> PreviewNames(req, got)[i], riskLevel |-> risk,
                     impacted |-> Impacts(req, got, i)]
           booking == [resources |-> Append(all, entry),
                       totalImpactCount |-> preview.totalImpactCount + count,
                       maxRiskLevel |-> Higher(preview.maxRiskLevel, risk)]
<1>1. /\ at = "reading" /\ i \notin booked
      /\ preview' = booking
      /\ booked' = booked \cup {i}
      /\ UNCHANGED <<scene, at, got, answer>>
  BY DEF Book
<1>2. /\ req' = req /\ Goroutines' = Goroutines /\ NamesList(req)' = NamesList(req)
      /\ PreviewNames(req, got)' = PreviewNames(req, got)
  BY <1>1 DEF req, IsPreview, Goroutines, PreviewNames, NamesList, Request, Defaulted, Items
<1>3. all \in Seq(Range(all))
  BY DEF PreviewInv, ResultKept
<1>4. /\ entry.name = PreviewNames(req, got)[i]
      /\ entry.riskLevel = risk
      /\ Cardinality(entry.impacted) = count
  OBVIOUS
<1> HIDE DEF entry
<1>5. /\ preview.resources' = Append(all, entry)
      /\ preview.totalImpactCount' = preview.totalImpactCount + count
      /\ preview.maxRiskLevel' = Higher(preview.maxRiskLevel, risk)
  BY <1>1
<1>6. /\ Len(all) \in Nat
      /\ DOMAIN all = 1 .. Len(all)
      /\ Append(all, entry) \in Seq(Range(Append(all, entry)))
      /\ DOMAIN Append(all, entry) = 1 .. (Len(all) + 1)
      /\ \A k \in 1 .. Len(all) : Append(all, entry)[k] = all[k]
      /\ Append(all, entry)[Len(all) + 1] = entry
  BY <1>3, Appended
<1>7. ResultKept'
  BY <1>1, <1>5, <1>6 DEF ResultKept
<1>8. NamesKept'
  <2> DEFINE n == Len(all) + 1
  <2>1. PICK by \in [DOMAIN all -> booked] :
          /\ IsInjective(by)
          /\ Range(by) = booked
          /\ \A k \in DOMAIN by : all[k].name = PreviewNames(req, got)[by[k]]
    BY DEF PreviewInv, NamesKept
  <2> DEFINE next == [k \in 1 .. n |-> IF k = n THEN i ELSE by[k]]
  <2>2. \A k \in 1 .. n : k # n => k \in DOMAIN all /\ k \in 1 .. Len(all)
    BY <1>6
  <2>3. \A k \in DOMAIN all : k \in 1 .. n /\ k # n
    BY <1>6
  <2>4. n \in 1 .. n
    BY <1>6
  <2> HIDE DEF n
  <2>5. next \in [1 .. n -> booked']
    BY <1>1, <2>2
  <2>6. IsInjective(next)
    <3>1. ASSUME NEW a \in 1 .. n, NEW b \in 1 .. n, next[a] = next[b]
          PROVE  a = b
      <4>1. CASE a = n \/ b = n
        BY <1>1, <2>1, <2>2, <3>1, <4>1
      <4>2. CASE a # n /\ b # n
        BY <2>1, <2>2, <3>1, <4>2 DEF IsInjective
      <4> QED
        BY <4>1, <4>2
    <3> QED
      BY <3>1 DEF IsInjective
  <2>7. Range(next) = booked'
    <3>1. ASSUME NEW j \in booked'
          PROVE  \E k \in 1 .. n : next[k] = j
      <4>1. CASE j = i
        BY <2>4, <4>1
      <4>2. CASE j # i
        <5>1. PICK k \in DOMAIN all : by[k] = j
          BY <1>1, <2>1, <4>2 DEF Range
        <5> QED
          BY <2>3, <5>1
      <4> QED
        BY <4>1, <4>2
    <3> QED
      BY <2>5, <3>1 DEF Range
  <2>8. ASSUME NEW k \in 1 .. n
        PROVE  Append(all, entry)[k].name = PreviewNames(req, got)[next[k]]
    <3>1. CASE k = n
      BY <1>4, <1>6, <3>1 DEF n
    <3>2. CASE k # n
      BY <1>6, <2>1, <2>2, <3>2
    <3> QED
      BY <3>1, <3>2
  <2>9. DOMAIN next = 1 .. n /\ DOMAIN Append(all, entry) = 1 .. n
    BY <1>6 DEF n
  <2> HIDE DEF next
  <2> QED
    BY <1>2, <1>5, <2>5, <2>6, <2>7, <2>8, <2>9 DEF NamesKept
<1>9. BookedKept'
  <2>1. ASSUME req.names = <<>> PROVE NamesList(req) \in DOMAIN got
    BY <2>1, UnlistedHasNoNames DEF Goroutines
  <2> QED
    BY <1>1, <1>2, <2>1 DEF PreviewInv, BookedKept
<1>10. TotalKept'
  <2>1. count \in Nat
    BY ImpactsAreFinite
  <2>2. preview.totalImpactCount \in Nat /\ AddsUp(preview.totalImpactCount, all)
    BY DEF PreviewInv, TotalKept
  <2>3. AddsUp(preview.totalImpactCount + count, Append(all, entry))
    BY <1>3, <1>4, <2>1, <2>2, AppendedAddsUp
  <2> HIDE DEF count
  <2> QED
    BY <1>5, <2>1, <2>2, <2>3 DEF TotalKept
<1>11. RiskKept'
  <2>1. risk \in Levels
    BY RiskIsALevel
  <2>2. /\ preview.maxRiskLevel \in Levels
        /\ \A k \in DOMAIN all :
             /\ all[k].riskLevel \in Levels
             /\ compareRiskLevel(preview.maxRiskLevel, all[k].riskLevel) >= 0
        /\ preview.maxRiskLevel \in {"low"} \cup {all[k].riskLevel : k \in DOMAIN all}
    BY Zenon DEF PreviewInv, RiskKept
  <2> DEFINE max == Higher(preview.maxRiskLevel, risk)
  <2>3. /\ max \in {preview.maxRiskLevel, risk}
        /\ compareRiskLevel(max, risk) >= 0
        /\ \A a \in Levels : compareRiskLevel(preview.maxRiskLevel, a) >= 0
             => compareRiskLevel(max, a) >= 0
    BY <2>1, <2>2, HigherIsHighest
  <2> HIDE DEF max, risk
  <2>4. ASSUME NEW k \in 1 .. (Len(all) + 1)
        PROVE  /\ Append(all, entry)[k].riskLevel \in Levels
               /\ compareRiskLevel(max, Append(all, entry)[k].riskLevel) >= 0
    <3>1. CASE k = Len(all) + 1
      BY <1>4, <1>6, <2>1, <2>3, <3>1
    <3>2. CASE k # Len(all) + 1
      <4>1. k \in 1 .. Len(all) /\ k \in DOMAIN all
        BY <1>6, <3>2
      <4> QED
        BY <1>6, <2>2, <2>3, <4>1
    <3> QED
      BY <3>1, <3>2
  <2>5. max \in {"low"} \cup {Append(all, entry)[k].riskLevel : k \in 1 .. (Len(all) + 1)}
    <3>1. CASE max = risk
      <4>1. Len(all) + 1 \in 1 .. (Len(all) + 1)
        BY <1>6
      <4> QED
        BY <1>4, <1>6, <3>1, <4>1
    <3>2. CASE max = preview.maxRiskLevel /\ max # "low"
      <4>1. PICK k \in DOMAIN all : max = all[k].riskLevel
        BY <2>2, <3>2
      <4>2. k \in 1 .. Len(all) /\ k \in 1 .. (Len(all) + 1)
        BY <1>6
      <4> QED
        BY <1>6, <4>1, <4>2
    <3>3. CASE max = "low"
      BY <3>3
    <3> QED
      BY <2>3, <3>1, <3>2, <3>3
  <2>6. max \in Levels
    BY <2>1, <2>2, <2>3
  <2>7. preview.maxRiskLevel' = max /\ preview.resources' = Append(all, entry)
    BY <1>5 DEF max
  <2> QED
    BY <1>6, <2>4, <2>5, <2>6, <2>7 DEF RiskKept, Levels
<1>12. AllBooked'
  BY <1>1 DEF AllBooked, Answered
<1> QED
  BY <1>7, <1>8, <1>9, <1>10, <1>11, <1>12 DEF PreviewInv

LEMMA NextKeepsPreview == PreviewInv /\ [Next]_vars => PreviewInv'
<1> SUFFICES ASSUME PreviewInv, [Next]_vars
             PROVE  PreviewInv'
  OBVIOUS
<1>1. CASE Begin
  <2>1. AllBooked'
    BY <1>1 DEF Begin, Return, Failure, AllBooked, Answered
  <2> QED
    BY <1>1, <2>1, OthersKeepPreview DEF Begin
<1>2. ASSUME NEW r \in NextReads, Read(r)
      PROVE  PreviewInv'
  BY <1>2, ReadKeepsPreview
<1>3. ASSUME NEW i \in Goroutines, Book(i)
      PROVE  PreviewInv'
  BY <1>3, BookKeepsPreview
<1>4. CASE Answer
  <2>1. UNCHANGED <<scene, got, booked, preview>> /\ booked = Goroutines
    BY <1>4 DEF Answer
  <2>2. Goroutines' = Goroutines
    BY <2>1 DEF Goroutines, IsPreview, req
  <2>3. AllBooked'
    BY <2>1, <2>2 DEF AllBooked
  <2> QED
    BY <2>1, <2>3, OthersKeepPreview
<1>5. CASE Panic
  <2>1. AllBooked'
    BY <1>5 DEF Panic, AllBooked, Answered
  <2> QED
    BY <1>5, <2>1, OthersKeepPreview DEF Panic
<1>6. CASE Change \/ UNCHANGED vars
  <2>1. UNCHANGED <<scene, at, got, booked, preview, answer>>
    BY <1>6 DEF Change, vars
  <2>2. AllBooked'
    BY <2>1 DEF PreviewInv, AllBooked, Answered, Goroutines, IsPreview, req
  <2> QED
    BY <2>1, <2>2, OthersKeepPreview
<1> QED
  BY <1>1, <1>2, <1>3, <1>4, <1>5, <1>6 DEF Next, Handler

LEMMA PreviewInvGives == PreviewInv => PreviewAddsUp
<1> SUFFICES ASSUME PreviewInv, Answered("ok"), IsPreview
             PROVE  PreviewAddsUp
  BY DEF PreviewAddsUp
<1> DEFINE all == preview.resources
           names == PreviewNames(req, got)
<1>1. booked = DOMAIN names
  BY DEF PreviewInv, AllBooked, Goroutines
<1>2. all \in Seq(Range(all))
  BY DEF PreviewInv, ResultKept
<1>3. PICK by \in [DOMAIN all -> booked] :
        /\ IsInjective(by)
        /\ Range(by) = booked
        /\ \A k \in DOMAIN by : all[k].name = names[by[k]]
  BY DEF PreviewInv, NamesKept
<1>4. AddsUp(preview.totalImpactCount, all)
  BY DEF PreviewInv, TotalKept
<1>5. /\ \A k \in DOMAIN all : compareRiskLevel(preview.maxRiskLevel, all[k].riskLevel) >= 0
      /\ preview.maxRiskLevel \in {"low"} \cup {all[k].riskLevel : k \in DOMAIN all}
  BY Zenon DEF PreviewInv, RiskKept
<1>6. IsFiniteSet(DOMAIN all)
  <2>1. Len(all) \in Nat /\ DOMAIN all = 1 .. Len(all)
    BY <1>2, LenProperties, Zenon
  <2>2. 1 \in Int /\ Len(all) \in Int
    BY <2>1
  <2> QED
    BY <2>1, <2>2, FS_Interval, Zenon
<1>7. ASSUME NEW n \in Range(names)
      PROVE  Quantify(DOMAIN all, LAMBDA i : all[i].name = n)
               = Quantify(DOMAIN names, LAMBDA i : names[i] = n)
  <2> DEFINE S == DOMAIN all
             T == DOMAIN names
             P == {i \in S : all[i].name = n}
             Q == {i \in T : names[i] = n}
  <2>1. /\ by \in [S -> T] /\ IsInjective(by) /\ Range(by) = T
        /\ P \in SUBSET S /\ Q \in SUBSET T /\ IsFiniteSet(S)
        /\ \A k \in S : k \in P <=> by[k] \in Q
    BY <1>1, <1>3, <1>6
  <2> HIDE DEF S, T, P, Q
  <2>2. Cardinality(P) = Cardinality(Q)
    BY <2>1, SameNumberOfEach
  <2> QED
    BY <2>2 DEF Quantify, P, Q, S, T
<1> QED
  BY <1>4, <1>5, <1>7, Zenon DEF PreviewAddsUp

\* Whatever the cluster, its change and the names: an answered preview has one
\* entry for each goroutine, the total of all their impacts and the highest of
\* their risks (delete_preview.go:78-110).
THEOREM PreviewsAddUp == Spec => []PreviewAddsUp
<1>1. Spec => []PreviewInv
  BY PreviewStarts, NextKeepsPreview, PTL DEF Spec
<1> QED
  BY <1>1, PreviewInvGives, PTL

-----------------------------------------------------------------------------
\* ReadingInv is inductive.

LEMMA ReadingStarts == Init => ReadingInv
<1> SUFFICES ASSUME Init PROVE ReadingInv
  OBVIOUS
<1>1. scene \in Scenes /\ at = "start" /\ got = <<>> /\ lost = 0
  BY DEF Init
<1>2. ReadsKept /\ LossesKept
  BY <1>1 DEF ReadsKept, LossesKept
<1>3. AnswerKept
  BY <1>1 DEF AnswerKept, Answered
<1> QED
  BY <1>1, <1>2, <1>3 DEF ReadingInv

\* What depends on the call and what it has read stays with these.
LEMMA SameReadsSameHandler ==
  ASSUME scene' = scene, got' = got
  PROVE  /\ Refused' = Refused /\ Panics' = Panics
         /\ NextReads' = NextReads /\ Answers' = Answers
<1>1. Refused' = Refused /\ Panics' = Panics
  BY DEF Refused, Panics, IsPreview, req
<1>2. NextReads' = NextReads
  BY DEF NextReads, Scripts, Unread, IsPreview, req
<1>3. Answers' = Answers
  BY DEF Answers, IsPreview, req
<1> QED
  BY <1>1, <1>2, <1>3

\* A read brings what the cluster has at that moment, or is lost.
LEMMA ReadBrings ==
  ASSUME NEW r, ReadsKept, LossesKept, Read(r)
  PROVE  ReadsKept' /\ LossesKept'
<1>1. PICK result \in Results(r) :
        /\ got' = [x \in DOMAIN got \cup {r} |-> IF x = r THEN result ELSE got[x]]
        /\ lost' = IF result = Lost THEN lost + 1 ELSE lost
  BY DEF Read
<1>2. scene' = scene
  BY DEF Read
<1>3. result = Lost \/ \E c \in {Before, After} : result = Fetch(c, r)
  BY <1>1 DEF Results, Cluster
<1>4. Before' = Before /\ After' = After
  BY <1>2 DEF Before, After
<1>5. /\ DOMAIN got' = DOMAIN got \cup {r} /\ got'[r] = result
      /\ \A x \in DOMAIN got : x # r => got'[x] = got[x]
  BY <1>1
<1>6. ReadsKept'
  BY <1>3, <1>5, <1>4 DEF ReadsKept
<1>7. LossesKept'
  BY <1>1, <1>5 DEF LossesKept
<1> QED
  BY <1>6, <1>7

LEMMA NextKeepsReading == ReadingInv /\ [Next]_vars => ReadingInv'
<1> SUFFICES ASSUME ReadingInv, [Next]_vars PROVE ReadingInv'
  OBVIOUS
<1>1. scene' = scene /\ scene \in Scenes
  BY DEF ReadingInv, Next, Handler, Begin, Read, Book, Answer, Panic, Change, vars
<1>2. ASSUME UNCHANGED <<got, lost>>, AnswerKept' PROVE ReadingInv'
  <2>1. Before' = Before /\ After' = After
    BY <1>1 DEF Before, After
  <2> QED
    BY <1>1, <1>2, <2>1 DEF ReadingInv, ReadsKept, LossesKept
<1>3. CASE Begin
  <2>1. UNCHANGED <<got, lost>> /\ at = "start"
    BY <1>3 DEF Begin
  <2>2. CASE Return(Failure)
    BY <1>2, <2>1, <2>2 DEF Return, Failure, AnswerKept, Answered
  <2>3. CASE ~Refused /\ at' = "reading"
    BY <1>1, <1>2, <2>1, <2>3, SameReadsSameHandler DEF AnswerKept, Answered
  <2> QED
    BY <1>3, <2>2, <2>3 DEF Begin
<1>4. ASSUME NEW r \in NextReads, Read(r) PROVE ReadingInv'
  <2>1. ReadsKept' /\ LossesKept'
    BY <1>4, ReadBrings DEF ReadingInv
  <2>2. ~Answered("ok") /\ ~Answered("ok")' /\ at = "reading"
    BY <1>4 DEF Read, Return, Failure, Answered
  <2>3. Refused' = Refused
    BY <1>1 DEF Refused, IsPreview, req
  <2>4. AnswerKept'
    BY <2>2, <2>3 DEF ReadingInv, AnswerKept
  <2> QED
    BY <1>1, <2>1, <2>4 DEF ReadingInv
<1>5. CASE Answer
  <2>1. UNCHANGED <<got, lost>> /\ at = "reading" /\ NextReads = {} /\ ~Panics
    BY <1>5 DEF Answer
  <2>2. Answered("ok")' => answer.told' \in Answers
    BY <1>5 DEF Answer, Return, Failure, Answered
  <2>3. at' = "done"
    BY <1>5 DEF Answer, Return
  <2>4. AnswerKept'
    BY <1>1, <2>1, <2>2, <2>3, SameReadsSameHandler DEF ReadingInv, AnswerKept
  <2> QED
    BY <1>2, <2>1, <2>4
<1>6. CASE Panic
  <2>1. UNCHANGED <<got, lost>> /\ at' = "dead"
    BY <1>6 DEF Panic
  <2> QED
    BY <1>2, <2>1 DEF AnswerKept, Answered
<1>7. ASSUME \/ \E i \in Goroutines : Book(i)
             \/ Change
             \/ UNCHANGED vars
      PROVE  ReadingInv'
  <2>1. UNCHANGED <<at, got, lost, answer>>
    BY <1>7 DEF Book, Change, vars
  <2>2. AnswerKept'
    BY <1>1, <2>1, SameReadsSameHandler DEF ReadingInv, AnswerKept, Answered
  <2> QED
    BY <1>2, <2>1, <2>2
<1> QED
  BY <1>3, <1>4, <1>5, <1>6, <1>7 DEF Next, Handler

-----------------------------------------------------------------------------
\* The tools that make one read.

\* Which objects a request asks for.
LEMMA RequestAsks ==
  ASSUME NEW o, NEW op, NEW kind, NEW ns, NEW name, NEW selector
  PROVE  Asked(o, Request(op, kind, ns, name, selector, <<>>)) <=>
           o.kind = kind /\ ns \in {"", o.ns} /\ name \in {"", o.name} /\ selector \subseteq o.labels
BY DEF Asked, Request

\* What the handler asks for and keeps is what the call should tell: the fields
\* each handler puts into its one request are the conditions of ObjectsWanted.
LEMMA OneReadFinds ==
  ASSUME NEW r, r.tool \in ResourceTools, FitsTool(r), ~ResourceRefused(r),
         NEW c, EventsAboutOne(c), NEW o \in c
  PROVE  (/\ Asked(o, ResourceRead(r))
          /\ r.tool \in FilterTools => NameMatches(r, o))
         <=> o \in ObjectsWanted(r, c)
<1> DEFINE any == ""
<1>0. \A op, kind, ns, name, selector :
        Asked(o, Request(op, kind, ns, name, selector, <<>>)) <=>
          o.kind = kind /\ ns \in {any, o.ns} /\ name \in {any, o.name} /\ selector \subseteq o.labels
  BY RequestAsks
<1> DEFINE found == /\ Asked(o, ResourceRead(r))
                    /\ r.tool \in FilterTools => NameMatches(r, o)
           meant == /\ o.kind = ShownKind(r)
                    /\ InScope(r, o)
                    /\ Described(r, o)
<1>1. o \in ObjectsWanted(r, c) <=> meant
  BY DEF ObjectsWanted, Of
<1>2. Defaulted(r) # any
  BY ScenesAssumption DEF Defaulted, ScenesAssumption
<1>3. CASE r.tool \in {"get_pods", "get_deployments", "get_statefulsets", "get_daemonsets",
                       "get_services", "get_configmaps", "get_secrets"}
  <2>1. ResourceRead(r) = Request("list", ShownKind(r), r.ns, r.name, r.selector, <<>>)
    BY <1>3 DEF ResourceRead, ShownKind, Listed, GetPods, GetDeployments, GetStatefulSets,
      GetDaemonSets, GetServices, GetConfigMaps, GetSecrets
  <2>2. r.tool \notin FilterTools /\ r.mode = "exact"
    BY <1>3 DEF FitsTool, FilterTools
  <2>3. o.kind = ShownKind(r) => (InScope(r, o) <=> r.ns \in {any, o.ns})
    BY <1>3 DEF InScope, HasNamespace, ShownKind
  <2>4. Described(r, o) <=> r.name \in {any, o.name} /\ r.selector \subseteq o.labels
    BY <1>3, <2>2 DEF Described
  <2> HIDE DEF any
  <2> QED
    BY <1>1, <2>1, <2>2, <2>3, <2>4, <1>0
<1>4. CASE r.tool \in {"get_nodes", "get_namespaces"}
  <2>1. ResourceRead(r) = Request("list", ShownKind(r), any, any, r.selector, <<>>)
    BY <1>4 DEF ResourceRead, ShownKind, GetNodes, GetNamespaces
  <2>2. r.tool \notin FilterTools
    BY <1>4 DEF FilterTools
  <2>3. o.kind = ShownKind(r) => InScope(r, o)
    BY <1>4 DEF InScope, HasNamespace, ShownKind
  <2>4. Described(r, o) <=> r.selector \subseteq o.labels
    BY <1>4 DEF Described
  <2> HIDE DEF any
  <2> QED
    BY <1>1, <2>1, <2>2, <2>3, <2>4, <1>0
<1>5. CASE r.tool = "get_events"
  <2> DEFINE sel == r.selector \cup IF r.kind # any /\ r.name # any
                                  THEN {<<"involvedObject", <<r.kind, r.name>>>>} ELSE {}
  <2>1. /\ ResourceRead(r) = Request("list", "Event", Defaulted(r), any, sel, <<>>)
        /\ ShownKind(r) = "Event"
    BY <1>5 DEF ResourceRead, ShownKind, GetEvents
  <2>2. r.tool \notin FilterTools
    BY <1>5 DEF FilterTools
  <2>3. o.kind = "Event" => (InScope(r, o) <=> o.ns = Defaulted(r))
    BY <1>5 DEF InScope, HasNamespace, FilterTools
  <2>4. o.kind = "Event" =>
          \A x : <<"involvedObject", x>> \in o.labels <=> o.about = x
    BY DEF EventsAboutOne, Of
  <2>5. Described(r, o) <=>
          /\ r.selector \subseteq o.labels
          /\ r.kind # any /\ r.name # any => o.about = <<r.kind, r.name>>
    BY <1>5 DEF Described
  <2>6. o.kind = "Event" =>
          (sel \subseteq o.labels <=> Described(r, o))
    BY <2>4, <2>5
  <2> HIDE DEF sel
  <2> HIDE DEF any
  <2> QED
    BY <1>1, <1>2, <2>1, <2>2, <2>3, <2>6, <1>0
<1>6. CASE r.tool = "top_pods"
  <2>1. ResourceRead(r) = Request("list", ShownKind(r), Defaulted(r), any, {}, <<>>)
    BY <1>6 DEF ResourceRead, ShownKind, TopPods, List
  <2>2. r.tool \notin FilterTools
    BY <1>6 DEF FilterTools
  <2>3. o.kind = ShownKind(r) => (InScope(r, o) <=> o.ns = Defaulted(r))
    BY <1>6 DEF InScope, HasNamespace, ShownKind
  <2>4. Described(r, o)
    BY <1>6 DEF Described, FitsTool
  <2> HIDE DEF any
  <2> QED
    BY <1>1, <1>2, <2>1, <2>2, <2>3, <2>4, <1>0
<1>7. CASE r.tool = "top_nodes"
  <2>1. ResourceRead(r) = Request("list", ShownKind(r), any, any, {}, <<>>)
    BY <1>7 DEF ResourceRead, ShownKind, TopNodes, List
  <2>2. r.tool \notin FilterTools
    BY <1>7 DEF FilterTools
  <2>3. o.kind = ShownKind(r) => InScope(r, o)
    BY <1>7 DEF InScope, HasNamespace, ShownKind
  <2>4. Described(r, o)
    BY <1>7 DEF Described, FitsTool
  <2> HIDE DEF any
  <2> QED
    BY <1>1, <2>1, <2>2, <2>3, <2>4, <1>0
<1>8. CASE r.tool = "describe_resource"
  <2>1. ResourceRead(r) =
          Request("get", ShownKind(r),
                  IF r.kind \in {"Node", "Namespace"} THEN any ELSE Defaulted(r), r.name, {}, <<>>)
    BY <1>8 DEF ResourceRead, ShownKind, DescribeResource, Get
  <2>2. r.tool \notin FilterTools /\ r.mode = "exact" /\ r.selector = {}
    BY <1>8 DEF FitsTool, FilterTools
  <2>3. r.kind \in DescribedKinds /\ r.name # any /\ ShownKind(r) = r.kind
    BY <1>8 DEF ResourceRefused, ShownKind
  <2>4. o.kind = r.kind =>
          (InScope(r, o) <=> r.kind \in {"Node", "Namespace"} \/ o.ns = Defaulted(r))
    BY <1>8, <2>3 DEF InScope, HasNamespace, DescribedKinds
  <2>5. Described(r, o) <=> o.name = r.name
    BY <1>8, <2>2, <2>3 DEF Described
  <2> HIDE DEF any
  <2> QED
    BY <1>1, <1>2, <2>1, <2>2, <2>3, <2>4, <2>5, <1>0
<1>9. CASE r.tool = "get_pod_logs"
  <2>1. ResourceRead(r) =  Request("get", ShownKind(r), Defaulted(r), r.name, {}, <<>>)
    BY <1>2, <1>9 DEF ResourceRead, ShownKind, GetPodLogs, Get
  <2>2. r.tool \notin FilterTools /\ r.mode = "exact" /\ r.selector = {}
    BY <1>9 DEF FitsTool, FilterTools
  <2>3. r.name # any
    BY <1>9 DEF ResourceRefused
  <2>4. o.kind = ShownKind(r) => (InScope(r, o) <=> o.ns = Defaulted(r))
    BY <1>9 DEF InScope, HasNamespace, ShownKind
  <2>5. Described(r, o) <=> o.name = r.name
    BY <1>9, <2>2, <2>3 DEF Described
  <2> HIDE DEF any
  <2> QED
    BY <1>1, <1>2, <2>1, <2>2, <2>3, <2>4, <2>5, <1>0
<1>10. CASE r.tool \in FilterTools
  <2>1. ResourceRead(r) =
          Request("list", ShownKind(r), any, IF r.mode = "exact" THEN r.name ELSE any, {}, <<>>)
    BY <1>10 DEF ResourceRead, ShownKind, FilterTools, GetPodFilter, GetResourceFilter
  <2>2. r.selector = {} /\ r.name # any
    BY <1>10 DEF FitsTool, FilterTools, ResourceRefused
  <2>3. InScope(r, o)
    BY <1>10 DEF InScope, FilterTools
  <2>4. Described(r, o) <=> NameMatches(r, o)
    BY <1>10, <2>2 DEF Described, NameMatches, FilterTools
  <2>5. NameMatches(r, o) => (r.mode = "exact" => o.name = r.name)
    BY DEF NameMatches
  <2> HIDE DEF any
  <2> QED
    BY <1>1, <1>10, <2>1, <2>2, <2>3, <2>4, <2>5, <1>0
<1> QED
  BY <1>3, <1>4, <1>5, <1>6, <1>7, <1>8, <1>9, <1>10 DEF ResourceTools, FilterTools

\* The tools that make one read see the cluster itself.
LEMMA OneReadSees ==
  ASSUME req.tool \in ResourceTools
  PROVE  Before = scene.before /\ After = scene.after
<1>1. req.tool \notin NodePortTools
  BY DEF ResourceTools, NodePortTools
<1> QED
  BY <1>1 DEF Before, After, View, req

\* A tool is of one group only.
LEMMA OneReadIsNoOther ==
  ASSUME req.tool \in ResourceTools
  PROVE  req.tool \notin TracingTools /\ ~IsPreview /\ req.tool \notin InspectionTools
BY DEF ResourceTools, TracingTools, NodePortTools, HostTools, IsPreview, InspectionTools

\* The handler has what its one read brought: nothing if that was lost, else
\* what the call is about.
LEMMA OneReadHas ==
  ASSUME ReadingInv, req.tool \in ResourceTools, Answered("ok")
  PROVE  \/ ResourceFound(req, got) = {} /\ lost # 0
         \/ \E c \in {Before, After} : ResourceFound(req, got) = ObjectsWanted(req, c)
<1> DEFINE read == ResourceRead(req)
<1>1. Scripts = {<<read>>} /\ ~IsPreview /\ (Refused <=> ResourceRefused(req))
  BY OneReadIsNoOther DEF Scripts, Refused
<1>2. read \in DOMAIN got
  <2>1. SUFFICES ASSUME read \notin DOMAIN got PROVE FALSE
    OBVIOUS
  <2>2. <<read>> \in {s \in Scripts : Unread(s) # {}}
    BY <1>1, <2>1 DEF Unread
  <2>3. NextReads # {}
    BY <2>2 DEF NextReads
  <2> QED
    BY <2>3 DEF ReadingInv, AnswerKept
<1>3. ResourceFound(req, got) =
        {o \in got[read].items : req.tool \in FilterTools => NameMatches(req, o)}
  BY <1>2 DEF ResourceFound, Items, FilterTools
<1>4. CASE got[read] = Lost
  BY <1>2, <1>3, <1>4 DEF ReadingInv, LossesKept, Lost
<1>5. ASSUME NEW c \in {Before, After}, got[read] = Fetch(c, read)
      PROVE  ResourceFound(req, got) = ObjectsWanted(req, c)
  <2>1. got[read].items = {o \in c : Asked(o, read)}
    BY <1>5 DEF Fetch
  <2>2. FitsTool(req) /\ EventsAboutOne(c) /\ ~ResourceRefused(req)
    <3>1. c \in {scene.before, scene.after}
      BY OneReadSees
    <3> QED
      BY <1>1, <3>1, ScenesAssumption DEF ScenesAssumption, ReadingInv, AnswerKept, req
  <2>3. \A o \in c : (Asked(o, read) /\ (req.tool \in FilterTools => NameMatches(req, o)))
                       <=> o \in ObjectsWanted(req, c)
    BY <2>2, OneReadFinds
  <2>4. ObjectsWanted(req, c) \subseteq c
    BY DEF ObjectsWanted, Of
  <2> QED
    BY <1>3, <2>1, <2>3, <2>4
<1> QED
  BY <1>2, <1>4, <1>5 DEF ReadingInv, ReadsKept

\* A report that is not cut has all there is.
LEMMA UncutIsWhole ==
  ASSUME NEW items, IsFiniteSet(items), NEW limit \in Int, ~(Cardinality(items) > limit),
         NEW s \in TopOf(items, limit)
  PROVE  s = items
<1>1. Cardinality(items) \in Nat
  BY FS_CardinalityType
<1>2. s \in SUBSET items /\ Cardinality(s) = Cardinality(items)
  BY <1>1 DEF TopOf
<1> QED
  BY <1>2, FS_Subset

\* What such a tool tells is what there was, and all that stayed when nothing
\* was lost or cut.
LEMMA OneReadTells ==
  ASSUME ReadingInv, req.tool \in ResourceTools
  PROVE  FindsWhatStays /\ TellsOnlyWhatWas
<1> SUFFICES ASSUME Answered("ok") PROVE FindsWhatStays /\ TellsOnlyWhatWas
  BY DEF FindsWhatStays, TellsOnlyWhatWas
<1> DEFINE found == ResourceFound(req, got)
           top == req.tool \in {"top_pods", "top_nodes"}
           told(s) == UNION {Told(o) : o \in s}
<1>1. PICK s \in IF top THEN TopOf(found, Limit(req)) ELSE {found} : answer.told = told(s)
  <2>1. Answers = ResourceAnswers(req, got)
    BY OneReadIsNoOther DEF Answers
  <2> QED
    BY <2>1 DEF ReadingInv, AnswerKept, ResourceAnswers
<1>2. s \subseteq found
  BY <1>1 DEF TopOf
<1>3. \A c : Wanted(req, c) = told(ObjectsWanted(req, c)) /\ May(req, c) = Wanted(req, c)
  BY DEF Wanted, May, ResourceTools, TracingTools, NodePortTools, HostTools, InspectionTools, Accounts
<1>4. TellsOnlyWhatWas
  BY <1>1, <1>2, <1>3, OneReadHas DEF TellsOnlyWhatWas
<1>5. FindsWhatStays
  <2> SUFFICES ASSUME lost = 0, ~Cut(req, Before), ~Cut(req, After)
               PROVE  Wanted(req, Before) \cap Wanted(req, After) \subseteq answer.told
    BY DEF FindsWhatStays
  <2>1. PICK c \in {Before, After} : found = ObjectsWanted(req, c)
    BY OneReadHas
  <2>2. s = found
    <3>1. CASE ~top
      BY <1>1, <3>1
    <3>2. CASE top
      <4>1. ~(Cardinality(found) > Limit(req))
        BY <2>1, <3>2 DEF Cut
      <4>2. IsFiniteSet(c) /\ found \subseteq c
        <5>1. c \in {scene.before, scene.after}
          BY OneReadSees
        <5> QED
          BY <2>1, <5>1, ScenesAssumption DEF ScenesAssumption, ReadingInv, ObjectsWanted, Of
      <4>3. Limit(req) \in Int
        <5>1. req.limit \in Int
          BY <3>2, ScenesAssumption DEF ScenesAssumption, ReadingInv, FitsTool, req
        <5> QED
          BY <5>1 DEF Limit
      <4>4. IsFiniteSet(found)
        BY <4>2, FS_Subset
      <4> QED
        BY <1>1, <3>2, <4>1, <4>3, <4>4, UncutIsWhole
    <3> QED
      BY <3>1, <3>2
  <2> QED
    BY <1>1, <1>3, <2>1, <2>2
<1> QED
  BY <1>4, <1>5

\* A list, get, search or top tool, which makes one read of the API server,
\* tells of every object it is asked for that was there all along, when the
\* read was not lost and its report not cut, and tells of nothing that was not
\* there: the fields a handler puts into its request and what it keeps of the
\* reply come to what its tool is said to find, in every cluster.
THEOREM OneReadIsTold ==
  Spec => [](req.tool \in ResourceTools => FindsWhatStays /\ TellsOnlyWhatWas)
<1>1. Spec => []ReadingInv
  BY ReadingStarts, NextKeepsReading, PTL DEF Spec
<1>2. ReadingInv => (req.tool \in ResourceTools => FindsWhatStays /\ TellsOnlyWhatWas)
  BY OneReadTells
<1> QED
  BY <1>1, <1>2, PTL

-----------------------------------------------------------------------------
\* The tools that go from an address to what serves it.

Named(name) == name # ""

\* What is asked for on behalf of a key is what the request says.
LEMMA OwnerAsks ==
  ASSUME NEW o, NEW k, NEW op, NEW kind, NEW ns, NEW name, NEW selector
  PROVE  Asked(o, For(k, Request(op, kind, ns, name, selector, <<>>))) <=>
           o.kind = kind /\ ns \in {"", o.ns} /\ name \in {"", o.name} /\ selector \subseteq o.labels
BY DEF Asked, For, Request

\* A read for a Service asks in its namespace, and the Gets for its name.
LEMMA KeyAsks ==
  ASSUME NEW k, Named(k[1]), Named(k[2]), NEW o
  PROVE  /\ Asked(o, ServiceGet(k)) <=> o.kind = "Service" /\ o.ns = k[1] /\ o.name = k[2]
         /\ Asked(o, SlicesList(k)) <=>
              o.kind = "EndpointSlice" /\ o.ns = k[1] /\ <<"service", k[2]>> \in o.labels
         /\ Asked(o, EndpointsGet(k)) <=> o.kind = "Endpoints" /\ o.ns = k[1] /\ o.name = k[2]
<1> DEFINE any == ""
<1>1. k[1] # any /\ k[2] # any
  BY DEF Named
<1>2. \A op, kind, ns, name, selector :
        Asked(o, For(k, Request(op, kind, ns, name, selector, <<>>))) <=>
          o.kind = kind /\ ns \in {any, o.ns} /\ name \in {any, o.name} /\ selector \subseteq o.labels
  BY OwnerAsks
<1>3. /\ ServiceGet(k) = For(k, Request("get", "Service", k[1], k[2], {}, <<>>))
      /\ SlicesList(k) = For(k, Request("list", "EndpointSlice", k[1], any, {<<"service", k[2]>>}, <<>>))
      /\ EndpointsGet(k) = For(k, Request("get", "Endpoints", k[1], k[2], {}, <<>>))
  BY Zenon DEF ServiceGet, SlicesList, EndpointsGet, Get
<1> HIDE DEF any
<1>4. Asked(o, ServiceGet(k)) <=> o.kind = "Service" /\ o.ns = k[1] /\ o.name = k[2]
  BY <1>1, <1>2, <1>3
<1>5. Asked(o, SlicesList(k)) <=>
        o.kind = "EndpointSlice" /\ o.ns = k[1] /\ <<"service", k[2]>> \in o.labels
  BY <1>1, <1>2, <1>3
<1>6. Asked(o, EndpointsGet(k)) <=> o.kind = "Endpoints" /\ o.ns = k[1] /\ o.name = k[2]
  BY <1>1, <1>2, <1>3
<1> QED
  BY <1>4, <1>5, <1>6, Zenon

LEMMA WorkloadsAsk ==
  ASSUME NEW k, Named(k[1]), NEW o, NEW i \in 1 .. 3
  PROVE  Asked(o, WorkloadLists(k)[i]) <=> o.kind = WorkloadKinds[i] /\ o.ns = k[1]
<1> DEFINE any == ""
<1>1. k[1] # any
  BY DEF Named
<1>2. \A op, kind, ns, name, selector :
        Asked(o, For(k, Request(op, kind, ns, name, selector, <<>>))) <=>
          o.kind = kind /\ ns \in {any, o.ns} /\ name \in {any, o.name} /\ selector \subseteq o.labels
  BY OwnerAsks
<1>3. WorkloadLists(k)[i] = For(k, Request("list", WorkloadKinds[i], k[1], any, {}, <<>>))
  BY Zenon DEF WorkloadLists, List
<1> HIDE DEF any
<1> QED
  BY <1>1, <1>2, <1>3

\* The request each tool begins with.
LEMMA FirstIs ==
  ASSUME NEW r
  PROVE  /\ r.tool \in NodePortTools =>
              TraceFirst(r) = Request(IF r.indexed THEN "index" ELSE "list", "Service", r.ns, "", {}, <<>>)
         /\ r.tool \in HostTools =>
              TraceFirst(r) = Request("list", "Ingress", Defaulted(r), "", {}, <<>>)
         /\ r.tool = "get_ingresses" =>
              TraceFirst(r) = Request("list", "Ingress", Defaulted(r), r.name, r.selector, <<>>)
         /\ r.tool = "find_workload_by_service" =>
              TraceFirst(r) = Request("get", "Service", Defaulted(r), r.name, {}, <<>>)
<1>1. r.tool \in NodePortTools =>
        TraceFirst(r) = Request(IF r.indexed THEN "index" ELSE "list", "Service", r.ns, "", {}, <<>>)
  BY Zenon DEF TraceFirst, NodePortTools, HostTools
<1>2. r.tool \in HostTools => TraceFirst(r) = Request("list", "Ingress", Defaulted(r), "", {}, <<>>)
  BY Zenon DEF TraceFirst, NodePortTools, HostTools, List
<1>3. r.tool = "get_ingresses" =>
        TraceFirst(r) = Request("list", "Ingress", Defaulted(r), r.name, r.selector, <<>>)
  BY DEF TraceFirst, NodePortTools, HostTools
<1>4. r.tool = "find_workload_by_service" =>
        TraceFirst(r) = Request("get", "Service", Defaulted(r), r.name, {}, <<>>)
  BY DEF TraceFirst, NodePortTools, HostTools, Get
<1> QED
  BY <1>1, <1>2, <1>3, <1>4, Zenon

\* What the first read of a tool asks for.
LEMMA FirstAsks ==
  ASSUME NEW r, ~TraceRefused(r), NEW o
  PROVE  /\ r.tool \in NodePortTools =>
              (Asked(o, TraceFirst(r)) <=> o.kind = "Service" /\ r.ns \in {"", o.ns})
         /\ r.tool \in HostTools =>
              (Asked(o, TraceFirst(r)) <=> o.kind = "Ingress" /\ o.ns = Defaulted(r))
         /\ r.tool = "get_ingresses" =>
              (Asked(o, TraceFirst(r)) <=> /\ o.kind = "Ingress" /\ o.ns = Defaulted(r)
                                           /\ r.name \in {"", o.name} /\ r.selector \subseteq o.labels)
         /\ r.tool = "find_workload_by_service" =>
              (Asked(o, TraceFirst(r)) <=> o.kind = "Service" /\ o.ns = Defaulted(r) /\ o.name = r.name)
<1> DEFINE any == ""
<1>1. Defaulted(r) # any
  BY ScenesAssumption DEF Defaulted, ScenesAssumption
<1>2. \A op, kind, ns, name, selector :
        Asked(o, Request(op, kind, ns, name, selector, <<>>)) <=>
          o.kind = kind /\ ns \in {any, o.ns} /\ name \in {any, o.name} /\ selector \subseteq o.labels
  BY RequestAsks
<1>3. /\ r.tool \in NodePortTools =>
           TraceFirst(r) = Request(IF r.indexed THEN "index" ELSE "list", "Service", r.ns, any, {}, <<>>)
      /\ r.tool \in HostTools => TraceFirst(r) = Request("list", "Ingress", Defaulted(r), any, {}, <<>>)
      /\ r.tool = "get_ingresses" =>
           TraceFirst(r) = Request("list", "Ingress", Defaulted(r), r.name, r.selector, <<>>)
      /\ r.tool = "find_workload_by_service" =>
           TraceFirst(r) = Request("get", "Service", Defaulted(r), r.name, {}, <<>>)
  BY FirstIs, Zenon
<1>4. r.tool = "find_workload_by_service" => r.name # any
  BY Zenon DEF TraceRefused
<1> HIDE DEF any
<1>5. r.tool \in NodePortTools =>
        (Asked(o, TraceFirst(r)) <=> o.kind = "Service" /\ r.ns \in {any, o.ns})
  BY <1>2, <1>3
<1>6. r.tool \in HostTools =>
        (Asked(o, TraceFirst(r)) <=> o.kind = "Ingress" /\ o.ns = Defaulted(r))
  BY <1>1, <1>2, <1>3
<1>7. r.tool = "get_ingresses" =>
        (Asked(o, TraceFirst(r)) <=> /\ o.kind = "Ingress" /\ o.ns = Defaulted(r)
                                     /\ r.name \in {any, o.name} /\ r.selector \subseteq o.labels)
  BY <1>1, <1>2, <1>3
<1>8. r.tool = "find_workload_by_service" =>
        (Asked(o, TraceFirst(r)) <=> o.kind = "Service" /\ o.ns = Defaulted(r) /\ o.name = r.name)
  BY <1>1, <1>2, <1>3, <1>4
<1> QED
  BY <1>5, <1>6, <1>7, <1>8, Zenon DEF any

\* Some natural number of a set of them is the least.
LEMMA LeastOf ==
  ASSUME NEW U, U \subseteq Nat, U # {}
  PROVE  Min(U) \in U /\ \A x \in U : Min(U) <= x
<1>1. PICK x \in U : \A y \in U : <<y, x>> \notin OpToRel(<, Nat)
  BY WFMin, NatLessThanWellFounded
<1>2. \A y \in U : ~(y < x)
  BY <1>1 DEF OpToRel
<1>3. \A y \in U : x =< y
  BY <1>2
<1>4. Min(U) \in U /\ \A y \in U : Min(U) =< y
  BY <1>3, Zenon DEF Min
<1> QED
  BY <1>4

-----------------------------------------------------------------------------
\* What is in a script.

IsSeq(s) == s \in Seq(Range(s))

LEMMA Singleton ==
  ASSUME NEW x
  PROVE  IsSeq(<<x>>) /\ Range(<<x>>) = {x}
<1>1. <<x>> \in Seq({x}) /\ DOMAIN <<x>> = {1} /\ <<x>>[1] = x
  OBVIOUS
<1>2. Range(<<x>>) = {x}
  BY <1>1, Zenon DEF Range
<1> QED
  BY <1>1, <1>2, Zenon DEF IsSeq

LEMMA NoSteps == IsSeq(<<>>) /\ Range(<<>>) = {}
<1>1. <<>> \in Seq({}) /\ DOMAIN <<>> = {}
  OBVIOUS
<1>2. Range(<<>>) = {}
  BY <1>1, Zenon DEF Range
<1> QED
  BY <1>1, <1>2, Zenon DEF IsSeq

LEMMA OneAfterTheOther ==
  ASSUME NEW s, NEW t, IsSeq(s), IsSeq(t)
  PROVE  IsSeq(s \o t) /\ Range(s \o t) = Range(s) \cup Range(t)
<1> DEFINE P == Range(s) \cup Range(t)
           all == s \o t
<1>1. s \in Seq(P) /\ t \in Seq(P)
  BY DEF IsSeq
<1>2. /\ all \in Seq(P) /\ Len(all) = Len(s) + Len(t)
      /\ \A i \in 1 .. Len(s) : all[i] = s[i]
      /\ \A i \in 1 .. Len(t) : all[Len(s) + i] = t[i]
  BY <1>1
<1> HIDE DEF all
<1>3. \A i \in DOMAIN all : i \in 1 .. Len(s) \/ \E j \in 1 .. Len(t) : i = Len(s) + j
  <2> SUFFICES ASSUME NEW i \in DOMAIN all, i \notin 1 .. Len(s) PROVE i - Len(s) \in 1 .. Len(t)
    BY <1>1, <1>2
  <2> QED
    BY <1>1, <1>2
<1>4. Range(all) \subseteq P
  BY <1>2 DEF Range
<1>5. Range(s) \subseteq Range(all)
  <2>1. \A i \in DOMAIN s : i \in DOMAIN all /\ all[i] = s[i]
    BY <1>1, <1>2
  <2> QED
    BY <2>1, Zenon DEF Range
<1>6. Range(t) \subseteq Range(all)
  <2>1. \A i \in DOMAIN t : Len(s) + i \in DOMAIN all /\ all[Len(s) + i] = t[i]
    BY <1>1, <1>2
  <2> QED
    BY <2>1, Zenon DEF Range
<1>7. Range(all) = P
  BY <1>4, <1>5, <1>6
<1>8. all \in Seq(Range(all))
  BY <1>2, <1>7
<1> QED
  BY <1>7, <1>8 DEF IsSeq, all

LEMMA ScriptOfService ==
  ASSUME NEW k
  PROVE  /\ IsSeq(ServiceScript(req, got, k))
         /\ Range(ServiceScript(req, got, k)) =
              (IF req.tool \in HostTools THEN {ServiceGet(k)} ELSE {})
              \cup (IF ServiceObject(req, got, k) # {} /\ WantsEndpoints(req)
                    THEN {SlicesList(k)}
                         \cup IF Items(got, SlicesList(k)) = {} THEN {EndpointsGet(k)} ELSE {}
                    ELSE {})
              \cup (IF WantsWorkloads(req) /\ \E s \in ServiceObject(req, got, k) : s.selector # {}
                    THEN {WorkloadLists(k)[i] : i \in 1 .. 3} ELSE {})
<1> DEFINE found == ServiceObject(req, got, k)
           one == IF req.tool \in HostTools THEN <<ServiceGet(k)>> ELSE <<>>
           two == IF found # {} /\ WantsEndpoints(req) THEN getServiceEndpoints(got, k) ELSE <<>>
           three == IF WantsWorkloads(req) /\ \E s \in found : s.selector # {}
                    THEN WorkloadLists(k) ELSE <<>>
           ones == IF req.tool \in HostTools THEN {ServiceGet(k)} ELSE {}
           twos == IF found # {} /\ WantsEndpoints(req)
                   THEN {SlicesList(k)}
                        \cup IF Items(got, SlicesList(k)) = {} THEN {EndpointsGet(k)} ELSE {}
                   ELSE {}
           threes == IF WantsWorkloads(req) /\ \E s \in found : s.selector # {}
                     THEN {WorkloadLists(k)[i] : i \in 1 .. 3} ELSE {}
<1>1. ServiceScript(req, got, k) = (one \o two) \o three
  BY DEF ServiceScript
<1>2. IsSeq(one) /\ Range(one) = ones
  BY Singleton, NoSteps, Zenon
<1>3. IsSeq(two) /\ Range(two) = twos
  <2>1. IsSeq(<<SlicesList(k)>>) /\ Range(<<SlicesList(k)>>) = {SlicesList(k)}
    BY Singleton
  <2> DEFINE second == IF Items(got, SlicesList(k)) = {} THEN <<EndpointsGet(k)>> ELSE <<>>
             seconds == IF Items(got, SlicesList(k)) = {} THEN {EndpointsGet(k)} ELSE {}
  <2>2. IsSeq(second) /\ Range(second) = seconds
    BY Singleton, NoSteps, Zenon
  <2>3. getServiceEndpoints(got, k) = <<SlicesList(k)>> \o second
    BY DEF getServiceEndpoints
  <2> HIDE DEF second, seconds
  <2>4. IsSeq(<<SlicesList(k)>> \o second) /\ Range(<<SlicesList(k)>> \o second) = {SlicesList(k)} \cup seconds
    BY <2>1, <2>2, OneAfterTheOther
  <2>5. CASE found # {} /\ WantsEndpoints(req)
    BY <2>3, <2>4, <2>5, Zenon DEF seconds
  <2>6. CASE ~(found # {} /\ WantsEndpoints(req))
    BY <2>6, NoSteps, Zenon
  <2> QED
    BY <2>5, <2>6, Zenon
<1>4. IsSeq(three) /\ Range(three) = threes
  <2>1. WorkloadLists(k) \in Seq({WorkloadLists(k)[i] : i \in 1 .. 3}) /\ DOMAIN WorkloadLists(k) = 1 .. 3
    BY DEF WorkloadLists
  <2>2. Range(WorkloadLists(k)) = {WorkloadLists(k)[i] : i \in 1 .. 3}
    BY <2>1, Zenon DEF Range
  <2>3. IsSeq(WorkloadLists(k))
    BY <2>1, <2>2, Zenon DEF IsSeq
  <2> QED
    BY <2>2, <2>3, NoSteps, Zenon
<1> HIDE DEF one, two, three, ones, twos, threes
<1>5. IsSeq(one \o two) /\ Range(one \o two) = ones \cup twos
  BY <1>2, <1>3, OneAfterTheOther
<1>6. IsSeq((one \o two) \o three) /\ Range((one \o two) \o three) = (ones \cup twos) \cup threes
  BY <1>4, <1>5, OneAfterTheOther
<1> QED
  BY <1>1, <1>6, Zenon DEF ones, twos, threes, found

-----------------------------------------------------------------------------
LEMMA TraceIsNoOther ==
  ASSUME req.tool \in TracingTools
  PROVE  req.tool \notin ResourceTools /\ ~IsPreview /\ req.tool \notin InspectionTools
BY DEF ResourceTools, TracingTools, NodePortTools, HostTools, IsPreview, InspectionTools

\* What a tracing tool reads next: nothing twice, and only what its scripts say.
LEMMA TraceNextReads ==
  ASSUME req.tool \in TracingTools, NEW r \in NextReads
  PROVE  /\ r \notin DOMAIN got
         /\ \/ r = TraceFirst(req)
            \/ \E k \in ServiceKeys(req, got) : r \in Range(ServiceScript(req, got, k))
<1>1. Scripts = TraceScripts(req, got)
  BY TraceIsNoOther DEF Scripts
<1>2. PICK s \in Scripts : Unread(s) # {} /\ r = s[Min(Unread(s))]
  BY DEF NextReads
<1>3. \/ s = <<TraceFirst(req)>>
      \/ \E k \in ServiceKeys(req, got) : s = ServiceScript(req, got, k)
  BY <1>1, <1>2 DEF TraceScripts
<1>4. IsSeq(s)
  BY <1>3, Singleton, ScriptOfService
<1>5. DOMAIN s \subseteq Nat
  BY <1>4 DEF IsSeq
<1>6. Unread(s) \subseteq Nat
  BY <1>5, Zenon DEF Unread
<1>7. Min(Unread(s)) \in Unread(s)
  BY <1>2, <1>6, LeastOf
<1>8. r \notin DOMAIN got /\ r \in Range(s)
  BY <1>2, <1>7, Zenon DEF Unread, Range
<1> QED
  BY <1>3, <1>8, Singleton

\* When nothing is left to read, the scripts are read.
LEMMA TraceAllRead ==
  ASSUME req.tool \in TracingTools, NextReads = {}
  PROVE  /\ TraceFirst(req) \in DOMAIN got
         /\ \A k \in ServiceKeys(req, got) : Range(ServiceScript(req, got, k)) \subseteq DOMAIN got
<1>1. Scripts = TraceScripts(req, got)
  BY TraceIsNoOther DEF Scripts
<1>2. ASSUME NEW s \in Scripts PROVE Range(s) \subseteq DOMAIN got
  <2>1. Unread(s) = {}
    BY <1>2 DEF NextReads
  <2> QED
    BY <2>1, Zenon DEF Unread, Range
<1>3. /\ <<TraceFirst(req)>> \in Scripts
      /\ \A k \in ServiceKeys(req, got) : ServiceScript(req, got, k) \in Scripts
  BY <1>1 DEF TraceScripts
<1> QED
  BY <1>2, <1>3, Singleton

\* What was found stays found: nothing is read a second time.
LEMMA FoundStays ==
  ASSUME req.tool \in TracingTools, NEW r \in NextReads, Read(r)
  PROVE  /\ req' = req /\ DOMAIN got' = DOMAIN got \cup {r}
         /\ \A x : Items(got, x) # {} => Items(got', x) = Items(got, x)
<1>1. /\ scene' = scene /\ DOMAIN got' = DOMAIN got \cup {r}
      /\ \A x \in DOMAIN got : x # r => got'[x] = got[x]
  BY DEF Read
<1>2. r \notin DOMAIN got
  BY TraceNextReads
<1>3. \A x \in DOMAIN got : got'[x] = got[x]
  BY <1>1, <1>2
<1> QED
  BY <1>1, <1>3 DEF Items, req

LEMMA TraceStarts == Init => TraceKept
BY DEF Init, TraceKept

LEMMA NextKeepsTrace == TraceKept /\ [Next]_vars => TraceKept'
<1> DEFINE reason(r, g, k) ==
      \/ req.tool \in HostTools /\ r = ServiceGet(k)
      \/ /\ ServiceObject(req, g, k) # {}
         /\ \/ WantsEndpoints(req) /\ r \in {SlicesList(k), EndpointsGet(k)}
            \/ WantsWorkloads(req) /\ r \in Range(WorkloadLists(k))
<1> SUFFICES ASSUME TraceKept, [Next]_vars, (req.tool \in TracingTools)' PROVE TraceKept'
  BY DEF TraceKept
<1>1. scene' = scene /\ req' = req /\ req.tool \in TracingTools
  BY DEF Next, Handler, Begin, Read, Book, Answer, Panic, Change, vars, req
<1>2. CASE got' = got
  BY <1>1, <1>2 DEF TraceKept
<1>3. ASSUME NEW r \in NextReads, Read(r) PROVE TraceKept'
  <2>1. \A x : Items(got, x) # {} => Items(got', x) = Items(got, x)
    BY <1>1, <1>3, FoundStays
  <2>2. DOMAIN got' = DOMAIN got \cup {r}
    BY <1>1, <1>3, FoundStays
  <2>3. ServiceKeys(req, got) # {} => ServiceKeys(req, got') = ServiceKeys(req, got)
    <3>1. Items(got, TraceFirst(req)) = {} => ServiceKeys(req, got) = {}
      BY <1>1 DEF ServiceKeys, matchedSvcKeys
    <3>2. Items(got', TraceFirst(req)) = Items(got, TraceFirst(req)) =>
            ServiceKeys(req, got') = ServiceKeys(req, got)
      BY DEF ServiceKeys
    <3> QED
      BY <2>1, <3>1, <3>2
  <2>4. \A k : ServiceObject(req, got, k) # {} => ServiceObject(req, got', k) # {}
    BY <2>1 DEF ServiceObject
  <2>5. \A x, k : reason(x, got, k) => reason(x, got', k)
    BY <2>4
  <2>6. r = TraceFirst(req) \/ \E k \in ServiceKeys(req, got) : reason(r, got, k)
    <3>1. \A k \in ServiceKeys(req, got) :
            r \in Range(ServiceScript(req, got, k)) => reason(r, got, k)
      <4>1. TAKE k \in ServiceKeys(req, got)
      <4>2. Range(WorkloadLists(k)) = {WorkloadLists(k)[i] : i \in 1 .. 3}
        <5>1. DOMAIN WorkloadLists(k) = 1 .. 3
          BY DEF WorkloadLists
        <5> QED
          BY <5>1, Zenon DEF Range
      <4> QED
        BY <4>2, ScriptOfService
    <3> QED
      BY <1>1, <1>3, <3>1, TraceNextReads
  <2>7. \A x \in DOMAIN got \ {TraceFirst(req)} : \E k \in ServiceKeys(req, got) : reason(x, got, k)
    BY <1>1 DEF TraceKept
  <2>8. \A x \in DOMAIN got' \ {TraceFirst(req)} : \E k \in ServiceKeys(req, got') : reason(x, got', k)
    <3> HIDE DEF reason
    <3> QED
      BY <2>2, <2>3, <2>5, <2>6, <2>7
  <2>9. TraceKept' <=> (req.tool \in TracingTools =>
          \A x \in DOMAIN got' \ {TraceFirst(req)} : \E k \in ServiceKeys(req, got') : reason(x, got', k))
    BY <1>1 DEF TraceKept, req
  <2> QED
    BY <2>8, <2>9
<1> QED
  BY <1>2, <1>3 DEF Next, Handler, Begin, Book, Answer, Panic, Change, vars

-----------------------------------------------------------------------------
\* Hosts as texts and as domains.

\* A sequence is known by its length and its elements.
LEMMA Elementwise ==
  ASSUME NEW S, NEW s \in Seq(S), NEW t \in Seq(S), Len(s) = Len(t),
         \A i \in 1 .. Len(s) : s[i] = t[i]
  PROVE  s = t
BY SeqEqual

LEMMA OfOne ==
  ASSUME NEW S, NEW x \in S
  PROVE  <<x>> \in Seq(S) /\ Len(<<x>>) = 1 /\ <<x>>[1] = x
OBVIOUS

\* One host begins with another.
LEMMA PrefixIs ==
  ASSUME NEW S, NEW s \in Seq(S), NEW t \in Seq(S)
  PROVE  IsPrefix(s, t) <=> Len(s) <= Len(t) /\ \A i \in 1 .. Len(s) : s[i] = t[i]
<1> DEFINE u == SubSeq(t, 1, Len(s))
<1>1. SubSeq(s, 1, Len(s)) = s /\ Len(s) \in Nat /\ Len(t) \in Nat
  OBVIOUS
<1>2. ASSUME Len(s) <= Len(t)
      PROVE  u \in Seq(S) /\ Len(u) = Len(s) /\ \A i \in 1 .. Len(s) : u[i] = t[i]
  BY <1>1, <1>2
<1>3. ASSUME Len(s) <= Len(t) PROVE s = u <=> \A i \in 1 .. Len(s) : s[i] = t[i]
  <2> HIDE DEF u
  <2> QED
    BY <1>2, <1>3, Elementwise
<1> QED
  BY <1>1, <1>3 DEF IsPrefix

\* The rest of host t from place k on is s.
LEMMA RestIs ==
  ASSUME NEW S, NEW s \in Seq(S), NEW t \in Seq(S), NEW k \in 1 .. Len(t) + 1
  PROVE  SubSeq(t, k, Len(t)) = s <=>
           Len(s) = Len(t) - k + 1 /\ \A i \in 1 .. Len(s) : s[i] = t[k - 1 + i]
<1> DEFINE u == SubSeq(t, k, Len(t))
<1>1. Len(s) \in Nat /\ Len(t) \in Nat /\ k \in Nat /\ k >= 1 /\ k <= Len(t) + 1
  OBVIOUS
<1>2. u \in Seq(S) /\ Len(u) = Len(t) - k + 1
  BY <1>1
<1>3. \A i \in 1 .. Len(t) - k + 1 : u[i] = t[k - 1 + i]
  BY <1>1
<1> HIDE DEF u
<1>4. u = s <=> Len(s) = Len(t) - k + 1 /\ \A i \in 1 .. Len(s) : s[i] = t[k - 1 + i]
  BY <1>1, <1>2, <1>3, Elementwise
<1> QED
  BY <1>4 DEF u

\* One host ends with another: that is the rest of it from some place on.
LEMMA SuffixIs ==
  ASSUME NEW S, NEW s \in Seq(S), NEW t \in Seq(S)
  PROVE  IsSuffix(s, t) <=> Len(s) <= Len(t) /\ SubSeq(t, Len(t) - Len(s) + 1, Len(t)) = s
<1> DEFINE r == Reverse(s)
           v == Reverse(t)
           n == Len(t) - Len(s)
<1>1. Len(s) \in Nat /\ Len(t) \in Nat
  OBVIOUS
<1>2. /\ r \in Seq(S) /\ Len(r) = Len(s) /\ \A i \in 1 .. Len(s) : r[i] = s[Len(s) - i + 1]
      /\ v \in Seq(S) /\ Len(v) = Len(t) /\ \A i \in 1 .. Len(t) : v[i] = t[Len(t) - i + 1]
  BY <1>1 DEF Reverse
<1> HIDE DEF r, v
<1>3. IsSuffix(s, t) <=> Len(s) <= Len(t) /\ \A i \in 1 .. Len(s) : r[i] = v[i]
  <2>1. r \in Seq(S) /\ v \in Seq(S)
    BY <1>2
  <2>2. IsPrefix(r, v) <=> Len(r) <= Len(v) /\ \A i \in 1 .. Len(r) : r[i] = v[i]
    BY <2>1, PrefixIs
  <2>3. IsSuffix(s, t) <=> IsPrefix(r, v)
    BY Zenon DEF IsSuffix, r, v
  <2> QED
    BY <1>2, <2>2, <2>3
<1>4. ASSUME Len(s) <= Len(t)
      PROVE  (\A i \in 1 .. Len(s) : r[i] = v[i]) <=> \A j \in 1 .. Len(s) : s[j] = t[n + j]
  <2>1. ASSUME \A i \in 1 .. Len(s) : r[i] = v[i], NEW j \in 1 .. Len(s) PROVE s[j] = t[n + j]
    <3>1. Len(s) - j + 1 \in 1 .. Len(s) /\ Len(s) - j + 1 \in 1 .. Len(t)
      BY <1>1, <1>4
    <3>2. /\ r[Len(s) - j + 1] = s[Len(s) - (Len(s) - j + 1) + 1]
          /\ v[Len(s) - j + 1] = t[Len(t) - (Len(s) - j + 1) + 1]
      BY <1>2, <3>1
    <3>3. Len(s) - (Len(s) - j + 1) + 1 = j /\ Len(t) - (Len(s) - j + 1) + 1 = n + j
      BY <1>1
    <3> QED
      BY <2>1, <3>1, <3>2, <3>3
  <2>2. ASSUME \A j \in 1 .. Len(s) : s[j] = t[n + j], NEW i \in 1 .. Len(s) PROVE r[i] = v[i]
    <3>1. Len(s) - i + 1 \in 1 .. Len(s) /\ i \in 1 .. Len(t)
      BY <1>1, <1>4
    <3>2. r[i] = s[Len(s) - i + 1] /\ v[i] = t[Len(t) - i + 1]
      BY <1>2, <3>1
    <3>3. n + (Len(s) - i + 1) = Len(t) - i + 1
      BY <1>1
    <3> QED
      BY <2>2, <3>1, <3>2, <3>3
  <2> QED
    BY <2>1, <2>2
<1>5. ASSUME Len(s) <= Len(t)
      PROVE  SubSeq(t, n + 1, Len(t)) = s <=> \A j \in 1 .. Len(s) : s[j] = t[n + j]
  <2>1. n \in Int /\ n + 1 \in 1 .. Len(t) + 1 /\ Len(t) - (n + 1) + 1 = Len(s)
    BY <1>1, <1>5
  <2>2. PICK k \in 1 .. Len(t) + 1 : k = n + 1
    BY <2>1
  <2>3. SubSeq(t, k, Len(t)) = s <=>
          Len(s) = Len(t) - k + 1 /\ \A i \in 1 .. Len(s) : s[i] = t[k - 1 + i]
    BY <2>2, RestIs
  <2>4. Len(s) = Len(t) - k + 1
    BY <2>1, <2>2
  <2>5. \A i \in 1 .. Len(s) : k - 1 + i = n + i
    BY <2>1, <2>2
  <2>6. SubSeq(t, n + 1, Len(t)) = SubSeq(t, k, Len(t))
    BY <2>2
  <2> HIDE DEF n
  <2> QED
    BY <2>3, <2>4, <2>5, <2>6
<1> QED
  BY <1>3, <1>4, <1>5

\* A dot and then a domain.
LEMMA DotBefore ==
  ASSUME NEW S, "." \in S, NEW d \in Seq(S)
  PROVE  /\ <<".">> \o d \in Seq(S) /\ Len(<<".">> \o d) = Len(d) + 1 /\ (<<".">> \o d)[1] = "."
         /\ \A i \in 1 .. Len(d) : (<<".">> \o d)[i + 1] = d[i]
<1>1. Len(d) \in Nat
  OBVIOUS
<1>2. PICK dot \in Seq(S) : dot = <<".">> /\ Len(dot) = 1 /\ dot[1] = "."
  BY OfOne
<1>3. /\ dot \o d \in Seq(S) /\ Len(dot \o d) = Len(dot) + Len(d)
      /\ \A i \in 1 .. Len(dot) + Len(d) :
           (dot \o d)[i] = IF i <= Len(dot) THEN dot[i] ELSE d[i - Len(dot)]
  BY ConcatProperties
<1>4. \A i \in 1 .. Len(d) : (dot \o d)[i + 1] = d[i]
  BY <1>1, <1>2, <1>3
<1>5. (dot \o d)[1] = "."
  BY <1>1, <1>2, <1>3
<1>6. <<".">> \o d = dot \o d
  BY <1>2
<1> QED
  BY <1>1, <1>2, <1>3, <1>4, <1>5, <1>6

\* A dot and then domain d at the end of host h.
LEMMA BelowIs ==
  ASSUME NEW S, "." \in S, NEW d \in Seq(S), NEW h \in Seq(S)
  PROVE  IsSuffix(<<".">> \o d, h) <=> Within(h, d)
<1> DEFINE s == <<".">> \o d
           n == Len(h) - Len(d)
<1>1. Len(d) \in Nat /\ Len(h) \in Nat
  OBVIOUS
<1>2. s \in Seq(S) /\ Len(s) = Len(d) + 1 /\ s[1] = "." /\ \A i \in 1 .. Len(d) : s[i + 1] = d[i]
  BY DotBefore
<1> HIDE DEF s
<1>3. ASSUME IsSuffix(s, h) PROVE Within(h, d)
  <2>1. Len(s) <= Len(h) /\ SubSeq(h, Len(h) - Len(s) + 1, Len(h)) = s
    BY <1>2, <1>3, SuffixIs
  <2>2. n \in 1 .. Len(h) + 1 /\ Len(h) - Len(s) + 1 = n /\ n + 1 \in 1 .. Len(h) + 1 /\ n \in DOMAIN h
    BY <1>1, <1>2, <2>1
  <2>3. \A i \in 1 .. Len(s) : s[i] = h[n - 1 + i]
    <3>1. PICK k \in 1 .. Len(h) + 1 : k = n
      BY <2>2
    <3>2. SubSeq(h, k, Len(h)) = s
      BY <2>1, <2>2, <3>1
    <3>3. SubSeq(h, k, Len(h)) = s <=>
            Len(s) = Len(h) - k + 1 /\ \A i \in 1 .. Len(s) : s[i] = h[k - 1 + i]
      <4>1. s \in Seq(S)
        BY <1>2
      <4> QED
        BY <4>1, RestIs
    <3> HIDE DEF n
    <3> QED
      BY <3>1, <3>2, <3>3
  <2>4. h[n] = "."
    BY <1>1, <1>2, <2>2, <2>3
  <2>5. \A i \in 1 .. Len(d) : d[i] = h[(n + 1) - 1 + i]
    <3> TAKE i \in 1 .. Len(d)
    <3>1. i + 1 \in 1 .. Len(s) /\ n - 1 + (i + 1) = (n + 1) - 1 + i
      BY <1>1, <1>2, <2>2
    <3> QED
      BY <1>2, <2>3, <3>1
  <2>6. Len(d) = Len(h) - (n + 1) + 1
    BY <1>1
  <2>7. SubSeq(h, n + 1, Len(h)) = d
    BY <2>2, <2>5, <2>6, RestIs
  <2> QED
    BY <2>2, <2>4, <2>7 DEF Within, DomainAt
<1>4. ASSUME NEW k \in DOMAIN h, DomainAt(h, k, d) PROVE IsSuffix(s, h)
  <2>1. k \in 1 .. Len(h) /\ k + 1 \in 1 .. Len(h) + 1 /\ k \in 1 .. Len(h) + 1
    BY <1>1
  <2>2. h[k] = "." /\ SubSeq(h, k + 1, Len(h)) = d
    BY <1>4 DEF DomainAt
  <2>3. Len(d) = Len(h) - (k + 1) + 1 /\ \A i \in 1 .. Len(d) : d[i] = h[(k + 1) - 1 + i]
    <3>1. PICK m \in 1 .. Len(h) + 1 : m = k + 1
      BY <2>1
    <3>2. SubSeq(h, m, Len(h)) = d <=>
            Len(d) = Len(h) - m + 1 /\ \A i \in 1 .. Len(d) : d[i] = h[m - 1 + i]
      BY RestIs
    <3> QED
      BY <2>2, <3>1, <3>2
  <2>4. Len(s) = Len(h) - k + 1 /\ Len(s) <= Len(h) /\ Len(h) - Len(s) + 1 = k
    BY <1>1, <1>2, <2>1, <2>3
  <2>5. \A i \in 1 .. Len(s) : s[i] = h[k - 1 + i]
    <3> TAKE i \in 1 .. Len(s)
    <3>1. CASE i = 1
      BY <1>2, <2>1, <2>2, <3>1
    <3>2. CASE i # 1
      <4>1. i - 1 \in 1 .. Len(d) /\ (k + 1) - 1 + (i - 1) = k - 1 + i /\ (i - 1) + 1 = i
        BY <1>1, <1>2, <2>1, <3>2
      <4>2. s[(i - 1) + 1] = d[i - 1] /\ d[i - 1] = h[(k + 1) - 1 + (i - 1)]
        BY <1>2, <2>3, <4>1
      <4> QED
        BY <4>1, <4>2
    <3> QED
      BY <3>1, <3>2
  <2>6. SubSeq(h, k, Len(h)) = s
    BY <1>2, <2>1, <2>4, <2>5, RestIs
  <2> QED
    BY <1>2, <2>4, <2>6, SuffixIs
<1> QED
  BY <1>3, <1>4 DEF Within, s

\* What follows the star of a wildcard, and something before it.
LEMMA WildIs ==
  ASSUME NEW S, "." \in S, NEW p \in Seq(S), NEW h \in Seq(S), Wild(p)
  PROVE  IsStrictSuffix(Tail(p), h) <=>
           \E k \in 2 .. Len(h) : DomainAt(h, k, SubSeq(p, 3, Len(p)))
<1> DEFINE d == SubSeq(p, 3, Len(p))
           s == <<".">> \o d
<1>1. Len(p) \in Nat /\ Len(h) \in Nat /\ Len(p) >= 2 /\ p[2] = "."
  BY DEF Wild
<1>2. d \in Seq(S) /\ Len(d) = Len(p) - 2 /\ \A i \in 1 .. Len(p) - 2 : d[i] = p[i + 2]
  <2>1. 3 \in Int /\ Len(p) \in Int /\ \A i \in 3 .. Len(p) : p[i] \in S
    BY <1>1
  <2>2. /\ d \in Seq(S) /\ Len(d) = IF 3 <= Len(p) THEN Len(p) - 3 + 1 ELSE 0
        /\ \A i \in 1 .. Len(p) - 3 + 1 : d[i] = p[3 + i - 1]
    BY <2>1, SubSeqProperties
  <2> HIDE DEF d
  <2>3. Len(d) = Len(p) - 2 /\ Len(p) - 3 + 1 = Len(p) - 2
    <3>1. Len(d) = IF 3 <= Len(p) THEN Len(p) - 3 + 1 ELSE 0
      BY <2>2, Zenon
    <3>2. PICK n \in Nat : n = Len(p) /\ n >= 2
      BY <1>1
    <3>3. (IF 3 <= n THEN n - 3 + 1 ELSE 0) = n - 2 /\ n - 3 + 1 = n - 2
      BY <3>2
    <3> QED
      BY <3>1, <3>2, <3>3
  <2>4. ASSUME NEW i \in 1 .. Len(p) - 2 PROVE d[i] = p[i + 2]
    <3>1. i \in 1 .. Len(p) - 3 + 1 /\ 3 + i - 1 = i + 2
      BY <1>1
    <3> QED
      BY <2>2, <3>1
  <2> QED
    BY <2>2, <2>3, <2>4
<1> HIDE DEF d
<1>3. s \in Seq(S) /\ Len(s) = Len(d) + 1 /\ s[1] = "." /\ \A i \in 1 .. Len(d) : s[i + 1] = d[i]
  BY <1>2, DotBefore
<1> HIDE DEF s
<1>4. Tail(p) = s
  <2>1. /\ Tail(p) \in Seq(S) /\ Len(Tail(p)) = Len(p) - 1
        /\ \A i \in 1 .. Len(p) - 1 : Tail(p)[i] = p[i + 1]
    BY <1>1
  <2>2. Len(s) = Len(Tail(p))
    BY <1>1, <1>2, <1>3, <2>1
  <2>3. ASSUME NEW i \in 1 .. Len(s) PROVE s[i] = Tail(p)[i]
    <3>1. i \in 1 .. Len(p) - 1
      BY <2>1, <2>2
    <3>2. CASE i = 1
      BY <1>1, <1>3, <2>1, <3>1, <3>2
    <3>3. CASE i # 1
      <4>1. i - 1 \in 1 .. Len(d) /\ (i - 1) + 1 = i /\ (i - 1) + 2 = i + 1
        BY <1>1, <1>2, <1>3, <3>3
      <4>2. s[(i - 1) + 1] = d[i - 1] /\ d[i - 1] = p[(i - 1) + 2]
        BY <1>2, <1>3, <4>1
      <4> QED
        BY <2>1, <3>1, <4>1, <4>2
    <3> QED
      BY <3>2, <3>3
  <2> QED
    BY <1>3, <2>1, <2>2, <2>3, Elementwise
<1>5. IsSuffix(s, h) <=> Within(h, d)
  BY <1>2, BelowIs DEF s
<1>6. ASSUME NEW k \in DOMAIN h, DomainAt(h, k, d) PROVE Len(h) = Len(d) + k /\ k \in 1 .. Len(h)
  <2>1. k \in 1 .. Len(h)
    OBVIOUS
  <2>2. SubSeq(h, k + 1, Len(h)) = d
    BY <1>6 DEF DomainAt
  <2>3. PICK m \in 1 .. Len(h) + 1 : m = k + 1
    BY <1>1, <2>1
  <2>4. SubSeq(h, m, Len(h)) = d <=>
          Len(d) = Len(h) - m + 1 /\ \A i \in 1 .. Len(d) : d[i] = h[m - 1 + i]
    <3>1. PICK e \in Seq(S) : e = d
      BY <1>2
    <3>2. SubSeq(h, m, Len(h)) = e <=>
            Len(e) = Len(h) - m + 1 /\ \A i \in 1 .. Len(e) : e[i] = h[m - 1 + i]
      BY RestIs
    <3> QED
      BY <3>1, <3>2
  <2>5. Len(d) = Len(h) - m + 1
    BY <2>2, <2>3, <2>4
  <2> QED
    BY <1>1, <1>2, <2>1, <2>3, <2>5
<1>7. ASSUME NEW k \in 2 .. Len(h), DomainAt(h, k, d) PROVE IsSuffix(s, h) /\ s # h
  <2>1. k \in DOMAIN h
    BY <1>1
  <2>2. Len(h) = Len(d) + k
    BY <1>6, <1>7, <2>1
  <2> QED
    BY <1>1, <1>2, <1>3, <1>5, <1>7, <2>1, <2>2 DEF Within
<1>8. ASSUME IsSuffix(s, h), s # h PROVE \E k \in 2 .. Len(h) : DomainAt(h, k, d)
  <2>1. PICK k \in DOMAIN h : DomainAt(h, k, d)
    BY <1>5, <1>8 DEF Within
  <2>2. Len(h) = Len(d) + k /\ k \in 1 .. Len(h)
    BY <1>6, <2>1
  <2>3. CASE k = 1
    <3>1. Len(s) = Len(h)
      BY <1>2, <1>3, <2>2, <2>3
    <3>2. Len(s) <= Len(h) /\ SubSeq(h, Len(h) - Len(s) + 1, Len(h)) = s
      BY <1>3, <1>8, SuffixIs
    <3>3. SubSeq(h, 1, Len(h)) = h /\ Len(h) - Len(s) + 1 = 1
      BY <1>1, <3>1
    <3> QED
      BY <1>8, <3>2, <3>3
  <2> QED
    BY <1>1, <2>1, <2>2, <2>3
<1> QED
  BY <1>4, <1>7, <1>8 DEF IsStrictSuffix, d

\* The other ways in which a part of a host can be meant.
LEMMA PartIs ==
  ASSUME NEW S, NEW p \in Seq(S), NEW h \in Seq(S), p # <<>>
  PROVE  /\ IsPrefix(p, h) <=> \E k \in 1 .. Len(h) : SubSeq(h, 1, k) = p
         /\ IsSuffix(p, h) <=> \E k \in 1 .. Len(h) : SubSeq(h, k, Len(h)) = p
         /\ p \in SubSeqs(h) <=> \E j, k \in 1 .. Len(h) : j <= k /\ SubSeq(h, j, k) = p
<1>1. Len(p) \in Nat /\ Len(h) \in Nat /\ Len(p) > 0
  OBVIOUS
<1>2. \A j, k \in 1 .. Len(h) : j <= k => Len(SubSeq(h, j, k)) = k - j + 1
  OBVIOUS
<1>3. SubSeq(p, 1, Len(p)) = p
  OBVIOUS
<1>4. IsPrefix(p, h) <=> \E k \in 1 .. Len(h) : SubSeq(h, 1, k) = p
  <2>1. ASSUME IsPrefix(p, h) PROVE Len(p) \in 1 .. Len(h) /\ SubSeq(h, 1, Len(p)) = p
    BY <1>1, <1>3, <2>1 DEF IsPrefix
  <2>2. ASSUME NEW k \in 1 .. Len(h), SubSeq(h, 1, k) = p PROVE IsPrefix(p, h)
    <3>1. Len(p) = k
      BY <1>1, <1>2, <2>2
    <3> QED
      BY <1>1, <1>3, <2>2, <3>1 DEF IsPrefix
  <2> QED
    BY <2>1, <2>2
<1>5. IsSuffix(p, h) <=> \E k \in 1 .. Len(h) : SubSeq(h, k, Len(h)) = p
  <2>1. IsSuffix(p, h) <=> Len(p) <= Len(h) /\ SubSeq(h, Len(h) - Len(p) + 1, Len(h)) = p
    BY SuffixIs
  <2>2. ASSUME NEW k \in 1 .. Len(h), SubSeq(h, k, Len(h)) = p
        PROVE  Len(p) <= Len(h) /\ Len(h) - Len(p) + 1 = k
    BY <1>1, <1>2, <2>2
  <2>3. Len(p) <= Len(h) => Len(h) - Len(p) + 1 \in 1 .. Len(h)
    BY <1>1
  <2> QED
    BY <2>1, <2>2, <2>3
<1>6. p \in SubSeqs(h) <=> \E j, k \in 1 .. Len(h) : j <= k /\ SubSeq(h, j, k) = p
  <2>1. ASSUME NEW i \in 0 .. Len(h), NEW k \in 0 .. Len(h), p = SubSeq(h, i + 1, k)
        PROVE  i + 1 \in 1 .. Len(h) /\ k \in 1 .. Len(h) /\ i + 1 <= k
    <3>1. i + 1 <= k
      BY <1>1, <2>1
    <3> QED
      BY <1>1, <3>1
  <2>2. ASSUME NEW j \in 1 .. Len(h), NEW k \in 1 .. Len(h), j <= k, SubSeq(h, j, k) = p
        PROVE  \E i, m \in 0 .. Len(h) : p = SubSeq(h, i + 1, m)
    <3>1. j - 1 \in 0 .. Len(h) /\ k \in 0 .. Len(h) /\ (j - 1) + 1 = j
      BY <1>1
    <3>2. p = SubSeq(h, (j - 1) + 1, k)
      BY <2>2, <3>1
    <3> QED
      BY <3>1, <3>2
  <2>3. p \in SubSeqs(h) <=> \E i, m \in 0 .. Len(h) : p = SubSeq(h, i + 1, m)
    BY DEF SubSeqs
  <2> QED
    BY <2>1, <2>2, <2>3
<1> QED
  BY <1>4, <1>5, <1>6

\* matchHostWithMode meets the hosts that are meant.
LEMMA HostsAlike ==
  ASSUME NEW p, NEW h, IsSeq(p), IsSeq(h), NEW mode
  PROVE  matchHostWithMode(p, h, mode) <=> HostMeets(p, h, mode)
<1> DEFINE S == Range(p) \cup Range(h) \cup {"."}
           below == \E k \in 2 .. Len(h) : DomainAt(h, k, SubSeq(p, 3, Len(p)))
<1>1. p \in Seq(S) /\ h \in Seq(S) /\ "." \in S
  BY DEF IsSeq
<1> HIDE DEF S
<1>2. CASE p = <<>>
  BY <1>2 DEF matchHostWithMode, HostMeets
<1>3. CASE p # <<>>
  <2>1. /\ IsPrefix(p, h) <=> \E k \in 1 .. Len(h) : SubSeq(h, 1, k) = p
        /\ IsSuffix(p, h) <=> \E k \in 1 .. Len(h) : SubSeq(h, k, Len(h)) = p
        /\ p \in SubSeqs(h) <=> \E j, k \in 1 .. Len(h) : j <= k /\ SubSeq(h, j, k) = p
    BY <1>1, <1>3, PartIs
  <2>2. Wild(p) => (IsStrictSuffix(Tail(p), h) <=> below)
    BY <1>1, WildIs
  <2>3. /\ IsSuffix(<<".">> \o p, h) <=> Within(h, p)
        /\ IsSuffix(<<".">> \o h, p) <=> Within(p, h)
    BY <1>1, BelowIs
  <2>4. ASSUME p = h
        PROVE  /\ \E k \in 1 .. Len(h) : SubSeq(h, 1, k) = p
               /\ \E k \in 1 .. Len(h) : SubSeq(h, k, Len(h)) = p
               /\ \E j, k \in 1 .. Len(h) : j <= k /\ SubSeq(h, j, k) = p
    <3>1. PICK n \in 1 .. Len(h) : n = Len(h)
      BY <1>1, <1>3, <2>4
    <3>2. PICK m \in 1 .. Len(h) : m = 1
      BY <3>1
    <3>3. SubSeq(h, m, n) = p /\ m <= n
      BY <1>1, <2>4, <3>1, <3>2
    <3> QED
      BY <3>1, <3>2, <3>3, Zenon
  <2>5. p = h /\ Wild(p) => below
    <3> SUFFICES ASSUME p = h, Wild(p) PROVE below
      OBVIOUS
    <3>1. 2 \in 2 .. Len(h)
      BY <1>1 DEF Wild
    <3>2. DomainAt(h, 2, SubSeq(p, 3, Len(p)))
      BY DEF DomainAt, Wild
    <3> QED
      BY <3>1, <3>2
  <2> HIDE DEF below
  <2>6. matchWildcard(p, h) <=> IF Wild(p) THEN below ELSE p = h
    BY <2>2 DEF matchWildcard
  <2>7. CASE mode = "exact"
    BY <1>3, <2>7 DEF matchHostWithMode, HostMeets
  <2>8. CASE mode = "prefix"
    BY <1>3, <2>1, <2>4, <2>8 DEF matchHostWithMode, HostMeets
  <2>9. CASE mode = "suffix"
    BY <1>3, <2>1, <2>4, <2>9 DEF matchHostWithMode, HostMeets
  <2>10. CASE mode = "contains"
    BY <1>3, <2>1, <2>4, <2>10 DEF matchHostWithMode, HostMeets
  <2>11. CASE mode = "wildcard"
    BY <1>3, <2>5, <2>6, <2>11 DEF matchHostWithMode, HostMeets, below
  <2>12. CASE mode \notin {"exact", "prefix", "suffix", "contains", "wildcard"}
    BY <1>3, <2>3, <2>5, <2>6, <2>12 DEF matchHostWithMode, HostMeets, below
  <2> QED
    BY <2>7, <2>8, <2>9, <2>10, <2>11, <2>12
<1> QED
  BY <1>2, <1>3

-----------------------------------------------------------------------------
\* Objects of one chain of reads, of which no two are of one kind, are in one
\* cluster: only one of them can be in one of the two clusters alone.
LEMMA Together ==
  ASSUME OneChanges(Before, After), NEW S, S \subseteq Before \cup After,
         \A x, y \in S : x.kind = y.kind => x = y
  PROVE  \E c \in {Before, After} : S \subseteq c
<1> SUFFICES ASSUME ~(S \subseteq Before), ~(S \subseteq After) PROVE FALSE
  OBVIOUS
<1>1. PICK x \in S : x \in After \ Before
  OBVIOUS
<1>2. PICK y \in S : y \in Before \ After
  OBVIOUS
<1>3. Id(x) = Id(y)
  BY <1>1, <1>2 DEF OneChanges
<1>4. x.kind = y.kind
  BY <1>3 DEF Id
<1> QED
  BY <1>1, <1>2, <1>4

\* A read that brought something brought what one of the clusters has.
LEMMA ItemsAre ==
  ASSUME ReadingInv, NEW r
  PROVE  \/ Items(got, r) = {}
         \/ \E c \in {Before, After} : Items(got, r) = {o \in c : Asked(o, r)}
BY DEF ReadingInv, ReadsKept, Items, Lost, Fetch

\* A path begins with what was asked for.
LEMMA PathBegins ==
  ASSUME NEW a, NEW b, IsSeq(a), IsSeq(b)
  PROVE  IsPrefix(a, b) <=> \E k \in 0 .. Len(b) : a = SubSeq(b, 1, k)
<1> DEFINE P == Range(a) \cup Range(b)
<1>1. a \in Seq(P) /\ b \in Seq(P)
  BY DEF IsSeq
<1> HIDE DEF P
<1>2. SubSeq(a, 1, Len(a)) = a
  BY <1>1
<1>3. ASSUME NEW k \in 0 .. Len(b) PROVE Len(SubSeq(b, 1, k)) = k
  BY <1>1
<1>4. Len(a) \in Nat /\ Len(b) \in Nat
  BY <1>1
<1>5. IsPrefix(a, b) => a = SubSeq(b, 1, Len(a)) /\ Len(a) \in 0 .. Len(b)
  <2>1. IsPrefix(a, b) => Len(a) <= Len(b) /\ SubSeq(a, 1, Len(a)) = SubSeq(b, 1, Len(a))
    BY Zenon DEF IsPrefix
  <2> QED
    BY <1>2, <1>4, <2>1
<1>6. ASSUME NEW k \in 0 .. Len(b), a = SubSeq(b, 1, k) PROVE IsPrefix(a, b)
  <2>1. Len(a) = k
    BY <1>3, <1>6
  <2> QED
    BY <1>2, <1>6, <2>1 DEF IsPrefix
<1> QED
  BY <1>5, <1>6, Zenon

\* What the assumptions say of the call at hand.
LEMMA TraceSetting ==
  ASSUME ReadingInv, req.tool \in TracingTools
  PROVE  /\ OneChanges(Before, After)
         /\ \A c \in {Before, After} :
              /\ \A s \in Of(c, "Service") : Named(s.ns) /\ Named(s.name)
              /\ IsSeq(req.path) /\ IsSeq(req.host)
              /\ \A i \in Of(c, "Ingress") : \A p \in i.paths : IsSeq(p.path) /\ IsSeq(p.host)
              /\ \A w \in c : w.kind \in {"Deployment", "StatefulSet", "DaemonSet"} =>
                              w.selector \subseteq w.template
<1>1. OneChanges(Before, After) /\ \A c \in {Before, After} : Traceable(req, c)
  <2>1. scene \in Scenes /\ scene.request.tool \in TracingTools
    BY DEF ReadingInv, req
  <2>2. /\ OneChanges(View(scene, scene.before), View(scene, scene.after))
        /\ \A c \in {scene.before, scene.after} : Traceable(scene.request, View(scene, c))
    BY <2>1, TracesAssumption, Zenon DEF TracesAssumption
  <2> QED
    BY <2>2, Zenon DEF Before, After, req
<1>2. \A c : Traceable(req, c) =>
        /\ \A s \in Of(c, "Service") : Named(s.ns) /\ Named(s.name)
        /\ IsSeq(req.path) /\ IsSeq(req.host)
        /\ \A i \in Of(c, "Ingress") : \A p \in i.paths : IsSeq(p.path) /\ IsSeq(p.host)
        /\ \A w \in c : w.kind \in Range(WorkloadKinds) => w.selector \subseteq w.template
  BY Zenon DEF Traceable, Named, IsSeq
<1>3. Range(WorkloadKinds) = {"Deployment", "StatefulSet", "DaemonSet"}
  BY DEF Range, WorkloadKinds
<1> QED
  BY <1>1, <1>2, <1>3, Zenon

\* What the host tools match is what is meant.
LEMMA MatchedIsMeant ==
  ASSUME ReadingInv, req.tool \in HostTools,
         NEW c \in {Before, After}, NEW i \in Of(c, "Ingress"), NEW p
  PROVE  p \in PathsWanted(req, i) <=> p \in Matched(req, i) /\ Named(p.service)
<1> DEFINE meets == HostMeets(p.host, req.host, req.mode)
           begins == \E k \in 0 .. Len(p.path) : req.path = SubSeq(p.path, 1, k)
<1>1. p \in i.paths => (matchHostWithMode(p.host, req.host, req.mode) <=> meets)
  <2>1. p \in i.paths => IsSeq(p.host) /\ IsSeq(req.host)
    BY TraceSetting DEF TracingTools
  <2> QED
    BY <2>1, HostsAlike
<1>2. p \in i.paths => (IsPrefix(req.path, p.path) <=> begins)
  BY TraceSetting, PathBegins DEF TracingTools
<1>3. req.tool # "get_ingresses"
  BY DEF HostTools
<1>4. p \in PathsWanted(req, i) <=> p \in i.paths /\ meets /\ begins /\ Named(p.service)
  BY <1>3, Zenon DEF PathsWanted, Named
<1>5. p \in Matched(req, i) <=>
        /\ p \in i.paths
        /\ matchHostWithMode(p.host, req.host, req.mode)
        /\ IsPrefix(req.path, p.path)
  BY Zenon DEF Matched
<1> QED
  BY <1>1, <1>2, <1>4, <1>5, Zenon

\* The keys of the host tools.
LEMMA HostKeys ==
  ASSUME req.tool \in HostTools, NEW k
  PROVE  k \in ServiceKeys(req, got) <=>
           \E i \in Items(got, TraceFirst(req)) : \E p \in Matched(req, i) :
             Named(p.service) /\ k = <<i.ns, p.service>>
<1>1. req.tool \notin NodePortTools /\ req.tool # "find_workload_by_service"
  BY DEF HostTools, NodePortTools
<1>2. ServiceKeys(req, got) = matchedSvcKeys(req, Items(got, TraceFirst(req)))
  BY <1>1 DEF ServiceKeys
<1>3. matchedSvcKeys(req, Items(got, TraceFirst(req))) =
        UNION {{<<i.ns, p.service>> : p \in {q \in Matched(req, i) : Named(q.service)}} :
                 i \in Items(got, TraceFirst(req))}
  BY Zenon DEF matchedSvcKeys, Named
<1> QED
  BY <1>2, <1>3

LEMMA OtherKeys ==
  ASSUME req.tool \in TracingTools \ HostTools, NEW k
  PROVE  k \in ServiceKeys(req, got) <=>
           /\ req.tool # "get_ingresses"
           /\ \E s \in Items(got, TraceFirst(req)) :
                /\ k = <<s.ns, s.name>>
                /\ req.tool \in NodePortTools => req.nodePort \in s.nodePorts
<1>1. CASE req.tool \in NodePortTools
  <2>1. req.tool # "get_ingresses"
    BY <1>1 DEF NodePortTools
  <2>2. ServiceKeys(req, got) =
          {<<s.ns, s.name>> : s \in {t \in Items(got, TraceFirst(req)) : req.nodePort \in t.nodePorts}}
    BY <1>1 DEF ServiceKeys, NodePortTools, HostTools
  <2> QED
    BY <1>1, <2>1, <2>2
<1>2. CASE req.tool = "get_ingresses"
  BY <1>2 DEF ServiceKeys, NodePortTools, HostTools
<1>3. CASE req.tool = "find_workload_by_service"
  <2>1. ServiceKeys(req, got) = {<<s.ns, s.name>> : s \in Items(got, TraceFirst(req))}
    BY <1>3 DEF ServiceKeys, NodePortTools, HostTools
  <2>2. req.tool \notin NodePortTools
    BY <1>3 DEF NodePortTools
  <2> QED
    BY <1>3, <2>1, <2>2
<1> QED
  BY <1>1, <1>2, <1>3 DEF TracingTools

-----------------------------------------------------------------------------
\* What the first read brings is what is meant.
LEMMA IngressesAsked ==
  ASSUME ~TraceRefused(req), req.tool \in HostTools \cup {"get_ingresses"}, NEW c, NEW i \in c
  PROVE  i \in IngressesWanted(req, c) <=> Asked(i, TraceFirst(req))
<1>1. i \in IngressesWanted(req, c) <=>
        /\ i.kind = "Ingress" /\ i.ns = Defaulted(req)
        /\ req.tool = "get_ingresses" => req.name \in {"", i.name} /\ req.selector \subseteq i.labels
  BY Zenon DEF IngressesWanted, Of
<1>2. req.tool \in HostTools => req.tool # "get_ingresses"
  BY DEF HostTools
<1>3. req.tool \in HostTools \/ req.tool = "get_ingresses"
  OBVIOUS
<1> QED
  BY <1>1, <1>2, <1>3, FirstAsks, Zenon

LEMMA ServicesAsked ==
  ASSUME ~TraceRefused(req), req.tool \in NodePortTools \cup {"find_workload_by_service"},
         NEW c, NEW s \in c
  PROVE  s \in ServicesWanted(req, c) <=>
           Asked(s, TraceFirst(req)) /\ (req.tool \in NodePortTools => req.nodePort \in s.nodePorts)
<1>1. CASE req.tool \in NodePortTools
  <2>1. req.tool \notin HostTools /\ req.tool # "find_workload_by_service"
    BY <1>1 DEF NodePortTools, HostTools
  <2>2. s \in ServicesWanted(req, c) <=>
          s.kind = "Service" /\ req.ns \in {"", s.ns} /\ req.nodePort \in s.nodePorts
    BY <1>1, <2>1, Zenon DEF ServicesWanted, Of
  <2>3. Asked(s, TraceFirst(req)) <=> s.kind = "Service" /\ req.ns \in {"", s.ns}
    BY <1>1, FirstAsks, Zenon
  <2> QED
    BY <1>1, <2>2, <2>3, Zenon
<1>2. CASE req.tool = "find_workload_by_service"
  <2>1. req.tool \notin NodePortTools /\ req.tool \notin HostTools
    BY <1>2 DEF NodePortTools, HostTools
  <2>2. s \in ServicesWanted(req, c) <=>
          s.kind = "Service" /\ s.ns = Defaulted(req) /\ s.name = req.name
    BY <1>2, <2>1, Zenon DEF ServicesWanted, Of
  <2>3. Asked(s, TraceFirst(req)) <=> s.kind = "Service" /\ s.ns = Defaulted(req) /\ s.name = req.name
    BY <1>2, FirstAsks, Zenon
  <2> QED
    BY <2>1, <2>2, <2>3, Zenon
<1> QED
  BY <1>1, <1>2

LEMMA HostServices ==
  ASSUME req.tool \in HostTools, NEW c, NEW s
  PROVE  s \in ServicesWanted(req, c) <=>
           /\ s \in Of(c, "Service")
           /\ \E i \in IngressesWanted(req, c) :
                i.ns = s.ns /\ \E p \in PathsWanted(req, i) : p.service = s.name
<1>1. req.tool \notin NodePortTools /\ req.tool # "find_workload_by_service"
  BY DEF NodePortTools, HostTools
<1> QED
  BY <1>1, Zenon DEF ServicesWanted

LEMMA KeysAreNamed ==
  ASSUME ReadingInv, req.tool \in TracingTools, ~TraceRefused(req), NEW k \in ServiceKeys(req, got)
  PROVE  Named(k[1]) /\ Named(k[2])
<1>1. ASSUME NEW o \in Items(got, TraceFirst(req))
      PROVE  \E c \in {Before, After} : o \in c /\ Asked(o, TraceFirst(req))
  BY ItemsAre
<1>2. CASE req.tool \in HostTools
  <2>1. PICK i \in Items(got, TraceFirst(req)) : \E p \in Matched(req, i) :
          Named(p.service) /\ k = <<i.ns, p.service>>
    BY <1>2, HostKeys
  <2>2. Asked(i, TraceFirst(req))
    BY <1>1
  <2>3. i.ns = Defaulted(req)
    BY <1>2, <2>2, FirstAsks, Zenon
  <2>4. Named(Defaulted(req))
    BY ScenesAssumption DEF ScenesAssumption, Named, Defaulted
  <2> QED
    BY <2>1, <2>3, <2>4
<1>3. CASE req.tool \notin HostTools
  <2>1. PICK s \in Items(got, TraceFirst(req)) : k = <<s.ns, s.name>>
    BY <1>3, OtherKeys
  <2>2. PICK c \in {Before, After} : s \in c /\ Asked(s, TraceFirst(req))
    BY <1>1
  <2>3. req.tool \in NodePortTools \/ req.tool = "find_workload_by_service"
    BY <1>3, OtherKeys DEF TracingTools
  <2>4. s.kind = "Service"
    BY <2>2, <2>3, FirstAsks, Zenon
  <2>5. s \in Of(c, "Service")
    BY <2>2, <2>4 DEF Of
  <2> QED
    BY <2>1, <2>5, TraceSetting
<1> QED
  BY <1>2, <1>3

\* The Service found for a key is one that is wanted, in a cluster that has what
\* else was found for it.
LEMMA FoundIsWanted ==
  ASSUME ReadingInv, req.tool \in TracingTools, ~TraceRefused(req),
         NEW k \in ServiceKeys(req, got), NEW s \in ServiceObject(req, got, k),
         NEW X, X \subseteq Before \cup After,
         \A x \in X : x.kind # "Service" /\ x.kind # "Ingress", \A x, y \in X : x = y
  PROVE  /\ s.kind = "Service" /\ k = <<s.ns, s.name>>
         /\ \E c \in {Before, After} : X \subseteq c /\ s \in ServicesWanted(req, c)
<1>1. k = <<s.ns, s.name>>
  BY DEF ServiceObject
<1>2. CASE req.tool \in HostTools
  <2>1. PICK i \in Items(got, TraceFirst(req)) : \E p \in Matched(req, i) :
          Named(p.service) /\ k = <<i.ns, p.service>>
    BY <1>2, HostKeys
  <2>2. PICK p \in Matched(req, i) : Named(p.service) /\ k = <<i.ns, p.service>>
    BY <2>1
  <2>3. /\ i \in Before \cup After
        /\ Asked(i, TraceFirst(req))
    BY ItemsAre
  <2>4. s \in Items(got, ServiceGet(k))
    BY <1>2 DEF ServiceObject
  <2>5. s \in Before \cup After /\ Asked(s, ServiceGet(k))
    BY <2>4, ItemsAre
  <2>6. s.kind = "Service"
    BY <2>5, KeyAsks, KeysAreNamed, Zenon
  <2>7. i.kind = "Ingress"
    BY <1>2, <2>3, FirstAsks, Zenon
  <2> DEFINE S == X \cup {i, s}
  <2>8. \A x, y \in S : x.kind = y.kind => x = y
    BY <2>6, <2>7
  <2>9. S \subseteq Before \cup After
    BY <2>3, <2>5
  <2>10. PICK c \in {Before, After} : S \subseteq c
    <3> HIDE DEF S
    <3> QED
      BY <2>8, <2>9, Together, TraceSetting
  <2>11. i \in IngressesWanted(req, c)
    <3>1. i \in c
      BY <2>10
    <3> QED
      BY <1>2, <2>3, <3>1, IngressesAsked
  <2>12. p \in PathsWanted(req, i)
    <3>1. i \in Of(c, "Ingress")
      BY <2>7, <2>10 DEF Of
    <3> QED
      BY <1>2, <2>2, <3>1, MatchedIsMeant
  <2>13. s \in Of(c, "Service")
    BY <2>6, <2>10 DEF Of
  <2>14. s.ns = i.ns /\ s.name = p.service
    BY <1>1, <2>2
  <2>15. s \in ServicesWanted(req, c)
    BY <1>2, <2>11, <2>12, <2>13, <2>14, HostServices
  <2> QED
    BY <1>1, <2>6, <2>10, <2>15
<1>3. CASE req.tool \notin HostTools
  <2>1. /\ req.tool # "get_ingresses"
        /\ \E t \in Items(got, TraceFirst(req)) :
             k = <<t.ns, t.name>> /\ (req.tool \in NodePortTools => req.nodePort \in t.nodePorts)
    BY <1>3, OtherKeys
  <2>2. req.tool \in NodePortTools \cup {"find_workload_by_service"}
    BY <1>3, <2>1 DEF TracingTools
  <2>3. PICK t \in Items(got, TraceFirst(req)) :
          k = <<t.ns, t.name>> /\ (req.tool \in NodePortTools => req.nodePort \in t.nodePorts)
    BY <2>1
  <2>4. s \in Items(got, TraceFirst(req))
    BY <1>3 DEF ServiceObject
  <2>5. PICK d \in {Before, After} :
          Items(got, TraceFirst(req)) = {o \in d : Asked(o, TraceFirst(req))}
    BY <2>4, ItemsAre
  <2>6. \A o \in {s, t} : o \in d /\ Asked(o, TraceFirst(req))
    BY <2>3, <2>4, <2>5
  <2>7. s.kind = "Service" /\ t.kind = "Service"
    BY <2>2, <2>6, FirstAsks, Zenon
  <2>8. s = t
    <3>1. Id(s) = Id(t)
      BY <1>1, <2>3, <2>7 DEF Id
    <3> QED
      BY <2>6, <3>1, TraceSetting DEF OneChanges
  <2> DEFINE S == X \cup {s}
  <2>9. PICK c \in {Before, After} : S \subseteq c
    <3>1. \A x, y \in S : x.kind = y.kind => x = y
      BY <2>7
    <3>2. S \subseteq Before \cup After
      BY <2>6
    <3> HIDE DEF S
    <3> QED
      BY <3>1, <3>2, Together, TraceSetting
  <2>10. s \in ServicesWanted(req, c)
    BY <2>2, <2>3, <2>6, <2>8, <2>9, ServicesAsked
  <2> QED
    BY <1>1, <2>7, <2>9, <2>10
<1> QED
  BY <1>2, <1>3

-----------------------------------------------------------------------------
\* The facts of one cluster, one kind at a time.
LEMMA MayTell ==
  ASSUME NEW c
  PROVE  /\ \A i \in IngressesWanted(req, c) : \A p \in PathsWanted(req, i) :
              req.tool \in {"get_ingresses", "trace_by_host"} =>
                Fact("route", Id(i), <<p.host, p.path, p.service>>) \in TraceMay(req, c)
         /\ \A s \in ServicesWanted(req, c) :
              /\ Fact("service", Id(s), <<s.nodePorts>>) \in TraceMay(req, c)
              /\ WantsEndpoints(req) =>
                   \A e \in c : \A a \in e.addresses :
                     Serves(e, s) => Fact("endpoint", Id(s), a) \in TraceMay(req, c)
              /\ WantsWorkloads(req) =>
                   \A w \in c :
                     Backs(w, s, w.template) => Fact("workload", Id(s), <<Id(w), w.replicas>>) \in TraceMay(req, c)
<1> DEFINE routes(i) == {Fact("route", Id(i), <<p.host, p.path, p.service>>) : p \in PathsWanted(req, i)}
           routing == IF req.tool \in {"get_ingresses", "trace_by_host"} THEN IngressesWanted(req, c) ELSE {}
           serves(s) == UNION {{Fact("endpoint", Id(s), a) : a \in e.addresses} :
                                 e \in {d \in c : Serves(d, s)}}
           backs(s) == {Fact("workload", Id(s), <<Id(w), w.replicas>>) : w \in {v \in c : Backs(v, s, v.template)}}
           about(s) == ({Fact("service", Id(s), <<s.nodePorts>>)}
                       \cup (IF WantsEndpoints(req) THEN serves(s) ELSE {}))
                      \cup (IF WantsWorkloads(req) THEN backs(s) ELSE {})
<1>1. TraceMay(req, c) = (UNION {routes(i) : i \in routing}) \cup (UNION {about(s) : s \in ServicesWanted(req, c)})
  BY Zenon DEF TraceMay, TraceOf
<1>2. \A i \in routing : routes(i) \subseteq TraceMay(req, c)
  <2> HIDE DEF routes, routing, about
  <2> QED
    BY <1>1
<1>3. \A s \in ServicesWanted(req, c) : about(s) \subseteq TraceMay(req, c)
  <2> HIDE DEF routes, routing, about
  <2> QED
    BY <1>1
<1>4. \A i \in IngressesWanted(req, c) : \A p \in PathsWanted(req, i) :
        req.tool \in {"get_ingresses", "trace_by_host"} =>
          Fact("route", Id(i), <<p.host, p.path, p.service>>) \in TraceMay(req, c)
  BY <1>2
<1>5. ASSUME NEW s \in ServicesWanted(req, c)
      PROVE  /\ Fact("service", Id(s), <<s.nodePorts>>) \in about(s)
             /\ WantsEndpoints(req) => serves(s) \subseteq about(s)
             /\ WantsWorkloads(req) => backs(s) \subseteq about(s)
  <2> HIDE DEF serves, backs
  <2> QED
    OBVIOUS
<1>6. \A s : \A e \in c : \A a \in e.addresses : Serves(e, s) => Fact("endpoint", Id(s), a) \in serves(s)
  OBVIOUS
<1>7. \A s : \A w \in c : Backs(w, s, w.template) => Fact("workload", Id(s), <<Id(w), w.replicas>>) \in backs(s)
  OBVIOUS
<1> HIDE DEF routes, routing, about, serves, backs
<1> QED
  BY <1>3, <1>4, <1>5, <1>6, <1>7

\* Why something was read for a key.
LEMMA ReadForReason ==
  ASSUME TraceKept, req.tool \in TracingTools, NEW k
  PROVE  /\ SlicesList(k) \in DOMAIN got \/ EndpointsGet(k) \in DOMAIN got =>
              ServiceObject(req, got, k) # {} /\ WantsEndpoints(req)
         /\ \A i \in 1 .. 3 : WorkloadLists(k)[i] \in DOMAIN got => WantsWorkloads(req)
<1>1. \A j : /\ SlicesList(j).kind = "EndpointSlice" /\ SlicesList(j).owner = j
             /\ EndpointsGet(j).kind = "Endpoints" /\ EndpointsGet(j).owner = j
             /\ ServiceGet(j).kind = "Service"
  BY DEF SlicesList, EndpointsGet, ServiceGet, Get, For, Request
<1>2. \A j : \A i \in 1 .. 3 : WorkloadLists(j)[i].kind \in {"Deployment", "StatefulSet", "DaemonSet"}
  <2>1. \A i \in 1 .. 3 : WorkloadKinds[i] \in {"Deployment", "StatefulSet", "DaemonSet"}
    BY DEF WorkloadKinds
  <2>2. \A j : \A i \in 1 .. 3 : WorkloadLists(j)[i].kind = WorkloadKinds[i]
    BY DEF WorkloadLists, List, For, Request
  <2> QED
    BY <2>1, <2>2
<1>3. TraceFirst(req).kind \in {"Service", "Ingress"}
  <2> DEFINE any == ""
  <2>1. \/ \E op : TraceFirst(req) = Request(op, "Service", req.ns, any, {}, <<>>)
        \/ TraceFirst(req) = Request("list", "Ingress", Defaulted(req), any, {}, <<>>)
        \/ TraceFirst(req) = Request("list", "Ingress", Defaulted(req), req.name, req.selector, <<>>)
        \/ TraceFirst(req) = Request("get", "Service", Defaulted(req), req.name, {}, <<>>)
    BY FirstIs, Zenon DEF TracingTools
  <2> HIDE DEF any
  <2> QED
    BY <2>1 DEF Request
<1>4. \A j : \A r \in Range(WorkloadLists(j)) : \E i \in 1 .. 3 : r = WorkloadLists(j)[i]
  <2>1. \A j : DOMAIN WorkloadLists(j) = 1 .. 3
    BY DEF WorkloadLists
  <2> QED
    BY <2>1, Zenon DEF Range
<1>5. \A j : \A r \in Range(WorkloadLists(j)) : r.kind \in {"Deployment", "StatefulSet", "DaemonSet"}
  BY <1>2, <1>4
<1>6. ASSUME NEW r \in {SlicesList(k), EndpointsGet(k)}, r \in DOMAIN got
      PROVE  ServiceObject(req, got, k) # {} /\ WantsEndpoints(req)
  <2>1. r.kind \in {"EndpointSlice", "Endpoints"} /\ r.owner = k
    BY <1>1, <1>6
  <2>2. r # TraceFirst(req)
    BY <1>3, <2>1
  <2>3. PICK j \in ServiceKeys(req, got) :
          \/ r = ServiceGet(j)
          \/ /\ ServiceObject(req, got, j) # {}
             /\ \/ WantsEndpoints(req) /\ r \in {SlicesList(j), EndpointsGet(j)}
                \/ r \in Range(WorkloadLists(j))
    BY <1>6, <2>2, Zenon DEF TraceKept
  <2>4. r # ServiceGet(j) /\ r \notin Range(WorkloadLists(j))
    BY <1>1, <1>5, <2>1
  <2>5. j = k
    BY <1>1, <2>1, <2>3, <2>4
  <2> QED
    BY <2>3, <2>4, <2>5
<1>7. ASSUME NEW i \in 1 .. 3, WorkloadLists(k)[i] \in DOMAIN got PROVE WantsWorkloads(req)
  <2> DEFINE r == WorkloadLists(k)[i]
  <2>1. r.kind \in {"Deployment", "StatefulSet", "DaemonSet"}
    BY <1>2
  <2> HIDE DEF r
  <2>2. r # TraceFirst(req)
    BY <1>3, <2>1
  <2>3. r \in DOMAIN got
    BY <1>7 DEF r
  <2>4. PICK j \in ServiceKeys(req, got) :
          \/ r = ServiceGet(j)
          \/ r \in {SlicesList(j), EndpointsGet(j)}
          \/ WantsWorkloads(req) /\ r \in Range(WorkloadLists(j))
    BY <2>2, <2>3, Zenon DEF TraceKept
  <2>5. r # ServiceGet(j) /\ r \notin {SlicesList(j), EndpointsGet(j)}
    BY <1>1, <2>1
  <2> QED
    BY <2>4, <2>5
<1> QED
  BY <1>6, <1>7

LEMMA RoutesAreMeant ==
  ASSUME ReadingInv, req.tool \in TracingTools,
         NEW c \in {Before, After}, NEW i \in Of(c, "Ingress"), NEW p
  PROVE  p \in Routes(req, i) <=>
           req.tool \in {"get_ingresses", "trace_by_host"} /\ p \in PathsWanted(req, i)
<1>1. CASE req.tool = "get_ingresses"
  BY <1>1, Zenon DEF Routes, PathsWanted
<1>2. CASE req.tool = "trace_by_host"
  <2>1. req.tool \in HostTools /\ req.tool # "get_ingresses"
    BY <1>2 DEF HostTools
  <2>2. p \in Routes(req, i) <=> p \in Matched(req, i) /\ Named(p.service)
    BY <1>2, <2>1, Zenon DEF Routes, Named
  <2> QED
    BY <1>2, <2>1, <2>2, MatchedIsMeant
<1>3. CASE req.tool \notin {"get_ingresses", "trace_by_host"}
  BY <1>3, Zenon DEF Routes
<1> QED
  BY <1>1, <1>2, <1>3

\* What is found for a key was so in one of the clusters.
LEMMA ServiceFactsWere ==
  ASSUME ReadingInv, TraceKept, req.tool \in TracingTools, ~TraceRefused(req),
         NEW k \in ServiceKeys(req, got)
  PROVE  ServiceFacts(req, got, k) \subseteq TraceMay(req, Before) \cup TraceMay(req, After)
<1> DEFINE may == TraceMay(req, Before) \cup TraceMay(req, After)
           id == <<"Service", k[1], k[2]>>
           found == ServiceObject(req, got, k)
           slices == Items(got, SlicesList(k))
           endpoints == IF slices # {} THEN slices ELSE Items(got, EndpointsGet(k))
           workloads == UNION {Items(got, WorkloadLists(k)[i]) : i \in 1 .. 3}
           told == {Fact("service", id, <<s.nodePorts>>) : s \in found}
           reached == UNION {{Fact("endpoint", id, a) : a \in e.addresses} : e \in endpoints}
           backed == {Fact("workload", id, <<Id(w), w.replicas>>) :
                        w \in {v \in workloads : \E s \in found : matchSelector(v.selector, s.selector)}}
<1>1. ServiceFacts(req, got, k) = (told \cup reached) \cup backed
  BY DEF ServiceFacts
<1>2. Named(k[1]) /\ Named(k[2])
  BY KeysAreNamed
<1>3. ASSUME NEW s \in found
      PROVE  /\ s.kind = "Service" /\ k = <<s.ns, s.name>> /\ id = Id(s)
             /\ \E c \in {Before, After} : s \in ServicesWanted(req, c)
  <2> DEFINE X == {}
  <2>1. X \subseteq Before \cup After /\ \A x \in X : FALSE
    OBVIOUS
  <2> HIDE DEF X
  <2> QED
    BY <1>3, <2>1, FoundIsWanted DEF Id
<1>4. ASSUME NEW s \in found PROVE Fact("service", id, <<s.nodePorts>>) \in may
  <2>1. PICK c \in {Before, After} : s \in ServicesWanted(req, c)
    BY <1>3, <1>4
  <2> QED
    BY <1>3, <2>1, MayTell
<1>5. ASSUME NEW s \in found, NEW x \in Before \cup After,
             x.kind # "Service", x.kind # "Ingress"
      PROVE  \E c \in {Before, After} : x \in c /\ s \in ServicesWanted(req, c)
  <2>1. \E c \in {Before, After} : {x} \subseteq c /\ s \in ServicesWanted(req, c)
    <3> DEFINE X == {x}
    <3>1. /\ X \subseteq Before \cup After
          /\ \A y \in X : y.kind # "Service" /\ y.kind # "Ingress"
          /\ \A y, z \in X : y = z
      BY <1>5
    <3> HIDE DEF X
    <3>2. \E c \in {Before, After} : X \subseteq c /\ s \in ServicesWanted(req, c)
      BY <3>1, FoundIsWanted
    <3> QED
      BY <3>2 DEF X
  <2> QED
    BY <2>1
<1>6. ASSUME NEW e \in endpoints, NEW a \in e.addresses PROVE Fact("endpoint", id, a) \in may
  <2>1. e \in Items(got, SlicesList(k)) \/ e \in Items(got, EndpointsGet(k))
    OBVIOUS
  <2>2. found # {} /\ WantsEndpoints(req)
    <3>1. SlicesList(k) \in DOMAIN got \/ EndpointsGet(k) \in DOMAIN got
      BY <2>1 DEF Items
    <3> QED
      BY <3>1, ReadForReason
  <2>3. PICK s \in found : TRUE
    BY <2>2
  <2>4. e \in Before \cup After /\ (Asked(e, SlicesList(k)) \/ Asked(e, EndpointsGet(k)))
    BY <2>1, ItemsAre
  <2>5. \/ e.kind = "EndpointSlice" /\ e.ns = k[1] /\ <<"service", k[2]>> \in e.labels
        \/ e.kind = "Endpoints" /\ e.ns = k[1] /\ e.name = k[2]
    BY <1>2, <2>4, KeyAsks
  <2>6. Serves(e, s)
    BY <1>3, <2>5 DEF Serves
  <2>7. PICK c \in {Before, After} : e \in c /\ s \in ServicesWanted(req, c)
    BY <1>5, <2>4, <2>5
  <2> QED
    BY <1>3, <1>6, <2>2, <2>6, <2>7, MayTell
<1>7. ASSUME NEW w \in workloads, NEW s \in found, matchSelector(w.selector, s.selector)
      PROVE  Fact("workload", id, <<Id(w), w.replicas>>) \in may
  <2>1. PICK i \in 1 .. 3 : w \in Items(got, WorkloadLists(k)[i])
    OBVIOUS
  <2>2. WantsWorkloads(req)
    <3>1. WorkloadLists(k)[i] \in DOMAIN got
      BY <2>1 DEF Items
    <3> QED
      BY <3>1, ReadForReason
  <2>3. w \in Before \cup After /\ Asked(w, WorkloadLists(k)[i])
    BY <2>1, ItemsAre
  <2>4. w.kind = WorkloadKinds[i] /\ w.ns = k[1]
    BY <1>2, <2>3, WorkloadsAsk
  <2>5. w.kind \in {"Deployment", "StatefulSet", "DaemonSet"}
    BY <2>4 DEF WorkloadKinds
  <2>6. Backs(w, s, w.template)
    <3>1. w.selector \subseteq w.template
      BY <2>3, <2>5, TraceSetting
    <3> QED
      BY <1>3, <1>7, <2>4, <2>5, <3>1 DEF Backs, matchSelector
  <2>7. PICK c \in {Before, After} : w \in c /\ s \in ServicesWanted(req, c)
    BY <1>5, <2>3, <2>5
  <2> QED
    BY <1>3, <2>2, <2>6, <2>7, MayTell
<1>8. told \subseteq may
  BY <1>4
<1>9. reached \subseteq may
  BY <1>6
<1>10. backed \subseteq may
  BY <1>7
<1> HIDE DEF told, reached, backed, may
<1> QED
  BY <1>1, <1>8, <1>9, <1>10 DEF may

LEMMA TraceTellsWhatWas ==
  ASSUME ReadingInv, TraceKept, req.tool \in TracingTools
  PROVE  TellsOnlyWhatWas
<1> SUFFICES ASSUME Answered("ok")
             PROVE  answer.told \ Misled \subseteq May(req, Before) \cup May(req, After)
  BY DEF TellsOnlyWhatWas
<1>1. Answers = {TraceFacts(req, got)} /\ (Refused <=> TraceRefused(req))
  BY TraceIsNoOther DEF Answers, Refused
<1>2. answer.told = TraceFacts(req, got) /\ ~TraceRefused(req)
  BY <1>1 DEF ReadingInv, AnswerKept
<1>3. \A c : May(req, c) = TraceMay(req, c)
  BY TraceIsNoOther DEF May, InspectionTools, Accounts, IsPreview
<1> DEFINE may == TraceMay(req, Before) \cup TraceMay(req, After)
           first == {j \in Items(got, TraceFirst(req)) : j.kind = "Ingress"}
           routes(i) == {Fact("route", Id(i), <<p.host, p.path, p.service>>) : p \in Routes(req, i)}
<1>4. ASSUME NEW i \in first PROVE routes(i) \subseteq may
  <2>1. PICK c \in {Before, After} :
          Items(got, TraceFirst(req)) = {o \in c : Asked(o, TraceFirst(req))}
    BY ItemsAre
  <2>2. i \in c /\ Asked(i, TraceFirst(req)) /\ i.kind = "Ingress"
    BY <2>1
  <2>3. i \in Of(c, "Ingress")
    BY <2>2 DEF Of
  <2>4. ASSUME NEW p \in Routes(req, i)
        PROVE  Fact("route", Id(i), <<p.host, p.path, p.service>>) \in may
    <3>1. req.tool \in {"get_ingresses", "trace_by_host"} /\ p \in PathsWanted(req, i)
      BY <2>3, <2>4, RoutesAreMeant
    <3>2. req.tool \in HostTools \cup {"get_ingresses"}
      BY <3>1 DEF HostTools
    <3>3. i \in IngressesWanted(req, c)
      BY <1>2, <2>2, <3>2, IngressesAsked
    <3> QED
      BY <3>1, <3>3, MayTell
  <2> QED
    BY <2>4
<1>5. \A k \in ServiceKeys(req, got) : ServiceFacts(req, got, k) \subseteq may
  BY <1>2, ServiceFactsWere
<1>6. TraceFacts(req, got) =
        (UNION {routes(i) : i \in first}) \cup (UNION {ServiceFacts(req, got, k) : k \in ServiceKeys(req, got)})
  BY Zenon DEF TraceFacts
<1>7. TraceFacts(req, got) \subseteq may
  <2> HIDE DEF routes, first, may
  <2> QED
    BY <1>4, <1>5, <1>6
<1> QED
  BY <1>2, <1>3, <1>7

-----------------------------------------------------------------------------
\* What is wanted is of one kind or another.
RouteWanted(f, c) ==
  \E i \in IngressesWanted(req, c) : \E p \in PathsWanted(req, i) :
    /\ req.tool \in {"get_ingresses", "trace_by_host"}
    /\ f = Fact("route", Id(i), <<p.host, p.path, p.service>>)

ServiceWanted(f, c) ==
  \E s \in ServicesWanted(req, c) : f = Fact("service", Id(s), <<s.nodePorts>>)

EndpointWanted(f, c) ==
  /\ WantsEndpoints(req)
  /\ \E s \in ServicesWanted(req, c) : \E e \in Endpoints(c, s) : \E a \in e.addresses :
       f = Fact("endpoint", Id(s), a)

WorkloadWanted(f, c) ==
  /\ WantsWorkloads(req)
  /\ \E s \in ServicesWanted(req, c) : \E w \in c :
       Backs(w, s, w.selector) /\ f = Fact("workload", Id(s), <<Id(w), w.replicas>>)

LEMMA WantedIs ==
  ASSUME NEW c, NEW f \in TraceWanted(req, c)
  PROVE  RouteWanted(f, c) \/ ServiceWanted(f, c) \/ EndpointWanted(f, c) \/ WorkloadWanted(f, c)
<1> DEFINE routes(i) == {Fact("route", Id(i), <<p.host, p.path, p.service>>) : p \in PathsWanted(req, i)}
           routing == IF req.tool \in {"get_ingresses", "trace_by_host"} THEN IngressesWanted(req, c) ELSE {}
           serves(s) == UNION {{Fact("endpoint", Id(s), a) : a \in e.addresses} : e \in Endpoints(c, s)}
           backs(s) == {Fact("workload", Id(s), <<Id(w), w.replicas>>) : w \in {v \in c : Backs(v, s, v.selector)}}
           about(s) == ({Fact("service", Id(s), <<s.nodePorts>>)}
                       \cup (IF WantsEndpoints(req) THEN serves(s) ELSE {}))
                      \cup (IF WantsWorkloads(req) THEN backs(s) ELSE {})
<1>1. TraceWanted(req, c) = (UNION {routes(i) : i \in routing}) \cup (UNION {about(s) : s \in ServicesWanted(req, c)})
  BY Zenon DEF TraceWanted, TraceOf
<1>2. (\E i \in routing : f \in routes(i)) \/ \E s \in ServicesWanted(req, c) : f \in about(s)
  <2> HIDE DEF routes, routing, about
  <2> QED
    BY <1>1
<1>3. ASSUME NEW i \in routing, f \in routes(i) PROVE RouteWanted(f, c)
  BY <1>3 DEF RouteWanted
<1>4. ASSUME NEW s \in ServicesWanted(req, c), f \in about(s)
      PROVE  \/ f = Fact("service", Id(s), <<s.nodePorts>>)
             \/ WantsEndpoints(req) /\ f \in serves(s)
             \/ WantsWorkloads(req) /\ f \in backs(s)
  <2> HIDE DEF serves, backs
  <2> QED
    BY <1>4
<1>5. ASSUME NEW s \in ServicesWanted(req, c), f \in serves(s)
      PROVE  \E e \in Endpoints(c, s) : \E a \in e.addresses : f = Fact("endpoint", Id(s), a)
  BY <1>5
<1>6. ASSUME NEW s \in ServicesWanted(req, c), f \in backs(s)
      PROVE  \E w \in c : Backs(w, s, w.selector) /\ f = Fact("workload", Id(s), <<Id(w), w.replicas>>)
  BY <1>6
<1> HIDE DEF routes, routing, about, serves, backs
<1> QED
  BY <1>2, <1>3, <1>4, <1>5, <1>6 DEF ServiceWanted, EndpointWanted, WorkloadWanted

\* A read that was not lost brought what one of the clusters has.
LEMMA ReadInFull ==
  ASSUME ReadingInv, lost = 0, NEW r \in DOMAIN got
  PROVE  \E c \in {Before, After} : Items(got, r) = {o \in c : Asked(o, r)}
BY DEF ReadingInv, ReadsKept, LossesKept, Items, Fetch

\* A Service that stays is found under its key.
LEMMA ServiceStays ==
  ASSUME ReadingInv, req.tool \in TracingTools, ~TraceRefused(req), NextReads = {}, lost = 0,
         NEW k, NEW id, id = <<"Service", k[1], k[2]>>, k = <<k[1], k[2]>>,
         \A c \in {Before, After} : \E s \in ServicesWanted(req, c) : Id(s) = id
  PROVE  /\ k \in ServiceKeys(req, got)
         /\ \E c \in {Before, After} :
              \A s \in ServicesWanted(req, c) : Id(s) = id => s \in ServiceObject(req, got, k)
<1>1. PICK c \in {Before, After} :
        Items(got, TraceFirst(req)) = {o \in c : Asked(o, TraceFirst(req))}
  BY TraceAllRead, ReadInFull
<1>2. \A s : Id(s) = id => s.kind = "Service" /\ k = <<s.ns, s.name>>
  BY DEF Id
<1>3. PICK s \in ServicesWanted(req, c) : Id(s) = id
  OBVIOUS
<1>4. CASE req.tool \in HostTools
  <2>1. PICK i \in IngressesWanted(req, c) :
          i.ns = s.ns /\ \E p \in PathsWanted(req, i) : p.service = s.name
    BY <1>3, <1>4, HostServices
  <2>2. PICK p \in PathsWanted(req, i) : p.service = s.name
    BY <2>1
  <2>3. i \in Of(c, "Ingress")
    BY <2>1, Zenon DEF IngressesWanted
  <2>4. i \in c /\ Asked(i, TraceFirst(req))
    <3>1. i \in c
      BY <2>3 DEF Of
    <3> QED
      BY <1>4, <3>1, IngressesAsked
  <2>5. p \in Matched(req, i) /\ Named(p.service)
    BY <1>4, <2>2, <2>3, MatchedIsMeant
  <2>6. k \in ServiceKeys(req, got)
    <3>1. k = <<i.ns, p.service>>
      BY <1>2, <1>3, <2>1, <2>2
    <3> QED
      BY <1>1, <1>4, <2>4, <2>5, <3>1, HostKeys
  <2>7. ServiceGet(k) \in DOMAIN got
    <3>1. ServiceGet(k) \in Range(ServiceScript(req, got, k))
      BY <1>4, ScriptOfService
    <3> QED
      BY <2>6, <3>1, TraceAllRead
  <2>8. PICK d \in {Before, After} :
          Items(got, ServiceGet(k)) = {o \in d : Asked(o, ServiceGet(k))}
    BY <2>7, ReadInFull
  <2>9. ASSUME NEW t \in ServicesWanted(req, d), Id(t) = id
        PROVE  t \in ServiceObject(req, got, k)
    <3>1. t \in d /\ t.kind = "Service" /\ t.ns = k[1] /\ t.name = k[2]
      BY <1>2, <1>4, <2>9, HostServices DEF Of
    <3>2. Asked(t, ServiceGet(k))
      BY <2>6, <3>1, KeysAreNamed, KeyAsks, Zenon
    <3> QED
      BY <1>2, <1>4, <2>8, <2>9, <3>1, <3>2 DEF ServiceObject
  <2> QED
    BY <2>6, <2>9
<1>5. CASE req.tool \notin HostTools
  <2>1. req.tool \in NodePortTools \cup {"find_workload_by_service"}
    <3>1. CASE req.tool = "get_ingresses"
      <4>1. ServicesWanted(req, c) = {}
        BY <3>1, Zenon DEF ServicesWanted, NodePortTools, HostTools
      <4> QED
        BY <1>3, <4>1
    <3> QED
      BY <1>5, <3>1 DEF TracingTools
  <2>2. ASSUME NEW t \in ServicesWanted(req, c), Id(t) = id
        PROVE  t \in Items(got, TraceFirst(req)) /\ (req.tool \in NodePortTools => req.nodePort \in t.nodePorts)
    <3>1. t \in c
      BY <2>2 DEF ServicesWanted, Of
    <3> QED
      BY <1>1, <2>1, <2>2, <3>1, ServicesAsked
  <2>3. k \in ServiceKeys(req, got)
    <3>1. req.tool # "get_ingresses"
      BY <2>1 DEF NodePortTools
    <3> QED
      BY <1>2, <1>3, <1>5, <2>2, <3>1, OtherKeys
  <2>4. \A t \in ServicesWanted(req, c) : Id(t) = id => t \in ServiceObject(req, got, k)
    BY <1>2, <1>5, <2>2 DEF ServiceObject
  <2> QED
    BY <2>3, <2>4
<1> QED
  BY <1>4, <1>5

\* What the handler tells, one kind at a time.
LEMMA TraceTold ==
  /\ \A i \in Items(got, TraceFirst(req)) : \A p \in Routes(req, i) :
       i.kind = "Ingress" => Fact("route", Id(i), <<p.host, p.path, p.service>>) \in TraceFacts(req, got)
  /\ \A k \in ServiceKeys(req, got) : ServiceFacts(req, got, k) \subseteq TraceFacts(req, got)
<1> DEFINE routes(i) == {Fact("route", Id(i), <<p.host, p.path, p.service>>) : p \in Routes(req, i)}
           first == {j \in Items(got, TraceFirst(req)) : j.kind = "Ingress"}
<1>1. TraceFacts(req, got) =
        (UNION {routes(i) : i \in first}) \cup (UNION {ServiceFacts(req, got, k) : k \in ServiceKeys(req, got)})
  BY Zenon DEF TraceFacts
<1>2. \A i \in first : routes(i) \subseteq TraceFacts(req, got)
  <2> HIDE DEF routes, first
  <2> QED
    BY <1>1
<1>3. \A k \in ServiceKeys(req, got) : ServiceFacts(req, got, k) \subseteq TraceFacts(req, got)
  <2> HIDE DEF routes, first
  <2> QED
    BY <1>1
<1> HIDE DEF first
<1>4. \A i \in first : \A p \in Routes(req, i) :
        Fact("route", Id(i), <<p.host, p.path, p.service>>) \in TraceFacts(req, got)
  BY <1>2
<1> QED
  BY <1>3, <1>4 DEF first

LEMMA ServiceTold ==
  ASSUME NEW k, NEW s \in ServiceObject(req, got, k)
  PROVE  LET id == <<"Service", k[1], k[2]>>
             slices == Items(got, SlicesList(k))
         IN  /\ Fact("service", id, <<s.nodePorts>>) \in ServiceFacts(req, got, k)
             /\ \A e \in IF slices # {} THEN slices ELSE Items(got, EndpointsGet(k)) :
                  \A a \in e.addresses : Fact("endpoint", id, a) \in ServiceFacts(req, got, k)
             /\ \A i \in 1 .. 3 : \A w \in Items(got, WorkloadLists(k)[i]) :
                  matchSelector(w.selector, s.selector) =>
                    Fact("workload", id, <<Id(w), w.replicas>>) \in ServiceFacts(req, got, k)
<1> DEFINE id == <<"Service", k[1], k[2]>>
           found == ServiceObject(req, got, k)
           slices == Items(got, SlicesList(k))
           endpoints == IF slices # {} THEN slices ELSE Items(got, EndpointsGet(k))
           workloads == UNION {Items(got, WorkloadLists(k)[i]) : i \in 1 .. 3}
           told == {Fact("service", id, <<t.nodePorts>>) : t \in found}
           reached == UNION {{Fact("endpoint", id, a) : a \in e.addresses} : e \in endpoints}
           backed == {Fact("workload", id, <<Id(w), w.replicas>>) :
                        w \in {v \in workloads : \E t \in found : matchSelector(v.selector, t.selector)}}
<1>1. ServiceFacts(req, got, k) = (told \cup reached) \cup backed
  BY DEF ServiceFacts
<1>2. Fact("service", id, <<s.nodePorts>>) \in told
  OBVIOUS
<1>3. \A e \in endpoints : \A a \in e.addresses : Fact("endpoint", id, a) \in reached
  <2> HIDE DEF endpoints
  <2> QED
    OBVIOUS
<1>4. \A w \in workloads : matchSelector(w.selector, s.selector) =>
        Fact("workload", id, <<Id(w), w.replicas>>) \in backed
  <2> HIDE DEF workloads
  <2> QED
    OBVIOUS
<1>5. \A i \in 1 .. 3 : Items(got, WorkloadLists(k)[i]) \subseteq workloads
  OBVIOUS
<1> HIDE DEF told, reached, backed, workloads
<1> QED
  BY <1>1, <1>2, <1>3, <1>4, <1>5

\* An address that stays is in the slices, or in the Endpoints where there are
\* none: both are read, and where one replaces the other nothing else changes.
LEMMA EndpointStays ==
  ASSUME ReadingInv, req.tool \in TracingTools, ~TraceRefused(req), NextReads = {}, lost = 0,
         NEW k \in ServiceKeys(req, got), ServiceObject(req, got, k) # {}, WantsEndpoints(req),
         NEW a,
         \A c \in {Before, After} :
           \E s \in ServicesWanted(req, c) :
             <<s.ns, s.name>> = <<k[1], k[2]>> /\ \E e \in Endpoints(c, s) : a \in e.addresses
  PROVE  LET slices == Items(got, SlicesList(k)) IN
         \E e \in IF slices # {} THEN slices ELSE Items(got, EndpointsGet(k)) : a \in e.addresses
<1> DEFINE slices == Items(got, SlicesList(k))
<1>1. Named(k[1]) /\ Named(k[2])
  BY KeysAreNamed
<1>2. \A c \in {Before, After} :
        \E e \in c :
          /\ a \in e.addresses
          /\ \/ Asked(e, SlicesList(k))
             \/ Asked(e, EndpointsGet(k)) /\ \A d \in c : ~Asked(d, SlicesList(k))
  <2> TAKE c \in {Before, After}
  <2>1. PICK s \in ServicesWanted(req, c) :
          <<s.ns, s.name>> = <<k[1], k[2]>> /\ \E e \in Endpoints(c, s) : a \in e.addresses
    OBVIOUS
  <2>2. PICK e \in Endpoints(c, s) : a \in e.addresses
    BY <2>1
  <2>3. s.ns = k[1] /\ s.name = k[2]
    BY <2>1
  <2> DEFINE own == {x \in Of(c, "EndpointSlice") : Serves(x, s)}
  <2>4. \A x : x \in own <=> x \in c /\ Asked(x, SlicesList(k))
    BY <1>1, <2>3, KeyAsks DEF Of, Serves
  <2>5. CASE own # {}
    <3>1. e \in own
      BY <2>2, <2>5 DEF Endpoints
    <3> QED
      BY <2>2, <2>4, <3>1
  <2>6. CASE own = {}
    <3>1. e \in Of(c, "Endpoints") /\ Serves(e, s)
      BY <2>2, <2>6 DEF Endpoints
    <3>2. e \in c /\ Asked(e, EndpointsGet(k))
      BY <1>1, <2>3, <3>1, KeyAsks DEF Of, Serves
    <3> QED
      BY <2>2, <2>4, <2>6, <3>2
  <2> QED
    BY <2>5, <2>6
<1>3. SlicesList(k) \in DOMAIN got /\ (slices = {} => EndpointsGet(k) \in DOMAIN got)
  BY ScriptOfService, TraceAllRead
<1>4. PICK c \in {Before, After} : slices = {o \in c : Asked(o, SlicesList(k))}
  BY <1>3, ReadInFull
<1>5. PICK e \in c :
        /\ a \in e.addresses
        /\ \/ Asked(e, SlicesList(k))
           \/ Asked(e, EndpointsGet(k)) /\ \A d \in c : ~Asked(d, SlicesList(k))
  BY <1>2
<1>6. CASE Asked(e, SlicesList(k))
  BY <1>4, <1>5, <1>6
<1>7. CASE Asked(e, EndpointsGet(k)) /\ \A d \in c : ~Asked(d, SlicesList(k))
  <2>1. slices = {}
    BY <1>4, <1>7
  <2>2. PICK b \in {Before, After} :
          Items(got, EndpointsGet(k)) = {o \in b : Asked(o, EndpointsGet(k))}
    BY <1>3, <2>1, ReadInFull
  <2>3. CASE e \in b
    BY <1>5, <1>7, <2>1, <2>2, <2>3
  <2>4. CASE e \notin b
    <3>1. PICK d \in b : a \in d.addresses /\ (Asked(d, SlicesList(k)) \/ Asked(d, EndpointsGet(k)))
      BY <1>2
    <3>2. CASE Asked(d, EndpointsGet(k))
      BY <2>1, <2>2, <3>1, <3>2
    <3>3. CASE Asked(d, SlicesList(k))
      <4>1. d \notin c
        BY <1>7, <3>3
      <4>2. Id(d) = Id(e)
        BY <2>4, <3>1, <4>1, <1>5, TraceSetting DEF OneChanges
      <4>3. d.kind = "EndpointSlice" /\ e.kind = "Endpoints"
        BY <1>1, <1>7, <3>3, KeyAsks
      <4> QED
        BY <4>2, <4>3 DEF Id
    <3> QED
      BY <3>1, <3>2, <3>3
  <2> QED
    BY <2>3, <2>4
<1> QED
  BY <1>5, <1>6, <1>7

\* A workload that stays behind a Service that stays is in the list of its kind,
\* and its selector fits that of the Service that was found: at most one of the
\* two has changed.
LEMMA WorkloadStays ==
  ASSUME ReadingInv, req.tool \in TracingTools, ~TraceRefused(req), NextReads = {}, lost = 0,
         NEW k \in ServiceKeys(req, got), WantsWorkloads(req), NEW id, NEW detail,
         \A c \in {Before, After} :
           \E s \in ServicesWanted(req, c) : \E w \in c :
             Id(s) = id /\ Backs(w, s, w.selector) /\ detail = <<Id(w), w.replicas>>,
         \E c \in {Before, After} :
           \A s \in ServicesWanted(req, c) : Id(s) = id => s \in ServiceObject(req, got, k)
  PROVE  \E s \in ServiceObject(req, got, k) : \E i \in 1 .. 3 :
           \E w \in Items(got, WorkloadLists(k)[i]) :
             matchSelector(w.selector, s.selector) /\ detail = <<Id(w), w.replicas>>
<1>1. \A c : ServicesWanted(req, c) \subseteq c
  BY DEF ServicesWanted, Of
<1>2. PICK c \in {Before, After} :
        \A s \in ServicesWanted(req, c) : Id(s) = id => s \in ServiceObject(req, got, k)
  OBVIOUS
<1>3. PICK s \in ServicesWanted(req, c), w \in c :
        Id(s) = id /\ Backs(w, s, w.selector) /\ detail = <<Id(w), w.replicas>>
  OBVIOUS
<1>4. s \in ServiceObject(req, got, k)
  BY <1>2, <1>3
<1>5. PICK i \in 1 .. 3 : w.kind = WorkloadKinds[i]
  <2>1. w.kind \in {"Deployment", "StatefulSet", "DaemonSet"}
    BY <1>3 DEF Backs
  <2>2. /\ WorkloadKinds[1] = "Deployment" /\ WorkloadKinds[2] = "StatefulSet"
        /\ WorkloadKinds[3] = "DaemonSet"
    BY DEF WorkloadKinds
  <2>3. 1 \in 1 .. 3 /\ 2 \in 1 .. 3 /\ 3 \in 1 .. 3
    OBVIOUS
  <2> QED
    BY <2>1, <2>2, <2>3
<1>6. WorkloadLists(k)[i] \in DOMAIN got
  <2>1. \E t \in ServiceObject(req, got, k) : t.selector # {}
    BY <1>3, <1>4 DEF Backs
  <2>2. WorkloadLists(k)[i] \in Range(ServiceScript(req, got, k))
    BY <2>1, ScriptOfService
  <2> QED
    BY <2>2, TraceAllRead
<1>7. PICK d \in {Before, After} :
        Items(got, WorkloadLists(k)[i]) = {o \in d : Asked(o, WorkloadLists(k)[i])}
  BY <1>6, ReadInFull
<1>8. PICK t \in ServicesWanted(req, d), v \in d :
        Id(t) = id /\ Backs(v, t, v.selector) /\ detail = <<Id(v), v.replicas>>
  OBVIOUS
<1>9. Id(v) = Id(w) /\ Id(s) = Id(t)
  BY <1>3, <1>8
<1>10. k[1] = s.ns
  BY <1>4 DEF ServiceObject
<1>11. v.kind = w.kind /\ v.ns = k[1]
  BY <1>3, <1>9, <1>10 DEF Id, Backs
<1>12. v \in Items(got, WorkloadLists(k)[i])
  BY <1>5, <1>7, <1>8, <1>11, WorkloadsAsk, KeysAreNamed
<1>13. matchSelector(v.selector, s.selector)
  <2>1. v = w \/ s = t
    <3> SUFFICES ASSUME v # w, s # t PROVE FALSE
      OBVIOUS
    <3>1. OneChanges(Before, After)
      BY TraceSetting
    <3>2. c # d /\ s \in c \ d /\ w \in c \ d
      BY <1>1, <1>3, <1>8, <1>9, <3>1 DEF OneChanges
    <3>3. Id(s) = Id(w)
      BY <3>1, <3>2 DEF OneChanges
    <3>4. s.kind = "Service"
      BY DEF ServicesWanted, Of
    <3> QED
      BY <1>3, <3>3, <3>4 DEF Id, Backs
  <2> QED
    BY <1>3, <1>8, <2>1 DEF Backs, matchSelector
<1> QED
  BY <1>4, <1>8, <1>12, <1>13

LEMMA TraceFindsWhatStays ==
  ASSUME ReadingInv, TraceKept, req.tool \in TracingTools
  PROVE  FindsWhatStays
<1> SUFFICES ASSUME Answered("ok"), lost = 0
             PROVE  Wanted(req, Before) \cap Wanted(req, After) \subseteq answer.told
  BY DEF FindsWhatStays
<1>1. \A c : Wanted(req, c) = TraceWanted(req, c)
  BY TraceIsNoOther DEF Wanted, InspectionTools, Accounts, IsPreview
<1>2. answer.told = TraceFacts(req, got) /\ ~TraceRefused(req) /\ NextReads = {}
  <2>1. Answers = {TraceFacts(req, got)} /\ (Refused <=> TraceRefused(req))
    BY TraceIsNoOther DEF Answers, Refused
  <2> QED
    BY <2>1 DEF ReadingInv, AnswerKept
<1> SUFFICES ASSUME NEW f, \A c \in {Before, After} : f \in TraceWanted(req, c)
             PROVE  f \in TraceFacts(req, got)
  BY <1>1, <1>2
<1> DEFINE wanted(c) == ServicesWanted(req, c)
           clusters == {Before, After}
<1>3. \A c \in clusters :
        RouteWanted(f, c) \/ ServiceWanted(f, c) \/ EndpointWanted(f, c) \/ WorkloadWanted(f, c)
  BY WantedIs
<1>4. \A c : /\ RouteWanted(f, c) => f[1] = "route"
             /\ ServiceWanted(f, c) => f[1] = "service"
             /\ EndpointWanted(f, c) => f[1] = "endpoint"
             /\ WorkloadWanted(f, c) => f[1] = "workload"
  BY DEF RouteWanted, ServiceWanted, EndpointWanted, WorkloadWanted, Fact
<1>5. \/ \A c \in clusters : RouteWanted(f, c)
      \/ \A c \in clusters : ServiceWanted(f, c)
      \/ \A c \in clusters : EndpointWanted(f, c)
      \/ \A c \in clusters : WorkloadWanted(f, c)
  BY <1>3, <1>4
<1>6. CASE \A c \in clusters : RouteWanted(f, c)
  <2>1. PICK c \in clusters : Items(got, TraceFirst(req)) = {o \in c : Asked(o, TraceFirst(req))}
    BY <1>2, TraceAllRead, ReadInFull
  <2>2. PICK i \in IngressesWanted(req, c) : \E p \in PathsWanted(req, i) :
          /\ req.tool \in {"get_ingresses", "trace_by_host"}
          /\ f = Fact("route", Id(i), <<p.host, p.path, p.service>>)
    BY <1>6 DEF RouteWanted
  <2>3. i \in Of(c, "Ingress")
    BY <2>2, Zenon DEF IngressesWanted
  <2>4. i \in c /\ i.kind = "Ingress"
    BY <2>3 DEF Of
  <2>5. Asked(i, TraceFirst(req))
    BY <1>2, <2>2, <2>4, IngressesAsked DEF HostTools
  <2>6. \E p \in Routes(req, i) : f = Fact("route", Id(i), <<p.host, p.path, p.service>>)
    BY <2>2, <2>3, RoutesAreMeant
  <2> QED
    BY <2>1, <2>4, <2>5, <2>6, TraceTold
<1> DEFINE id == f[2]
           k == <<f[2][2], f[2][3]>>
<1>7. \A c : \A s \in wanted(c) : Id(s) = <<"Service", s.ns, s.name>>
  BY DEF ServicesWanted, Of, Id
<1>8. ASSUME \A c \in clusters : \E s \in wanted(c) : Id(s) = id
      PROVE  /\ id = <<"Service", k[1], k[2]>> /\ k = <<k[1], k[2]>>
             /\ k \in ServiceKeys(req, got)
             /\ \E c \in clusters : \A s \in wanted(c) : Id(s) = id => s \in ServiceObject(req, got, k)
  <2>1. id = <<"Service", k[1], k[2]>> /\ k = <<k[1], k[2]>>
    BY <1>7, <1>8
  <2> HIDE DEF id, k
  <2> QED
    BY <1>2, <1>8, <2>1, ServiceStays
<1>9. \A c : ServiceWanted(f, c) \/ EndpointWanted(f, c) \/ WorkloadWanted(f, c) =>
              \E s \in wanted(c) : Id(s) = id
  BY DEF ServiceWanted, EndpointWanted, WorkloadWanted, Fact
<1>10. CASE \A c \in clusters : ServiceWanted(f, c)
  <2>1. PICK c \in clusters : \A s \in wanted(c) : Id(s) = id => s \in ServiceObject(req, got, k)
    BY <1>8, <1>9, <1>10
  <2>2. PICK s \in wanted(c) : f = Fact("service", Id(s), <<s.nodePorts>>)
    BY <1>10 DEF ServiceWanted
  <2>3. Id(s) = id
    BY <2>2 DEF Fact
  <2>4. k \in ServiceKeys(req, got) /\ f = Fact("service", <<"Service", k[1], k[2]>>, <<s.nodePorts>>)
    BY <1>8, <1>9, <1>10, <2>2, <2>3
  <2> HIDE DEF k
  <2> QED
    BY <2>1, <2>3, <2>4, ServiceTold, TraceTold
<1>11. CASE \A c \in clusters : EndpointWanted(f, c)
  <2> DEFINE a == f[3]
  <2>1. PICK c \in clusters : \A s \in wanted(c) : Id(s) = id => s \in ServiceObject(req, got, k)
    BY <1>8, <1>9, <1>11
  <2>2. PICK s \in wanted(c) : Id(s) = id
    BY <1>9, <1>11
  <2>3. /\ k \in ServiceKeys(req, got) /\ s \in ServiceObject(req, got, k)
        /\ id = <<"Service", k[1], k[2]>>
    BY <1>8, <1>9, <1>11, <2>1, <2>2
  <2>4. f = Fact("endpoint", id, a) /\ WantsEndpoints(req)
    BY <1>11 DEF EndpointWanted, Fact
  <2>5. \A d \in clusters : \E t \in wanted(d) :
          <<t.ns, t.name>> = <<k[1], k[2]>> /\ \E e \in Endpoints(d, t) : a \in e.addresses
    <3> TAKE d \in clusters
    <3>1. PICK t \in wanted(d) : \E e \in Endpoints(d, t) : \E b \in e.addresses :
            f = Fact("endpoint", Id(t), b)
      BY <1>11 DEF EndpointWanted
    <3>2. Id(t) = id /\ \E e \in Endpoints(d, t) : a \in e.addresses
      BY <3>1 DEF Fact
    <3>3. <<t.ns, t.name>> = <<k[1], k[2]>>
      BY <1>7, <3>2
    <3> QED
      BY <3>2, <3>3
  <2> HIDE DEF id, k, a
  <2>6. \E e \in IF Items(got, SlicesList(k)) # {} THEN Items(got, SlicesList(k))
                 ELSE Items(got, EndpointsGet(k)) : a \in e.addresses
    BY <1>2, <2>3, <2>4, <2>5, EndpointStays
  <2> QED
    BY <2>3, <2>4, <2>6, ServiceTold, TraceTold
<1>12. CASE \A c \in clusters : WorkloadWanted(f, c)
  <2> DEFINE detail == f[3]
  <2>1. /\ id = <<"Service", k[1], k[2]>> /\ k \in ServiceKeys(req, got)
        /\ \E c \in clusters : \A s \in wanted(c) : Id(s) = id => s \in ServiceObject(req, got, k)
    BY <1>8, <1>9, <1>12
  <2>2. f = Fact("workload", id, detail) /\ WantsWorkloads(req)
    BY <1>12 DEF WorkloadWanted, Fact
  <2>3. \A c \in clusters : \E s \in wanted(c) : \E w \in c :
          Id(s) = id /\ Backs(w, s, w.selector) /\ detail = <<Id(w), w.replicas>>
    BY <1>12 DEF WorkloadWanted, Fact
  <2> HIDE DEF id, k, detail
  <2>4. PICK s \in ServiceObject(req, got, k) : \E i \in 1 .. 3 :
          \E w \in Items(got, WorkloadLists(k)[i]) :
            matchSelector(w.selector, s.selector) /\ detail = <<Id(w), w.replicas>>
    BY <1>2, <2>1, <2>2, <2>3, WorkloadStays
  <2>5. f \in ServiceFacts(req, got, k)
    BY <2>1, <2>2, <2>4, ServiceTold
  <2> QED
    BY <2>1, <2>5, TraceTold
<1> QED
  BY <1>5, <1>6, <1>10, <1>11, <1>12

\* A tracing tool tells of every address, Service and workload that was there
\* all along, when no read was lost, and tells of no connection that was not
\* there: one object may change between the reads of its chain, and what the
\* chain joins was in the cluster at one time.  The NodePort tools do so of the
\* Services their index has, whatever it has, for that is what they see.
THEOREM TracesAreTold ==
  Spec => [](req.tool \in TracingTools => FindsWhatStays /\ TellsOnlyWhatWas)
<1>1. Spec => [](ReadingInv /\ TraceKept)
  BY ReadingStarts, NextKeepsReading, TraceStarts, NextKeepsTrace, PTL DEF Spec
<1>2. ReadingInv /\ TraceKept =>
        (req.tool \in TracingTools => FindsWhatStays /\ TellsOnlyWhatWas)
  BY TraceFindsWhatStays, TraceTellsWhatWas
<1> QED
  BY <1>1, <1>2, PTL
=============================================================================
