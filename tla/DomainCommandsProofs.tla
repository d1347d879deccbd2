------------------------ MODULE DomainCommandsProofs ------------------------
(* Proofs about DomainCommands: what its commands and its report do and    *)
(* say of the DNS records and of the ingress list of a domain, for any     *)
(* records, hostnames, entries and bounds.  The order: positions of a list *)
(* and hostnames; the lists the commands write; which entry serves a name; *)
(* the records of a name; the commands on both; the theorems; DomainWiring. *)
EXTENDS DomainCommands, TLAPS, FiniteSetTheorems, SequenceTheorems

-----------------------------------------------------------------------------
(* Positions in order.                                                     *)

\* The rank of a position tells how many of the positions are not above it.
LEMMA RankFacts ==
  ASSUME NEW n \in Nat, NEW S \in SUBSET (1..n)
  PROVE  /\ IsFiniteSet(S) /\ Cardinality(S) \in Nat
         /\ \A i \in S : Rank(S, i) \in 1..Cardinality(S)
         /\ \A i, j \in S : i < j => Rank(S, i) < Rank(S, j)
<1>1. IsFiniteSet(S) /\ Cardinality(S) \in Nat
  <2>1. IsFiniteSet(1..n)
    BY FS_Interval
  <2>2. QED BY <2>1, FS_Subset, FS_CardinalityType
<1>2. ASSUME NEW i \in S
      PROVE  /\ IsFiniteSet({j \in S : j <= i})
             /\ Rank(S, i) \in 1..Cardinality(S)
  <2> DEFINE below == {j \in S : j <= i}
  <2>1. IsFiniteSet(below) /\ Cardinality(below) <= Cardinality(S)
    BY <1>1, FS_Subset
  <2>2. i \in below
    OBVIOUS
  <2>3. Cardinality(below) \in Nat /\ Cardinality(below) # 0
    BY <2>1, <2>2, FS_CardinalityType, FS_EmptySet
  <2>4. QED BY <1>1, <2>1, <2>3 DEF Rank
<1>3. ASSUME NEW i \in S, NEW j \in S, i < j
      PROVE  Rank(S, i) < Rank(S, j)
  <2> DEFINE lower == {k \in S : k <= i}
             upper == {k \in S : k <= j}
  <2>1. lower \subseteq upper /\ j \in upper /\ j \notin lower
    <3>1. \A k \in S : k \in Nat
      OBVIOUS
    <3>2. i \in Nat /\ j \in Nat /\ ~ j <= i /\ \A k \in S : k <= i => k <= j
      BY <1>3, <3>1
    <3>3. lower \subseteq upper
      BY <3>2
    <3>4. j \in upper
      BY <3>2
    <3>5. j \notin lower
      BY <3>2
    <3>6. QED BY <3>3, <3>4, <3>5
  <2>2. IsFiniteSet(upper) /\ Cardinality(lower) <= Cardinality(upper)
    BY <1>2, <2>1, FS_Subset
  <2>3. Cardinality(lower) # Cardinality(upper)
    BY <2>1, <2>2, FS_Subset
  <2>4. Cardinality(lower) \in Nat /\ Cardinality(upper) \in Nat
    BY <1>2, FS_CardinalityType
  <2>5. QED BY <2>2, <2>3, <2>4 DEF Rank
<1>4. QED BY <1>1, <1>2, <1>3

\* InOrder lists each position once, the lowest first.
LEMMA InOrderFacts ==
  ASSUME NEW n \in Nat, NEW S \in SUBSET (1..n)
  PROVE  /\ Cardinality(S) \in Nat
         /\ InOrder(S) \in [1..Cardinality(S) -> S]
         /\ \A i \in S : InOrder(S)[Rank(S, i)] = i /\ Rank(S, i) \in 1..Cardinality(S)
         /\ \A k, l \in 1..Cardinality(S) : k < l <=> InOrder(S)[k] < InOrder(S)[l]
<1> DEFINE m == Cardinality(S)
           rank == [i \in S |-> Rank(S, i)]
<1>1. IsFiniteSet(S) /\ m \in Nat /\ rank \in [S -> 1..m]
  BY RankFacts
<1>2. \A i, j \in S : rank[i] = rank[j] => i = j
  <2>1. \A i, j \in S : i # j => i < j \/ j < i
    OBVIOUS
  <2>2. \A i, j \in S : i < j => rank[i] < rank[j]
    BY RankFacts
  <2>3. \A i \in S : rank[i] \in Nat
    BY <1>1
  <2>4. QED BY <2>1, <2>2, <2>3
<1>3. rank \in Injection(S, 1..m)
  BY <1>1, <1>2 DEF Injection, IsInjective
<1>4. rank \in Surjection(S, 1..m)
  <2>1. IsFiniteSet(1..m) /\ Cardinality(1..m) = m
    BY <1>1, FS_Interval
  <2>2. QED BY <1>3, <2>1, FS_Injection
<1>5. \A k \in 1..m : \E i \in S : Rank(S, i) = k
  BY <1>4 DEF Surjection
<1>6. \A k \in 1..m : InOrder(S)[k] \in S /\ Rank(S, InOrder(S)[k]) = k
  BY <1>5 DEF InOrder
<1>7. InOrder(S) \in [1..m -> S]
  BY <1>6 DEF InOrder
<1>8. \A i \in S : InOrder(S)[Rank(S, i)] = i /\ Rank(S, i) \in 1..m
  BY <1>1, <1>2, <1>6
<1>9. ASSUME NEW k \in 1..m, NEW l \in 1..m
      PROVE  k < l <=> InOrder(S)[k] < InOrder(S)[l]
  <2> DEFINE i == InOrder(S)[k]
             j == InOrder(S)[l]
  <2>1. i \in S /\ j \in S /\ Rank(S, i) = k /\ Rank(S, j) = l
    BY <1>6
  <2>2. (i < j => k < l) /\ (j < i => l < k)
    BY <2>1, RankFacts
  <2>3. i = j => k = l
    BY <2>1
  <2>4. i \in Nat /\ j \in Nat /\ k \in Nat /\ l \in Nat
    <3>1. \A p \in S : p \in Nat
      OBVIOUS
    <3>2. i \in Nat /\ j \in Nat
      BY <2>1, <3>1
    <3>3. k \in Nat /\ l \in Nat
      BY <1>1
    <3>4. QED BY <3>2, <3>3
  <2>5. QED BY <2>2, <2>3, <2>4
<1>10. QED BY <1>1, <1>7, <1>8, <1>9

\* All the positions up to n, in order, are the numbers from 1 to n.
LEMMA InOrderInterval ==
  ASSUME NEW n \in Nat
  PROVE  InOrder(1..n) = [k \in 1..n |-> k]
<1>1. Cardinality(1..n) = n
  BY FS_Interval
<1>2. ASSUME NEW i \in 1..n PROVE Rank(1..n, i) = i
  <2>1. {j \in 1..n : j <= i} = 1..i
    OBVIOUS
  <2>2. Cardinality(1..i) = i
    BY FS_Interval
  <2>3. QED BY <2>1, <2>2 DEF Rank
<1>3. \A k \in 1..n : (CHOOSE i \in 1..n : Rank(1..n, i) = k) = k
  BY <1>2
<1>4. QED BY <1>1, <1>3 DEF InOrder

\* A set of positions with an element has a lowest one.
LEMMA LowestPosition ==
  ASSUME NEW n \in Nat, NEW S \in SUBSET (1..n), S # {}
  PROVE  \E i \in S : \A j \in S : i <= j
<1>1. PICK x \in S : TRUE
  OBVIOUS
<1>2. Rank(S, x) \in 1..Cardinality(S) /\ Cardinality(S) \in Nat
  BY InOrderFacts
<1>3. 1 \in 1..Cardinality(S)
  BY <1>2
<1> DEFINE i == InOrder(S)[1]
<1>4. i \in S
  BY <1>3, InOrderFacts
<1>5. ASSUME NEW j \in S PROVE i <= j
  <2>1. Rank(S, j) \in 1..Cardinality(S) /\ InOrder(S)[Rank(S, j)] = j
    BY InOrderFacts
  <2>2. Rank(S, j) = 1 \/ 1 < Rank(S, j)
    BY <1>2, <2>1
  <2>3. 1 < Rank(S, j) => i < j
    <3>1. \A k, l \in 1..Cardinality(S) : k < l <=> InOrder(S)[k] < InOrder(S)[l]
      BY InOrderFacts
    <3>2. QED BY <1>3, <2>1, <3>1
  <2>4. i \in Nat /\ j \in Nat
    <3>1. \A p \in S : p \in Nat
      OBVIOUS
    <3>2. QED BY <1>4, <3>1
  <2>5. QED BY <2>1, <2>2, <2>3, <2>4
<1>6. QED BY <1>4, <1>5

\* A set of positions has at most one element when no two of them differ, and
\* one when it is a singleton.
LEMMA FewPositions ==
  ASSUME NEW n \in Nat, NEW S \in SUBSET (1..n)
  PROVE  /\ Cardinality(S) <= 1 <=> \A i, j \in S : i = j
         /\ Cardinality(S) = 1 <=> \E i : S = {i}
         /\ Cardinality(S) > 1 <=> ~ Cardinality(S) <= 1
         /\ Cardinality(S) = 1 <=> S # {} /\ Cardinality(S) <= 1
<1>1. IsFiniteSet(S) /\ Cardinality(S) \in Nat
  BY RankFacts
<1>2. Cardinality(S) = 0 <=> S = {}
  BY <1>1, FS_EmptySet
<1>3. Cardinality(S) = 1 <=> \E i : S = {i}
  BY <1>1, FS_Singleton
<1>4. Cardinality(S) <= 1 <=> Cardinality(S) = 0 \/ Cardinality(S) = 1
  BY <1>1
<1>5. (\A i, j \in S : i = j) <=> S = {} \/ \E i : S = {i}
  <2>1. ASSUME \A i, j \in S : i = j, S # {} PROVE \E i : S = {i}
    <3>1. PICK i \in S : TRUE
      BY <2>1
    <3>2. S = {i}
      BY <2>1, <3>1
    <3>3. QED BY <3>2
  <2>2. QED BY <2>1
<1>6. Cardinality(S) <= 1 <=> \A i, j \in S : i = j
  BY <1>2, <1>3, <1>4, <1>5
<1>7. Cardinality(S) = 1 <=> S # {} /\ Cardinality(S) <= 1
  <2>1. Cardinality(S) = 1 <=> Cardinality(S) # 0 /\ Cardinality(S) <= 1
    BY <1>1
  <2>2. QED BY <1>2, <2>1
<1>8. Cardinality(S) > 1 <=> ~ Cardinality(S) <= 1
  BY <1>1
<1>9. QED BY <1>3, <1>6, <1>7, <1>8

-----------------------------------------------------------------------------
(* Hostnames.                                                              *)

\* A prefix that is not longer than the list itself does not reach a label
\* appended to it.
LEMMA PrefixFacts ==
  ASSUME NEW A, NEW s \in Seq(A), NEW d \in Seq(A), NEW x \in A
  PROVE  /\ IsPrefix(d, d) /\ IsPrefix(d, Append(d, x))
         /\ IsPrefix(s, Append(d, x)) /\ Len(s) <= Len(d) => IsPrefix(s, d)
<1>1. /\ Append(d, x) \in Seq(A) /\ Len(Append(d, x)) = Len(d) + 1
      /\ Len(d) \in Nat /\ Len(s) \in Nat
      /\ \A i \in 1..Len(d) : Append(d, x)[i] = d[i]
  BY AppendProperties
<1>2. ASSUME NEW n \in 0..Len(d)
      PROVE  SubSeq(Append(d, x), 1, n) = SubSeq(d, 1, n)
  <2>1. n \in Nat /\ n <= Len(d) /\ n <= Len(Append(d, x))
    BY <1>1
  <2> DEFINE Cut(q) == SubSeq(q, 1, n)
  <2>2. /\ Cut(d) \in Seq(A) /\ Len(Cut(d)) = n
        /\ \A i \in 1..n : Cut(d)[i] = d[i]
    BY <2>1
  <2>3. /\ Cut(Append(d, x)) \in Seq(A) /\ Len(Cut(Append(d, x))) = n
        /\ \A i \in 1..n : Cut(Append(d, x))[i] = Append(d, x)[i]
    BY <1>1, <2>1
  <2>4. \A i \in 1..n : Cut(d)[i] = Cut(Append(d, x))[i]
    BY <1>1, <2>1, <2>2, <2>3
  <2>5. QED BY <2>2, <2>3, <2>4, SeqEqual
<1>3. IsPrefix(d, d)
  BY <1>1 DEF IsPrefix
<1>4. IsPrefix(d, Append(d, x))
  <2>1. Len(d) \in 0..Len(d) /\ Len(d) <= Len(Append(d, x))
    BY <1>1
  <2>2. QED BY <1>2, <2>1 DEF IsPrefix
<1>5. ASSUME IsPrefix(s, Append(d, x)), Len(s) <= Len(d) PROVE IsPrefix(s, d)
  <2>1. Len(s) \in 0..Len(d)
    BY <1>1, <1>5
  <2>2. QED BY <1>2, <1>5, <2>1 DEF IsPrefix
<1>6. QED BY <1>3, <1>4, <1>5

\* The two targets are hostnames apart from each other, from the stand-ins and
\* from the hosts of other entries.
LEMMA TargetFacts ==
  /\ Names = {Apex, Star} /\ Apex # Star
  /\ Apex.labels = Domain /\ ~Apex.wild /\ Star.labels = Domain /\ Star.wild
  /\ \A t \in Names : t \in Hostnames /\ IsHostname(t)
  /\ \A h \in OtherHosts : h \notin Names /\ h # NoHost
  /\ NoHost # EmptyHost
<1>1. /\ Names = {Apex, Star} /\ Apex # Star
      /\ Apex.labels = Domain /\ ~Apex.wild /\ Star.labels = Domain /\ Star.wild
  BY DEF Names, Targets, Apex, Star, Host, Wild
<1>2. Apex \in Hostnames /\ Star \in Hostnames
  BY HostsAssumption DEF Hostnames, Apex, Star, Host, Wild
<1>3. IsHostname(Apex) /\ IsHostname(Star)
  BY <1>2, StandInsAssumption DEF IsHostname
<1>4. \A h \in OtherHosts : h \notin Names /\ h # NoHost
  BY HostsAssumption, StandInsAssumption DEF Names
<1>5. QED BY <1>1, <1>2, <1>3, <1>4, StandInsAssumption

\* The apex is captured by its own entry only, and the probe of the wildcard by
\* the wildcard only.
LEMMA WhoCapturesTheTargets ==
  ASSUME NEW p \in Names \cup OtherHosts, p # EmptyHost
  PROVE  /\ Matches(p, Apex) <=> p = Apex
         /\ Matches(p, Probe(Domain)) <=> p = Star
<1> DEFINE x == "_homesrvctl-probe"
           A == STRING \cup {x}
           probe == Probe(Domain)
<1>1. Domain \in Seq(A) /\ x \in A /\ Len(Domain) \in Nat
  BY HostsAssumption, SeqMonotonic
<1>2. /\ probe.labels = Append(Domain, x) /\ ~probe.wild
      /\ Len(Append(Domain, x)) = Len(Domain) + 1
  BY <1>1, AppendProperties DEF Probe, Host
<1>3. probe # Apex /\ probe # Star
  BY <1>1, <1>2, TargetFacts
<1>4. CASE p = Apex
  BY <1>3, <1>4, TargetFacts DEF Matches
<1>5. CASE p = Star
  <2>1. ~ Len(Domain) > Len(Domain) /\ Len(Append(Domain, x)) > Len(Domain)
    BY <1>1, <1>2
  <2>2. IsPrefix(Domain, Append(Domain, x))
    BY <1>1, PrefixFacts
  <2>3. QED BY <1>2, <1>5, <2>1, <2>2, TargetFacts DEF Matches
<1>6. CASE p \in OtherHosts
  <2>1. p # Apex /\ p # Star /\ p # probe
    BY <1>6, TargetFacts, HostsAssumption
  <2>2. p.wild => ~ IsPrefix(p.labels, Domain)
    BY <1>6, HostsAssumption
  <2>3. p.labels \in Seq(A) /\ Len(p.labels) \in Nat
    <3>1. p.labels \in Seq(STRING)
      BY <1>6, HostsAssumption DEF Hostnames
    <3>2. QED BY <3>1, SeqMonotonic
  <2>4. IsPrefix(p.labels, Append(Domain, x)) /\ Len(Append(Domain, x)) > Len(p.labels)
          => IsPrefix(p.labels, Domain)
    <3>1. Len(Append(Domain, x)) > Len(p.labels) => Len(p.labels) <= Len(Domain)
      BY <1>1, <1>2, <2>3
    <3>2. QED BY <1>1, <2>3, <3>1, PrefixFacts
  <2>5. ~ Matches(p, Apex)
    BY <2>1, <2>2, TargetFacts DEF Matches
  <2>6. ~ Matches(p, probe)
    BY <1>2, <2>1, <2>2, <2>4 DEF Matches
  <2>7. QED BY <2>1, <2>5, <2>6
<1>7. QED BY <1>4, <1>5, <1>6, TargetFacts

-----------------------------------------------------------------------------
(* The lists of entries the operator and the commands write.               *)

AllEntries == Entries \cup {FallbackEntry}
Lists == Seq(AllEntries) \ {<<>>}

\* What an entry of these lists names.
LEMMA EntryFacts ==
  ASSUME NEW e \in AllEntries
  PROVE  /\ e = Entry(e.host, e.service)
         /\ e.host \in Names \cup OtherHosts \cup {NoHost}
         /\ e.service \in Services
<1>1. CASE \E h \in Names, s \in Services : e = Entry(h, s)
  BY <1>1 DEF Entry
<1>2. CASE \E h \in OtherHosts : e = Entry(h, Fallback)
  BY <1>2, ServiceAssumption DEF Entry
<1>3. CASE e = FallbackEntry
  BY <1>3, ServiceAssumption DEF FallbackEntry, Entry
<1>4. QED BY <1>1, <1>2, <1>3 DEF AllEntries, Entries

LEMMA ListFacts ==
  ASSUME NEW f \in Lists
  PROVE  /\ Len(f) \in Nat /\ Len(f) - 1 \in Nat /\ Len(f) \in 1..Len(f)
         /\ DOMAIN f = 1..Len(f)
         /\ \A i \in 1..Len(f) : f[i] \in AllEntries
         /\ Last(f) = f[Len(f)] /\ Last(f) \in AllEntries
<1>1. Len(f) \in Nat \ {0} /\ DOMAIN f = 1..Len(f) /\ \A i \in 1..Len(f) : f[i] \in AllEntries
  BY EmptySeq DEF Lists
<1>2. Len(f) - 1 \in Nat /\ Len(f) \in 1..Len(f)
  BY <1>1
<1>3. QED BY <1>1, <1>2 DEF Last

\* The entries kept are those at the positions kept, in their order.
LEMMA OthersFacts ==
  ASSUME NEW f \in Lists
  PROVE  LET kept == Kept(f, Domain)
             order == InOrder(kept)
             others == Others(f, Domain)
         IN /\ others \in Seq(AllEntries) /\ Len(others) \in Nat
            /\ kept \in SUBSET (1..(Len(f) - 1))
            /\ \A k \in 1..Len(others) : order[k] \in kept /\ others[k] = f[order[k]]
            /\ \A i \in kept : \E k \in 1..Len(others) : order[k] = i
            /\ \A k, l \in 1..Len(others) : k < l <=> order[k] < order[l]
<1> DEFINE kept == Kept(f, Domain)
           order == InOrder(kept)
           others == Others(f, Domain)
           n == Len(f) - 1
           m == Cardinality(kept)
<1>1. n \in Nat /\ kept \in SUBSET (1..n)
  BY ListFacts DEF Kept
<1>2. /\ m \in Nat /\ order \in [1..m -> kept]
      /\ \A i \in kept : \E k \in 1..m : order[k] = i
      /\ \A k, l \in 1..m : k < l <=> order[k] < order[l]
  BY <1>1, InOrderFacts
<1>3. others = [k \in 1..m |-> f[order[k]]]
  BY <1>2 DEF Others
<1>4. \A i \in kept : f[i] \in AllEntries
  <2>1. \A i \in 1..n : i \in 1..Len(f)
    BY ListFacts
  <2>2. QED BY <1>1, <2>1, ListFacts
<1>5. others \in Seq(AllEntries) /\ Len(others) = m
  BY <1>2, <1>3, <1>4
<1>6. QED BY <1>1, <1>2, <1>3, <1>5

\* The list with the entries mid between those kept and the fallback.
Around(f, mid) == Others(f, Domain) \o mid \o <<Last(f)>>

LEMMA AroundFacts ==
  ASSUME NEW f \in Lists, NEW mid \in Seq(AllEntries)
  PROVE  LET others == Others(f, Domain)
             new == Around(f, mid)
             m == Len(others)
         IN /\ new \in Lists /\ Len(new) = m + Len(mid) + 1
            /\ \A k \in 1..m : new[k] = others[k]
            /\ \A k \in 1..Len(mid) : new[m + k] = mid[k]
            /\ new[Len(new)] = Last(f) /\ Last(new) = Last(f)
<1> DEFINE others == Others(f, Domain)
           new == Around(f, mid)
           m == Len(others)
           front == others \o mid
<1>1. others \in Seq(AllEntries) /\ m \in Nat /\ Len(mid) \in Nat
  BY OthersFacts
<1>2. /\ front \in Seq(AllEntries) /\ Len(front) = m + Len(mid)
      /\ \A k \in 1..(m + Len(mid)) : front[k] = IF k <= m THEN others[k] ELSE mid[k - m]
  BY <1>1, ConcatProperties
<1>3. <<Last(f)>> \in Seq(AllEntries) /\ Len(<<Last(f)>>) = 1 /\ <<Last(f)>>[1] = Last(f)
  BY ListFacts
<1>4. /\ new \in Seq(AllEntries) /\ Len(new) = Len(front) + 1
      /\ \A k \in 1..(Len(front) + 1) :
           new[k] = IF k <= Len(front) THEN front[k] ELSE <<Last(f)>>[k - Len(front)]
  BY <1>2, <1>3, ConcatProperties DEF Around
<1>5. Len(new) = m + Len(mid) + 1 /\ new # <<>>
  BY <1>1, <1>2, <1>4
<1>6. \A k \in 1..m : new[k] = others[k]
  BY <1>1, <1>2, <1>4
<1>7. \A k \in 1..Len(mid) : new[m + k] = mid[k]
  BY <1>1, <1>2, <1>4
<1>8. new[Len(new)] = Last(f)
  <2>1. /\ Len(new) \in 1..(Len(front) + 1) /\ ~ Len(new) <= Len(front)
        /\ Len(new) - Len(front) = 1
    BY <1>1, <1>2, <1>4
  <2>2. QED BY <1>3, <1>4, <2>1
<1>9. Last(new) = Last(f)
  BY <1>8 DEF Last
<1>10. QED BY <1>4, <1>5, <1>6, <1>7, <1>8, <1>9 DEF Lists

\* What the two mutations write has this form.
LEMMA WrittenLists ==
  ASSUME NEW f \in Lists
  PROVE  /\ TargetEntries(Domain, Service) \in Seq(AllEntries)
         /\ Len(TargetEntries(Domain, Service)) = 2
         /\ TargetEntries(Domain, Service)[1] = Entry(Apex, Service)
         /\ TargetEntries(Domain, Service)[2] = Entry(Star, Service)
         /\ Rewrite(f, Domain, Service) = Around(f, TargetEntries(Domain, Service))
         /\ Others(f, Domain) \o <<Last(f)>> = Around(f, <<>>)
<1>1. TargetEntries(Domain, Service) = <<Entry(Apex, Service), Entry(Star, Service)>>
  BY DEF TargetEntries, Apex, Star
<1>2. Entry(Apex, Service) \in AllEntries /\ Entry(Star, Service) \in AllEntries
  BY TargetFacts, ServiceAssumption DEF AllEntries, Entries
<1>3. Rewrite(f, Domain, Service) = Around(f, TargetEntries(Domain, Service))
  BY DEF Rewrite, Around
<1>4. Others(f, Domain) \o <<Last(f)>> = Around(f, <<>>)
  BY OthersFacts, ConcatEmptySeq DEF Around
<1>5. QED BY <1>1, <1>2, <1>3, <1>4

\* The kept entries are those of other hostnames, and the fallback is the only
\* entry without one.
LEMMA KeptHosts ==
  ASSUME NEW f \in Lists, WellFormed(f), NEW i \in 1..(Len(f) - 1)
  PROVE  /\ f[i] \in AllEntries /\ f[i].host \in Names \cup OtherHosts /\ f[i].host # NoHost
         /\ i \in Kept(f, Domain) <=> f[i].host \notin Names
<1>1. i \in 1..Len(f) /\ i # Len(f)
  BY ListFacts
<1>2. f[i] \in AllEntries /\ f[i].host # NoHost
  BY <1>1, ListFacts DEF WellFormed
<1>3. QED BY <1>2, EntryFacts DEF Kept, Names

\* A file that can be read is not one that cannot.
LEMMA ListIsNotBroken == Broken \notin Seq(AllEntries)
<1>1. AllEntries \subseteq [host : Hostnames \cup {NoHost, EmptyHost}, service : Services]
  <2>1. \A h \in Names \cup OtherHosts \cup {NoHost} : h \in Hostnames \cup {NoHost, EmptyHost}
    BY TargetFacts, HostsAssumption
  <2>2. QED BY <2>1, EntryFacts DEF Entry
<1>2. QED BY <1>1, SeqMonotonic, StandInsAssumption

\* A list with entries of the targets between the kept ones and the fallback is
\* as well-formed as the list it comes from.
LEMMA AroundWellFormed ==
  ASSUME NEW f \in Lists, WellFormed(f), NEW mid \in Seq(AllEntries),
         \A k \in 1..Len(mid) : mid[k].host \in Names
  PROVE  WellFormed(Around(f, mid))
<1> DEFINE others == Others(f, Domain)
           new == Around(f, mid)
           m == Len(others)
<1>1. new \in Lists /\ Len(new) = m + Len(mid) + 1 /\ m \in Nat /\ Len(mid) \in Nat
  BY AroundFacts, OthersFacts
<1>2. new # Broken /\ new # <<>>
  BY <1>1, ListIsNotBroken DEF Lists
<1>3. ASSUME NEW k \in 1..m PROVE new[k].host # NoHost
  <2> DEFINE i == InOrder(Kept(f, Domain))[k]
  <2>1. new[k] = others[k]
    BY AroundFacts
  <2>2. others[k] = f[i] /\ i \in 1..(Len(f) - 1)
    BY OthersFacts
  <2>3. QED BY <2>1, <2>2, KeptHosts
<1>4. ASSUME NEW k \in 1..Len(mid) PROVE new[m + k].host # NoHost
  <2>1. new[m + k] = mid[k] /\ mid[k].host \in Names
    BY AroundFacts
  <2>2. QED BY <2>1, TargetFacts DEF IsHostname
<1>5. new[Len(new)].host = NoHost
  BY AroundFacts, ListFacts DEF WellFormed
<1>6. ASSUME NEW i \in 1..Len(new) PROVE new[i].host = NoHost <=> i = Len(new)
  <2>1. CASE i \in 1..m
    BY <1>1, <1>3, <2>1
  <2>2. CASE i - m \in 1..Len(mid)
    <3>1. m + (i - m) = i /\ i # Len(new)
      BY <1>1, <2>2
    <3>2. new[m + (i - m)].host # NoHost
      BY <1>4, <2>2
    <3>3. QED BY <3>1, <3>2
  <2>3. CASE i = Len(new)
    BY <1>5, <2>3
  <2>4. QED BY <1>1, <2>1, <2>2, <2>3
<1>7. DOMAIN new = 1..Len(new)
  BY <1>1, ListFacts
<1>8. QED BY <1>2, <1>6, <1>7 DEF WellFormed

-----------------------------------------------------------------------------
(* Which entry serves a hostname.                                          *)

\* The route is the lowest entry that captures the name, or else the fallback.
LEMMA RouteFacts ==
  ASSUME NEW f \in Lists, NEW h
  PROVE  /\ Captures(f, h) \in SUBSET (1..(Len(f) - 1))
         /\ Captures(f, h) = {} => Route(f, h) = Last(f)
         /\ Captures(f, h) # {} => \E i \in Captures(f, h) : \A k \in Captures(f, h) : i <= k
         /\ \A i \in Captures(f, h) : (\A k \in Captures(f, h) : i <= k) => Route(f, h) = f[i]
<1> DEFINE is == Captures(f, h)
<1>1. is \in SUBSET (1..(Len(f) - 1)) /\ Len(f) - 1 \in Nat
  BY ListFacts DEF Captures
<1>2. is = {} => Route(f, h) = Last(f)
  BY DEF Route, Last
<1>3. is # {} => \E i \in is : \A k \in is : i <= k
  BY <1>1, LowestPosition
<1>4. ASSUME NEW i \in is, \A k \in is : i <= k PROVE Route(f, h) = f[i]
  <2> DEFINE c == CHOOSE c \in is : \A k \in is : c <= k
  <2>1. c \in is /\ \A k \in is : c <= k
    BY <1>4
  <2>2. c <= i /\ i <= c /\ c \in Nat /\ i \in Nat
    BY <1>1, <1>4, <2>1
  <2>3. c = i
    BY <2>2
  <2>4. QED BY <1>4, <2>3 DEF Route
<1>5. QED BY <1>1, <1>2, <1>3, <1>4

\* Only their own entries capture the apex and the probe of the wildcard.
LEMMA CapturesOfTargets ==
  ASSUME NEW f \in Lists, WellFormed(f)
  PROVE  /\ Captures(f, Apex) = Positions(f, Apex)
         /\ Captures(f, Probe(Domain)) = Positions(f, Star)
<1>1. ASSUME NEW i \in 1..(Len(f) - 1)
      PROVE  /\ IsHostname(f[i].host) /\ Matches(f[i].host, Apex) <=> f[i].host = Apex
             /\ IsHostname(f[i].host) /\ Matches(f[i].host, Probe(Domain)) <=> f[i].host = Star
  <2>1. f[i].host \in Names \cup OtherHosts /\ f[i].host # NoHost
    BY KeptHosts
  <2>2. CASE f[i].host = EmptyHost
    BY <2>2, TargetFacts DEF IsHostname
  <2>3. CASE f[i].host # EmptyHost
    BY <2>1, <2>3, WhoCapturesTheTargets DEF IsHostname
  <2>4. QED BY <2>2, <2>3
<1>2. QED BY <1>1 DEF Captures, Positions

\* A change of the entries of the targets leaves the route of a name alone when
\* its entry is kept, or when it has none and no target captures it.
LEMMA AroundRoutes ==
  ASSUME NEW f \in Lists, WellFormed(f), NEW mid \in Seq(AllEntries),
         \A k \in 1..Len(mid) : mid[k].host \in Names, NEW h
  PROVE  LET is == Captures(f, h)
         IN /\ \A i \in is : (\A k \in is : i <= k) /\ f[i].host \notin Names
                               => Route(Around(f, mid), h) = f[i]
            /\ is = {} /\ (\A t \in Names : ~ Matches(t, h))
                 => Route(Around(f, mid), h) = Last(f)
<1> DEFINE is == Captures(f, h)
           kept == Kept(f, Domain)
           order == InOrder(kept)
           others == Others(f, Domain)
           new == Around(f, mid)
           m == Len(others)
<1>1. /\ new \in Lists /\ Len(new) = m + Len(mid) + 1 /\ m \in Nat /\ Len(mid) \in Nat
      /\ Last(new) = Last(f)
  BY AroundFacts, OthersFacts
<1>2. ASSUME NEW k \in 1..m
      PROVE  /\ order[k] \in kept /\ order[k] \in 1..(Len(f) - 1) /\ new[k] = f[order[k]]
             /\ k \in Captures(new, h) <=> order[k] \in is
  <2>1. new[k] = others[k]
    BY AroundFacts
  <2>2. order[k] \in kept /\ order[k] \in 1..(Len(f) - 1) /\ others[k] = f[order[k]]
    BY OthersFacts
  <2>3. k \in 1..(Len(new) - 1)
    BY <1>1
  <2>4. QED BY <2>1, <2>2, <2>3 DEF Captures
<1>3. ASSUME NEW k \in Captures(new, h), k \notin 1..m
      PROVE  k > m /\ \E t \in Names : Matches(t, h)
  <2>1. k \in 1..(Len(new) - 1) /\ Matches(new[k].host, h)
    BY DEF Captures
  <2>2. k > m /\ k - m \in 1..Len(mid) /\ m + (k - m) = k
    BY <1>1, <1>3, <2>1
  <2>3. new[m + (k - m)] = mid[k - m] /\ mid[k - m].host \in Names
    BY <2>2, AroundFacts
  <2>4. QED BY <2>1, <2>2, <2>3
<1>4. ASSUME NEW i \in is, \A j \in is : i <= j, f[i].host \notin Names
      PROVE  Route(new, h) = f[i]
  <2>1. i \in 1..(Len(f) - 1)
    BY RouteFacts
  <2>2. i \in kept
    BY <1>4, <2>1, KeptHosts
  <2>3. PICK k \in 1..m : order[k] = i
    BY <2>2, OthersFacts
  <2>4. k \in Captures(new, h) /\ new[k] = f[i]
    BY <1>2, <2>3
  <2>5. ASSUME NEW l \in Captures(new, h) PROVE k <= l
    <3>1. CASE l \in 1..m
      <4>1. i <= order[l]
        BY <1>2, <1>4, <3>1
      <4>2. l < k <=> order[l] < order[k]
        BY <3>1, OthersFacts
      <4>3. order[l] \in Nat /\ i \in Nat
        BY <1>2, <2>1, <3>1
      <4>4. ~ l < k
        BY <2>3, <4>1, <4>2, <4>3
      <4>5. QED BY <1>1, <3>1, <4>4
    <3>2. CASE l \notin 1..m
      <4>1. l > m
        BY <1>3, <3>2
      <4>2. l \in Nat
        BY <1>1, RouteFacts
      <4>3. QED BY <1>1, <4>1, <4>2
    <3>3. QED BY <3>1, <3>2
  <2>6. QED BY <1>1, <2>4, <2>5, RouteFacts
<1>5. ASSUME is = {}, \A t \in Names : ~ Matches(t, h)
      PROVE  Route(new, h) = Last(f)
  <2>1. Captures(new, h) = {}
    BY <1>2, <1>3, <1>5
  <2>2. QED BY <1>1, <2>1, RouteFacts
<1>6. QED BY <1>4, <1>5

-----------------------------------------------------------------------------
(* What the report says of a target.                                       *)

\* The service of the only entry of a name.
LEMMA OnePosition ==
  ASSUME NEW f \in Lists, NEW h, NEW i \in Positions(f, h), \A j \in Positions(f, h) : j = i
  PROVE  /\ ExactService(f, h) = {f[i].service}
         /\ i \in 1..(Len(f) - 1) /\ f[i].host = h /\ f[i] = Entry(h, f[i].service)
<1>1. i \in 1..(Len(f) - 1) /\ f[i].host = h
  BY DEF Positions
<1>2. i <= i /\ i \in 1..Len(f)
  BY <1>1, ListFacts
<1>3. f[i] = Entry(h, f[i].service)
  BY <1>1, <1>2, ListFacts, EntryFacts
<1>4. ExactService(f, h) = {f[i].service}
  BY <1>2 DEF ExactService
<1>5. QED BY <1>1, <1>3, <1>4

\* A target is never shadowed, and the report's match says what add looks at.
LEMMA StatusFacts ==
  ASSUME NEW f \in Lists, WellFormed(f), NEW t \in Names
  PROVE  LET status == IngressStatus(f, Domain, t, Service)
             exact == Positions(f, t)
         IN /\ status.duplicate <=> Cardinality(exact) > 1
            /\ ~ status.shadowed
            /\ status.matches <=> Cardinality(exact) = 1 /\ ExactService(f, t) = {Service}
<1> DEFINE status == IngressStatus(f, Domain, t, Service)
           exact == Positions(f, t)
           probe == IF t.wild THEN Probe(Domain) ELSE t
           route == Route(f, probe)
<1>1. /\ status.duplicate <=> Cardinality(exact) > 1
      /\ status.shadowed <=> route.host \notin {t, NoHost}
      /\ status.matches <=> /\ Cardinality(exact) = 1
                            /\ ExactService(f, t) = {Service}
                            /\ route = Entry(t, Service)
  BY DEF IngressStatus
<1>2. Captures(f, probe) = exact /\ exact \in SUBSET (1..(Len(f) - 1))
  BY CapturesOfTargets, TargetFacts DEF Positions
<1>3. route.host \in {t, NoHost}
  <2>1. CASE exact = {}
    BY <1>2, <2>1, RouteFacts, ListFacts DEF WellFormed
  <2>2. CASE exact # {}
    <3>1. PICK i \in exact : route = f[i]
      BY <1>2, <2>2, RouteFacts
    <3>2. QED BY <3>1 DEF Positions
  <2>3. QED BY <2>1, <2>2
<1>4. ASSUME Cardinality(exact) = 1, ExactService(f, t) = {Service}
      PROVE  route = Entry(t, Service)
  <2>1. Len(f) - 1 \in Nat
    BY ListFacts
  <2>2. PICK i : exact = {i}
    BY <1>2, <1>4, <2>1, FewPositions
  <2>3. f[i] = Entry(t, Service)
    <3>1. {f[i].service} = {Service} /\ f[i] = Entry(t, f[i].service)
      BY <1>4, <2>2, OnePosition
    <3>2. f[i].service = Service
      BY <3>1
    <3>3. QED BY <3>1, <3>2
  <2>4. i <= i
    BY <1>2, <2>2
  <2>5. route = f[i]
    BY <1>2, <2>2, <2>4, RouteFacts
  <2>6. QED BY <2>3, <2>5
<1>5. QED BY <1>1, <1>3, <1>4

-----------------------------------------------------------------------------
(* What an add writes.                                                     *)

\* The list an add writes names each target once, for the service.
LEMMA RewriteReconciles ==
  ASSUME NEW f \in Lists, WellFormed(f)
  PROVE  LET new == Rewrite(f, Domain, Service)
         IN /\ new \in Lists /\ WellFormed(new)
            /\ \A t \in Names : Cardinality(Positions(new, t)) = 1
            /\ Accepts(new, Domain) /\ Reconciled(new, Domain, Service)
<1> DEFINE mid == TargetEntries(Domain, Service)
           others == Others(f, Domain)
           m == Len(others)
           new == Around(f, mid)
<1>1. /\ mid \in Seq(AllEntries) /\ Len(mid) = 2
      /\ mid[1] = Entry(Apex, Service) /\ mid[2] = Entry(Star, Service)
      /\ Rewrite(f, Domain, Service) = new
  BY WrittenLists
<1>2. \A k \in 1..Len(mid) : mid[k].host \in Names
  <2>1. mid[1].host = Apex /\ mid[2].host = Star
    BY <1>1 DEF Entry
  <2>2. \A k \in 1..2 : k = 1 \/ k = 2
    OBVIOUS
  <2>3. QED BY <1>1, <2>1, <2>2, TargetFacts
<1>3. new \in Lists /\ Len(new) = m + 3 /\ m \in Nat
  <2>1. new \in Lists /\ Len(new) = m + Len(mid) + 1
    BY <1>1, AroundFacts
  <2>2. m \in Nat
    BY OthersFacts
  <2>3. QED BY <1>1, <2>1, <2>2
<1>4. WellFormed(new)
  BY <1>1, <1>2, AroundWellFormed
<1>5. /\ \A k \in 1..m : new[k].host \notin Names
      /\ new[m + 1] = Entry(Apex, Service) /\ new[m + 2] = Entry(Star, Service)
  <2>1. ASSUME NEW k \in 1..m PROVE new[k].host \notin Names
    <3> DEFINE i == InOrder(Kept(f, Domain))[k]
    <3>1. new[k] = others[k]
      BY <1>1, AroundFacts
    <3>2. others[k] = f[i] /\ i \in Kept(f, Domain) /\ i \in 1..(Len(f) - 1)
      BY OthersFacts
    <3>3. QED BY <3>1, <3>2, KeptHosts
  <2>2. new[m + 1] = mid[1] /\ new[m + 2] = mid[2]
    <3>1. 1 \in 1..Len(mid) /\ 2 \in 1..Len(mid)
      BY <1>1
    <3>2. QED BY <1>1, <3>1, AroundFacts
  <2>3. QED BY <1>1, <2>1, <2>2
<1>6. Positions(new, Apex) = {m + 1} /\ Positions(new, Star) = {m + 2}
  <2>1. \A i \in 1..(Len(new) - 1) : i \in 1..m \/ i = m + 1 \/ i = m + 2
    BY <1>3
  <2>2. m + 1 \in 1..(Len(new) - 1) /\ m + 2 \in 1..(Len(new) - 1) /\ m + 1 # m + 2
    BY <1>3
  <2>3. Entry(Apex, Service).host = Apex /\ Entry(Star, Service).host = Star
    BY DEF Entry
  <2>4. QED BY <1>5, <2>1, <2>2, <2>3, TargetFacts DEF Positions
<1>7. \A t \in Names : Cardinality(Positions(new, t)) = 1
  BY <1>6, TargetFacts, FS_Singleton
<1>8. Accepts(new, Domain)
  <2>1. \A t \in Names : Cardinality(Positions(new, t)) <= 1
    BY <1>7
  <2>2. QED BY <1>4, <2>1 DEF Accepts, Names
<1>9. Reconciled(new, Domain, Service)
  <2>1. ExactService(new, Apex) = {Service} /\ ExactService(new, Star) = {Service}
    <3>1. Entry(Apex, Service).service = Service /\ Entry(Star, Service).service = Service
      BY DEF Entry
    <3>2. PICK i : i = m + 1
      OBVIOUS
    <3>3. PICK j : j = m + 2
      OBVIOUS
    <3>4. /\ i \in Positions(new, Apex) /\ \A k \in Positions(new, Apex) : k = i
          /\ j \in Positions(new, Star) /\ \A k \in Positions(new, Star) : k = j
      BY <1>6, <3>2, <3>3
    <3>5. ExactService(new, Apex) = {new[i].service}
      BY <1>3, <3>4, OnePosition
    <3>6. ExactService(new, Star) = {new[j].service}
      BY <1>3, <3>4, OnePosition
    <3>7. QED BY <1>5, <3>1, <3>2, <3>3, <3>5, <3>6
  <2>2. QED BY <2>1, TargetFacts DEF Reconciled, Names
<1>10. QED BY <1>1, <1>3, <1>4, <1>7, <1>8, <1>9

\* A name has no entry exactly when it has no service of its own.
LEMMA ExactOfOne ==
  ASSUME NEW f \in Lists, NEW h
  PROVE  /\ Positions(f, h) \in SUBSET (1..(Len(f) - 1)) /\ Len(f) - 1 \in Nat
         /\ Positions(f, h) = {} => ExactService(f, h) = {}
BY ListFacts DEF Positions, ExactService

\* Every target matches in the report exactly when the file is accepted and each
\* target has its entry already.
LEMMA MatchesMeansReconciled ==
  ASSUME NEW f \in Lists, WellFormed(f)
  PROVE  (\A t \in Names : IngressStatus(f, Domain, t, Service).matches)
           <=> Accepts(f, Domain) /\ Reconciled(f, Domain, Service)
<1>1. ASSUME NEW t \in Names
      PROVE  IngressStatus(f, Domain, t, Service).matches
               <=> Cardinality(Positions(f, t)) <= 1 /\ ExactService(f, t) = {Service}
  <2>1. Cardinality(Positions(f, t)) = 1
          <=> Positions(f, t) # {} /\ Cardinality(Positions(f, t)) <= 1
    <3>1. Positions(f, t) \in SUBSET (1..(Len(f) - 1)) /\ Len(f) - 1 \in Nat
      BY ExactOfOne
    <3>2. QED BY <3>1, FewPositions
  <2>2. ExactService(f, t) = {Service} => Positions(f, t) # {}
    BY ExactOfOne
  <2>3. QED BY <2>1, <2>2, StatusFacts
<1>2. QED BY <1>1 DEF Accepts, Reconciled, Names

\* On a file it accepts, an add has nothing to write exactly when each target has
\* its entry already; what it leaves is accepted and needs nothing more.
LEMMA AddedFacts ==
  ASSUME NEW f \in Lists, Accepts(f, Domain)
  PROVE  /\ Added(f, Domain, Service) = f <=> Reconciled(f, Domain, Service)
         /\ LET new == Added(f, Domain, Service)
            IN /\ new \in Lists /\ WellFormed(new)
               /\ Accepts(new, Domain) /\ Reconciled(new, Domain, Service)
<1>1. WellFormed(f)
  BY DEF Accepts
<1>2. QED BY <1>1, RewriteReconciles DEF Added

\* A removal leaves no entry of a target.
LEMMA WithoutFacts ==
  ASSUME NEW f \in Lists, WellFormed(f)
  PROVE  LET new == Without(f, Domain)
         IN /\ new \in Lists /\ WellFormed(new) /\ Last(new) = Last(f)
            /\ \A t \in Names : Positions(new, t) = {}
<1> DEFINE new == Around(f, <<>>)
           m == Len(Others(f, Domain))
<1>1. <<>> \in Seq(AllEntries) /\ Len(<<>>) = 0 /\ \A k \in 1..Len(<<>>) : <<>>[k].host \in Names
  BY EmptySeq
<1>2. new \in Lists /\ Len(new) = m + 1 /\ m \in Nat /\ Last(new) = Last(f) /\ WellFormed(new)
  <2>1. m \in Nat
    BY OthersFacts
  <2>2. new \in Lists /\ Len(new) = m + Len(<<>>) + 1 /\ Last(new) = Last(f)
    BY <1>1, AroundFacts
  <2>3. WellFormed(new)
    BY <1>1, AroundWellFormed
  <2>4. QED BY <1>1, <2>1, <2>2, <2>3
<1>3. ASSUME NEW k \in 1..(Len(new) - 1) PROVE new[k].host \notin Names
  <2> DEFINE i == InOrder(Kept(f, Domain))[k]
  <2>1. k \in 1..m
    BY <1>2
  <2>2. new[k] = Others(f, Domain)[k]
    BY <1>1, <2>1, AroundFacts
  <2>3. Others(f, Domain)[k] = f[i] /\ i \in Kept(f, Domain) /\ i \in 1..(Len(f) - 1)
    BY <2>1, OthersFacts
  <2>4. QED BY <2>2, <2>3, KeptHosts
<1>4. \A t \in Names : Positions(new, t) = {}
  BY <1>3 DEF Positions
<1>5. CASE Removed(f, Domain)
  <2>1. Without(f, Domain) = f /\ \A t \in Names : Positions(f, t) = {}
    BY <1>5 DEF Without, Removed, Names
  <2>2. QED BY <2>1
<1>6. CASE ~ Removed(f, Domain)
  <2>1. Without(f, Domain) = new
    BY <1>6, WrittenLists DEF Without
  <2>2. QED BY <1>2, <1>4, <2>1
<1>7. QED BY <1>5, <1>6

-----------------------------------------------------------------------------
(* The records of one name.                                                *)

\* A call names a record that is there, or creates one where there is none.
LEMMA CallsNameRecords ==
  ASSUME NEW rs \in RecordSets, NEW call \in UpsertCalls(rs) \cup RemovalCalls(rs)
  PROVE  \/ call \in {NoCall, Refusal}
         \/ call = Call("POST", NoId) /\ rs = {}
         \/ \E r \in Overwritable(rs) : call = Call("PUT", r.id) /\ Matching(rs) = {}
         \/ \E r \in Routing(rs) :
              call = Call("DELETE", r.id) /\ Routing(rs) = {r}
<1>1. CASE call \in UpsertCalls(rs)
  BY <1>1 DEF UpsertCalls
<1>2. CASE call \in RemovalCalls(rs)
  <2>1. CASE rs = {} \/ ConflictingRemoval(rs) \/ Routing(rs) = {}
    BY <1>2, <2>1 DEF RemovalCalls
  <2>2. CASE ~ (rs = {} \/ ConflictingRemoval(rs) \/ Routing(rs) = {})
    <3>1. PICK r \in Routing(rs) : call = Call("DELETE", r.id)
      BY <1>2, <2>2 DEF RemovalCalls
    <3>2. Routing(rs) = {r}
      BY <2>2, <3>1 DEF ConflictingRemoval, Several
    <3>3. QED BY <3>1, <3>2
  <2>3. QED BY <2>1, <2>2
<1>3. QED BY <1>1, <1>2

\* The calls have different methods.
LEMMA Methods ==
  /\ NoCall.method = "noop" /\ Refusal.method = "conflict"
  /\ \A m, id : Call(m, id).method = m /\ Call(m, id).id = id
BY DEF NoCall, Refusal, Call

LEMMA OfKindRecords ==
  ASSUME NEW rs \in RecordSets
  PROVE  Overwritable(rs) \subseteq rs /\ Routing(rs) \subseteq rs
BY DEF Overwritable, Routing, OfKind

\* A request leaves the ids of a name's records apart.
LEMMA EffectType ==
  ASSUME NEW rs \in RecordSets, NEW call \in UpsertCalls(rs) \cup RemovalCalls(rs),
         NEW id \in RecordIds
  PROVE  Effect(rs, call, id) \in RecordSets
<1>1. CASE call.method = "POST"
  <2>1. rs = {}
    BY <1>1, CallsNameRecords, Methods
  <2>2. QED BY <1>1, <2>1 DEF Effect, RecordSets, Records, Kinds
<1>2. CASE call.method = "PUT"
  <2>1. call.id \in RecordIds
    <3>1. PICK r \in Overwritable(rs) : call = Call("PUT", r.id)
      BY <1>2, CallsNameRecords, Methods
    <3>2. r \in rs /\ call.id = r.id
      BY <3>1, OfKindRecords, Methods
    <3>3. QED BY <3>2 DEF RecordSets, Records
  <2>2. QED BY <1>2, <2>1 DEF Effect, RecordSets, Records, Kinds
<1>3. CASE call.method \notin {"POST", "PUT"}
  BY <1>3 DEF Effect, RecordSets, Records
<1>4. QED BY <1>1, <1>2, <1>3

\* An upsert of a name that has a routing record leaves its mail records.
LEMMA UpsertKeepsMail ==
  ASSUME NEW rs \in RecordSets, Routing(rs) # {}, NEW new \in AfterUpsert(rs)
  PROVE  Mail(rs) \subseteq new
<1>1. PICK call \in UpsertCalls(rs), id \in RecordIds : call # Refusal /\ new = Effect(rs, call, id)
  BY DEF AfterUpsert, Results
<1>2. rs # {}
  BY OfKindRecords
<1>3. CASE call = NoCall
  BY <1>1, <1>3, Methods DEF Effect, Mail, OfKind
<1>4. CASE \E r \in Overwritable(rs) : call = Call("PUT", r.id)
  <2>1. PICK r \in Routing(rs) : call = Call("PUT", r.id)
    BY <1>4 DEF Overwritable
  <2>2. \A m \in Mail(rs) : m \in rs /\ m.id # r.id
    <3>1. ASSUME NEW m \in Mail(rs) PROVE m # r
      BY <2>1 DEF Mail, Routing, OfKind
    <3>2. r \in rs /\ \A m \in Mail(rs) : m \in rs
      BY <2>1, OfKindRecords DEF Mail, OfKind
    <3>3. QED BY <3>1, <3>2 DEF RecordSets
  <2>3. QED BY <1>1, <2>1, <2>2, Methods DEF Effect
<1>5. QED
  <2>1. UpsertCalls(rs) \subseteq {NoCall, Refusal} \cup {Call("PUT", r.id) : r \in Overwritable(rs)}
    BY <1>2 DEF UpsertCalls
  <2>2. QED BY <1>1, <1>3, <1>4, <2>1

\* A removal leaves the mail records of a name and no routing record.
LEMMA RemovalKeepsMail ==
  ASSUME NEW rs \in RecordSets, NEW new \in AfterRemoval(rs)
  PROVE  Mail(rs) \subseteq new /\ Routing(new) = {}
<1>1. PICK call \in RemovalCalls(rs), id \in RecordIds : call # Refusal /\ new = Effect(rs, call, id)
  BY DEF AfterRemoval, Results
<1>2. CASE Routing(rs) = {}
  <2>1. call = NoCall
    BY <1>1, <1>2 DEF RemovalCalls
  <2>2. QED BY <1>1, <1>2, <2>1, Methods DEF Effect, Mail, OfKind
<1>3. CASE Routing(rs) # {}
  <2>1. call # NoCall
    BY <1>1, <1>3, OfKindRecords, Methods DEF RemovalCalls
  <2>2. call \in {Call("DELETE", r.id) : r \in Routing(rs)}
    BY <1>1, <1>3, <2>1, OfKindRecords DEF RemovalCalls
  <2>3. PICK r \in Routing(rs) : call = Call("DELETE", r.id) /\ Routing(rs) = {r}
    BY <2>2, CallsNameRecords, Methods
  <2>4. new = {s \in rs : s.id # r.id} /\ r \in rs
    BY <1>1, <2>3, OfKindRecords, Methods DEF Effect
  <2>5. \A m \in Mail(rs) : m \in rs /\ m # r
    BY <2>3 DEF Mail, Routing, OfKind
  <2>6. Mail(rs) \subseteq new
    BY <2>4, <2>5 DEF RecordSets
  <2>7. Routing(new) = {}
    BY <2>3, <2>4 DEF Routing, OfKind
  <2>8. QED BY <2>6, <2>7
<1>4. QED BY <1>2, <1>3

-----------------------------------------------------------------------------
(* The commands.                                                           *)

DnsType == dns \in [Names -> RecordSets]

\* What a command leaves of the records of each name.
LEMMA RunSets ==
  ASSUME DnsType, NEW command, NEW after, NEW newFile, Run(command, after, newFile)
  PROVE  /\ DOMAIN dns' = Names
         /\ \A t \in Names : dns'[t] = dns[t] \/ dns'[t] \in after[t]
         /\ result'.outcome = "ok" => \A t \in Names : dns'[t] \in after[t]
         /\ result'.command = command
<1>1. Apex # Star /\ Names = {Apex, Star}
  BY DEF Apex, Star, Names, Targets, Host, Wild
<1>2. \A c, o : Done(c, o).command = c /\ Done(c, o).outcome = o
  BY DEF Done
<1>3. CASE UNCHANGED <<file, dns>> /\ result' = Done(command, "dns refused")
  BY <1>2, <1>3 DEF DnsType
<1>4. ASSUME NEW rs \in after[Apex], dns' = [dns EXCEPT ![Apex] = rs],
             result' = Done(command, "dns refused")
      PROVE  /\ DOMAIN dns' = Names
             /\ \A t \in Names : dns'[t] = dns[t] \/ dns'[t] \in after[t]
             /\ result'.outcome # "ok" /\ result'.command = command
  <2>1. result'.outcome = "dns refused" /\ result'.command = command
    BY <1>2, <1>4
  <2>2. dns'[Apex] = rs /\ \A t \in Names : t # Apex => dns'[t] = dns[t]
    BY <1>1, <1>4 DEF DnsType
  <2>3. DOMAIN dns' = Names
    BY <1>4 DEF DnsType
  <2>4. QED BY <2>1, <2>2, <2>3
<1>5. ASSUME NEW rs1 \in after[Apex], NEW rs2 \in after[Star],
             dns' = [dns EXCEPT ![Apex] = rs1, ![Star] = rs2],
             result' \in {Done(command, "ok"), Done(command, "ingress refused")}
      PROVE  /\ DOMAIN dns' = Names
             /\ \A t \in Names : dns'[t] \in after[t]
             /\ result'.command = command
  BY <1>1, <1>2, <1>5 DEF DnsType
<1>6. QED BY <1>2, <1>3, <1>4, <1>5 DEF Run

LEMMA AfterType ==
  ASSUME NEW rs \in RecordSets
  PROVE  AfterUpsert(rs) \subseteq RecordSets /\ AfterRemoval(rs) \subseteq RecordSets
BY EffectType DEF AfterUpsert, AfterRemoval, Results

\* A command that changes anything is an add or a remove.
LEMMA CommandSteps ==
  ASSUME Next
  PROVE  \/ UNCHANGED dns /\ (result'.outcome # "ok" \/ result'.command = "none")
         \/ EditDns
         \/ DomainAdd
         \/ DomainRemove
<1>1. NoCommand.command = "none"
  BY DEF NoCommand, Done
<1>2. \A c : Done(c, "not ready").outcome = "not ready"
  BY DEF Done
<1>3. QED BY <1>1, <1>2 DEF Next, InsertEntry, BreakFile, PreflightFails

LEMMA DnsStep ==
  ASSUME DnsType, [Next]_vars
  PROVE  DnsType'
<1>1. CASE EditDns
  BY <1>1 DEF EditDns, DnsType
<1>2. CASE DomainAdd
  <2> DEFINE after == [t \in Names |-> AfterUpsert(dns[t])]
  <2>1. \A t \in Names : after[t] \subseteq RecordSets
    BY AfterType DEF DnsType
  <2>2. DOMAIN dns' = Names /\ \A t \in Names : dns'[t] \in RecordSets
    BY <1>2, <2>1, RunSets DEF DomainAdd, DnsType
  <2>3. dns' = [t \in Names |-> dns'[t]]
    BY <1>2 DEF DomainAdd, Run, DnsType
  <2>4. QED BY <2>2, <2>3 DEF DnsType
<1>3. CASE DomainRemove
  <2> DEFINE after == [t \in Names |-> AfterRemoval(dns[t])]
  <2>1. \A t \in Names : after[t] \subseteq RecordSets
    BY AfterType DEF DnsType
  <2>2. DOMAIN dns' = Names /\ \A t \in Names : dns'[t] \in RecordSets
    BY <1>3, <2>1, RunSets DEF DomainRemove, DnsType
  <2>3. dns' = [t \in Names |-> dns'[t]]
    BY <1>3 DEF DomainRemove, Run, DnsType
  <2>4. QED BY <2>2, <2>3 DEF DnsType
<1>4. CASE UNCHANGED dns
  BY <1>4 DEF DnsType
<1>5. QED BY <1>1, <1>2, <1>3, <1>4, CommandSteps DEF vars

LEMMA DnsTypeInvariant == Spec => []DnsType
<1>1. Init => DnsType
  <2>1. {} \in RecordSets
    BY DEF RecordSets
  <2>2. QED BY <2>1 DEF Init, DnsType
<1>2. DnsType /\ [Next]_vars => DnsType'
  BY DnsStep
<1>3. QED BY <1>1, <1>2, PTL DEF Spec

-----------------------------------------------------------------------------
(* An upsert and the report of a name.                                     *)

LEMMA StatusOfRecords ==
  ASSUME NEW rs
  PROVE  /\ DnsStatus(rs).multiple <=> rs # {} /\ Conflicting(rs)
         /\ DnsStatus(rs).matches <=> Matching(rs) # {} /\ ~Conflicting(rs)
         /\ Matching(rs) # {} => rs # {}
BY DEF DnsStatus, Matching, OfKind

\* The report says a name matches when an upsert has nothing to call.
LEMMA MatchMeansNoCall ==
  ASSUME NEW rs \in RecordSets
  PROVE  DnsStatus(rs).matches <=> UpsertCalls(rs) = {NoCall}
<1>1. CASE rs = {}
  <2>1. UpsertCalls(rs) = {Call("POST", NoId)} /\ Call("POST", NoId) # NoCall
    BY <1>1, Methods DEF UpsertCalls
  <2>2. UpsertCalls(rs) # {NoCall}
    BY <2>1
  <2>3. QED BY <1>1, <2>2, StatusOfRecords
<1>2. CASE rs # {} /\ Conflicting(rs)
  <2>1. UpsertCalls(rs) = {Refusal} /\ Refusal # NoCall
    BY <1>2, Methods DEF UpsertCalls
  <2>2. UpsertCalls(rs) # {NoCall}
    BY <2>1
  <2>3. QED BY <1>2, <2>2, StatusOfRecords
<1>3. CASE rs # {} /\ ~ Conflicting(rs) /\ Matching(rs) # {}
  BY <1>3, StatusOfRecords DEF UpsertCalls
<1>4. CASE rs # {} /\ ~ Conflicting(rs) /\ Matching(rs) = {}
  <2>1. UpsertCalls(rs) = {Call("PUT", r.id) : r \in Overwritable(rs)}
    BY <1>4 DEF UpsertCalls
  <2>2. \A r : Call("PUT", r.id) # NoCall
    BY Methods
  <2>3. NoCall \notin UpsertCalls(rs)
    BY <2>1, <2>2
  <2>4. UpsertCalls(rs) # {NoCall}
    BY <2>3
  <2>5. QED BY <1>4, <2>4, StatusOfRecords
<1>5. QED BY <1>1, <1>2, <1>3, <1>4

\* A name without a conflict is repaired: its upsert goes through, and the report
\* matches afterwards.
LEMMA UpsertRepairs ==
  ASSUME NEW rs \in RecordSets
  PROVE  /\ DnsStatus(rs).multiple => AfterUpsert(rs) = {}
         /\ ~ DnsStatus(rs).multiple =>
              AfterUpsert(rs) # {} /\ \A new \in AfterUpsert(rs) : DnsStatus(new).matches
<1>1. CASE rs = {}
  <2>1. UpsertCalls(rs) = {Call("POST", NoId)} /\ Call("POST", NoId) # Refusal
    BY <1>1, Methods DEF UpsertCalls
  <2>2. AfterUpsert(rs) = {Effect(rs, Call("POST", NoId), id) : id \in RecordIds}
    BY <2>1 DEF AfterUpsert, Results
  <2>3. \A id : Effect(rs, Call("POST", NoId), id) = {[id |-> id, kind |-> "tunnel"]}
    BY <1>1, Methods DEF Effect
  <2>4. ASSUME NEW id \in RecordIds
        PROVE  DnsStatus({[id |-> id, kind |-> "tunnel"]}).matches
    <3> DEFINE post == [id |-> id, kind |-> "tunnel"]
    <3>1. post \in Matching({post}) /\ OfKind({post}, {"odd"}) = {}
      BY DEF Matching, OfKind
    <3>2. \A s \in Routing({post}) : s = post
      BY DEF Routing, OfKind
    <3>3. ~ Conflicting({post})
      BY <3>1, <3>2 DEF Conflicting, Several
    <3>4. QED BY <3>1, <3>3, StatusOfRecords
  <2>5. ~ DnsStatus(rs).multiple
    BY <1>1, StatusOfRecords
  <2>6. QED BY <2>2, <2>3, <2>4, <2>5, RecordIdsAssumption
<1>2. CASE rs # {} /\ Conflicting(rs)
  <2>1. UpsertCalls(rs) = {Refusal}
    BY <1>2 DEF UpsertCalls
  <2>2. AfterUpsert(rs) = {}
    BY <2>1 DEF AfterUpsert, Results
  <2>3. QED BY <1>2, <2>2, StatusOfRecords
<1>3. CASE rs # {} /\ ~ Conflicting(rs) /\ Matching(rs) # {}
  <2>1. UpsertCalls(rs) = {NoCall} /\ NoCall # Refusal
    BY <1>3, Methods DEF UpsertCalls
  <2>2. AfterUpsert(rs) = {Effect(rs, NoCall, id) : id \in RecordIds}
    BY <2>1 DEF AfterUpsert, Results
  <2>3. \A id : Effect(rs, NoCall, id) = rs
    BY Methods DEF Effect
  <2>4. AfterUpsert(rs) = {rs}
    BY <2>2, <2>3, RecordIdsAssumption
  <2>5. QED BY <1>3, <2>4, StatusOfRecords
<1>4. CASE rs # {} /\ ~ Conflicting(rs) /\ Matching(rs) = {}
  <2>1. UpsertCalls(rs) = {Call("PUT", r.id) : r \in Overwritable(rs)}
    BY <1>4 DEF UpsertCalls
  <2>2. \A r : Call("PUT", r.id) # Refusal
    BY Methods
  <2>3. AfterUpsert(rs) = {Effect(rs, Call("PUT", r.id), id) : r \in Overwritable(rs), id \in RecordIds}
    BY <2>1, <2>2 DEF AfterUpsert, Results
  <2>4. Overwritable(rs) # {}
    BY <1>4 DEF Overwritable
  <2>5. ASSUME NEW r \in Overwritable(rs), NEW id \in RecordIds
        PROVE  DnsStatus(Effect(rs, Call("PUT", r.id), id)).matches
    <3> DEFINE put == [id |-> r.id, kind |-> "tunnel"]
               new == {s \in rs : s.id # r.id} \cup {put}
    <3>1. Effect(rs, Call("PUT", r.id), id) = new
      BY Methods DEF Effect
    <3>2. put \in Matching(new)
      BY DEF Matching, OfKind
    <3>3. OfKind(new, {"odd"}) = {}
      BY <1>4 DEF Conflicting, OfKind
    <3>4. ASSUME NEW s \in Routing(new) PROVE s = put
      <4>1. SUFFICES ASSUME s \in rs, s.id # r.id PROVE FALSE
        BY DEF Routing, OfKind
      <4>2. s \in Routing(rs)
        BY <4>1 DEF Routing, OfKind
      <4>3. r \in Routing(rs)
        BY <4>2 DEF Overwritable
      <4>4. QED BY <1>4, <4>1, <4>2, <4>3 DEF Conflicting, Several
    <3>5. ~ Conflicting(new)
      <4>1. ~ Several(Routing(new))
        BY <3>4 DEF Several
      <4>2. \A x : Several(Routing(new) \ {x}) => Several(Routing(new))
        BY DEF Several
      <4>3. QED BY <3>3, <4>1, <4>2 DEF Conflicting
    <3>6. QED BY <3>1, <3>2, <3>5, StatusOfRecords
  <2>6. ~ DnsStatus(rs).multiple
    BY <1>4, StatusOfRecords
  <2>7. QED BY <2>3, <2>4, <2>5, <2>6, RecordIdsAssumption
<1>5. QED BY <1>1, <1>2, <1>3, <1>4

-----------------------------------------------------------------------------
(* The report of the two stores together.                                  *)

\* The report of the list f and the records d is "ok".
AllMatch(f, d) ==
  /\ \A t \in Names : DnsStatus(d[t]).matches
  /\ \A t \in Names : IngressStatus(f, Domain, t, Service).matches

LEMMA OverallOk == Overall = "ok" <=> AllMatch(file, dns)
BY DEF Overall, DnsStatuses, Reports, IngressStatuses, AllMatch, Names

LEMMA OverallOkPrimed == Overall' = "ok" <=> AllMatch(file', dns')
BY DEF Overall, DnsStatuses, Reports, IngressStatuses, AllMatch, Names

\* What makes a domain that is not ok unfit for a repair: records in conflict, or
\* a target with two entries.
LEMMA RepairableFacts ==
  ASSUME file \in Lists, WellFormed(file)
  PROVE  Repairable <=> /\ Overall # "ok"
                        /\ \A t \in Names : ~ DnsStatus(dns[t]).multiple
                        /\ Accepts(file, Domain)
<1>1. (\E i \in Reports : i.duplicate \/ i.shadowed)
        <=> \E t \in Names : Cardinality(Positions(file, t)) > 1
  <2>1. (\E i \in Reports : i.duplicate \/ i.shadowed)
          <=> \E t \in Names : IngressStatus(file, Domain, t, Service).duplicate
                                 \/ IngressStatus(file, Domain, t, Service).shadowed
    BY DEF Reports, IngressStatuses, Names
  <2>2. QED BY <2>1, StatusFacts
<1>2. \A t \in Names : Cardinality(Positions(file, t)) > 1
                         <=> ~ Cardinality(Positions(file, t)) <= 1
  <2> TAKE t \in Names
  <2>1. Positions(file, t) \in SUBSET (1..(Len(file) - 1)) /\ Len(file) - 1 \in Nat
    BY ExactOfOne
  <2>2. QED BY <2>1, FewPositions
<1>3. (\E d \in DnsStatuses : d.multiple) <=> \E t \in Names : DnsStatus(dns[t]).multiple
  BY DEF DnsStatuses
<1>4. QED BY <1>1, <1>2, <1>3 DEF Repairable, Accepts, Names

-----------------------------------------------------------------------------
(* Types.                                                                  *)

\* How a command that passes its preflight ends, and what it leaves of the file.
LEMMA RunOutcome ==
  ASSUME NEW command, NEW after, NEW newFile, Run(command, after, newFile)
  PROVE  /\ result' \in {Done(command, o) : o \in {"ok", "dns refused", "ingress refused"}}
         /\ result'.outcome = "ok" => Accepts(file, Domain) /\ file' = newFile
         /\ result'.outcome # "ok" => file' = file
         /\ result'.outcome = "ok" => \A t \in Names : after[t] # {}
         /\ Accepts(file, Domain) /\ (\A t \in Names : after[t] # {}) => result'.outcome = "ok"
<1>1. \A c, o : Done(c, o).command = c /\ Done(c, o).outcome = o
  BY DEF Done
<1>2. CASE after[Apex] = {} /\ UNCHANGED <<file, dns>> /\ result' = Done(command, "dns refused")
  <2>1. result'.outcome = "dns refused" /\ Apex \in Names /\ file' = file
    BY <1>1, <1>2, TargetFacts
  <2>2. QED BY <1>2, <2>1
<1>3. CASE after[Star] = {} /\ UNCHANGED file /\ result' = Done(command, "dns refused")
  <2>1. result'.outcome = "dns refused" /\ Star \in Names /\ file' = file
    BY <1>1, <1>3, TargetFacts
  <2>2. QED BY <1>3, <2>1
<1>4. CASE /\ after[Apex] # {} /\ after[Star] # {} /\ Accepts(file, Domain)
           /\ file' = newFile /\ result' = Done(command, "ok")
  BY <1>1, <1>4, TargetFacts
<1>5. CASE ~ Accepts(file, Domain) /\ UNCHANGED file /\ result' = Done(command, "ingress refused")
  <2>1. result'.outcome = "ingress refused" /\ file' = file
    BY <1>1, <1>5
  <2>2. QED BY <1>5, <2>1
<1>6. QED BY <1>2, <1>3, <1>4, <1>5 DEF Run

FileType == file = Broken \/ file \in Lists
ResultType == result \in [command : {"none", "add", "remove"}, outcome : Outcomes]

LEMMA CommandResult ==
  ASSUME NEW command \in {"none", "add", "remove"}, NEW outcome \in Outcomes
  PROVE  Done(command, outcome) \in [command : {"none", "add", "remove"}, outcome : Outcomes]
BY DEF Done

\* No edit and no command leaves a list without entries.
LEMMA FileAndResultStep ==
  ASSUME FileType, ResultType, [Next]_vars
  PROVE  FileType' /\ ResultType'
<1>1. result' = NoCommand => ResultType'
  <2>1. "ok" \in Outcomes
    BY DEF Outcomes
  <2>2. QED BY <2>1, CommandResult DEF ResultType, NoCommand
<1>2. CASE InsertEntry
  <2>1. PICK i \in 1..(Len(file) + 1), e \in AllEntries : file' = InsertAt(file, i, e)
    BY <1>2 DEF InsertEntry, AllEntries
  <2>2. file \in Lists /\ file \in Seq(AllEntries) /\ Len(file) \in Nat
    BY <1>2, ListFacts DEF InsertEntry, FileType, Lists
  <2> DEFINE before == SubSeq(file, 1, i - 1)
             behind == SubSeq(file, i, Len(file))
  <2>3. before \in Seq(AllEntries)
    <3>1. \A k \in 1..(i - 1) : file[k] \in AllEntries
      BY <2>2
    <3>2. 1 \in Int /\ i - 1 \in Int
      BY <2>2
    <3>3. QED BY <3>1, <3>2, SubSeqProperties
  <2>4. behind \in Seq(AllEntries)
    <3>1. \A k \in i..Len(file) : file[k] \in AllEntries
      BY <2>2
    <3>2. i \in Int /\ Len(file) \in Int
      BY <2>2
    <3>3. QED BY <3>1, <3>2, SubSeqProperties
  <2>5. <<e>> \in Seq(AllEntries) /\ Len(<<e>>) = 1
    OBVIOUS
  <2>6. before \o <<e>> \in Seq(AllEntries) /\ Len(before \o <<e>>) = Len(before) + 1
    BY <2>3, <2>5, ConcatProperties
  <2>7. /\ file' \in Seq(AllEntries)
        /\ Len(file') = Len(before) + 1 + Len(behind)
    BY <2>1, <2>4, <2>6, ConcatProperties DEF InsertAt
  <2>8. Len(before) \in Nat /\ Len(behind) \in Nat
    BY <2>3, <2>4
  <2>9. file' \in Lists
    <3> HIDE DEF before, behind
    <3>1. Len(before) + 1 + Len(behind) # 0
      BY <2>8
    <3>2. file' # <<>>
      BY <2>7, <3>1, EmptySeq
    <3>3. QED BY <2>7, <3>2 DEF Lists
  <2>10. QED BY <1>1, <1>2, <2>9 DEF InsertEntry, FileType
<1>3. CASE BreakFile
  BY <1>1, <1>3 DEF BreakFile, FileType
<1>4. CASE EditDns
  BY <1>1, <1>4 DEF EditDns, FileType
<1>5. ASSUME NEW command \in {"add", "remove"}, PreflightFails(command)
      PROVE  FileType' /\ ResultType'
  BY <1>5, CommandResult DEF PreflightFails, FileType, ResultType, Outcomes
<1>6. ASSUME NEW command \in {"add", "remove"}, NEW after, NEW newFile,
             Run(command, after, newFile), Accepts(file, Domain) => newFile \in Lists
      PROVE  FileType' /\ ResultType'
  <2>1. /\ result' \in {Done(command, o) : o \in {"ok", "dns refused", "ingress refused"}}
        /\ result'.outcome = "ok" => Accepts(file, Domain) /\ file' = newFile
        /\ result'.outcome # "ok" => file' = file
    BY <1>6, RunOutcome
  <2>2. file' = file \/ file' \in Lists
    BY <1>6, <2>1
  <2>3. PICK o \in {"ok", "dns refused", "ingress refused"} : result' = Done(command, o)
    BY <2>1
  <2>4. ResultType'
    <3>1. o \in Outcomes
      BY DEF Outcomes
    <3>2. QED BY <2>3, <3>1, CommandResult DEF ResultType
  <2>5. QED BY <2>2, <2>4 DEF FileType
<1>7. Accepts(file, Domain) => file \in Lists /\ WellFormed(file)
  BY DEF Accepts, WellFormed, FileType
<1>8. CASE DomainAdd
  BY <1>6, <1>7, <1>8, AddedFacts DEF DomainAdd
<1>9. CASE DomainRemove
  BY <1>6, <1>7, <1>9, WithoutFacts DEF DomainRemove
<1>10. CASE UNCHANGED vars
  BY <1>10 DEF vars, FileType, ResultType
<1>11. QED BY <1>2, <1>3, <1>4, <1>5, <1>8, <1>9, <1>10 DEF Next

\* Every value keeps its type and no command or edit leaves an empty list of
\* entries (_normalize_ingress would refuse it).
THEOREM TypeCorrect == Spec => []TypeOK
<1>1. Init => FileType /\ ResultType
  <2>1. <<FallbackEntry>> \in Lists
    BY DEF Lists, AllEntries
  <2>2. QED BY <2>1 DEF Init, FileType, ResultType, NoCommand, Done, Outcomes
<1>2. FileType /\ ResultType /\ [Next]_vars => (FileType /\ ResultType)'
  BY FileAndResultStep
<1>3. FileType /\ ResultType /\ DnsType => TypeOK
  BY DEF FileType, ResultType, DnsType, TypeOK, Lists, AllEntries
<1>4. QED BY <1>1, <1>2, <1>3, DnsTypeInvariant, PTL DEF Spec

-----------------------------------------------------------------------------
(* The report and the mutation.                                            *)

LEMMA ListOfWellFormed ==
  ASSUME TypeOK, WellFormed(file)
  PROVE  file \in Lists /\ DnsType /\ \A t \in Names : dns[t] \in RecordSets
BY DEF TypeOK, WellFormed, Lists, AllEntries, DnsType

\* The status is ok exactly when an add finds nothing to do: what
\* _build_domain_ingress_statuses and _reconcile_ingress call configured agree.
THEOREM StatusOkMeansDone == Spec => []StatusOkMeansNothingToDo
<1>1. TypeOK => StatusOkMeansNothingToDo
  <2> SUFFICES ASSUME TypeOK, WellFormed(file)
               PROVE  Overall = "ok" <=> AddHasNothingToDo
    BY DEF StatusOkMeansNothingToDo
  <2>1. file \in Lists /\ \A t \in Names : dns[t] \in RecordSets
    BY ListOfWellFormed
  <2>2. (\A t \in Names : DnsStatus(dns[t]).matches)
          <=> \A t \in Names : UpsertCalls(dns[t]) = {NoCall}
    BY <2>1, MatchMeansNoCall
  <2>3. (\A t \in Names : IngressStatus(file, Domain, t, Service).matches)
          <=> Accepts(file, Domain) /\ Added(file, Domain, Service) = file
    BY <2>1, MatchesMeansReconciled, AddedFacts
  <2>4. QED BY <2>2, <2>3, OverallOk DEF AllMatch, AddHasNothingToDo
<1>2. QED BY <1>1, TypeCorrect, PTL

\* What a step that reports an add did, when it passed its preflight.
LEMMA AddStep ==
  ASSUME [Next]_vars, ~ UNCHANGED vars, result'.command = "add", result'.outcome # "not ready"
  PROVE  DomainAdd
<1>1. NoCommand.command = "none"
  BY DEF NoCommand, Done
<1>2. \A c : Done(c, "not ready").outcome = "not ready"
  BY DEF Done
<1>3. ~ DomainRemove
  <2>1. DomainRemove => result' \in {Done("remove", o) : o \in {"ok", "dns refused", "ingress refused"}}
    BY RunOutcome DEF DomainRemove
  <2>2. \A o : Done("remove", o).command # "add"
    BY DEF Done
  <2>3. QED BY <2>1, <2>2
<1>4. QED BY <1>1, <1>2, <1>3 DEF Next, InsertEntry, BreakFile, EditDns, PreflightFails

\* A repair that passes its preflight ends ok, with the report ok, when the report
\* called the domain repairable, and fails when it asked for a manual fix.
THEOREM RepairKeepsPromise == Spec => RepairDoesWhatStatusSaid
<1> DEFINE Promise ==
      result'.command = "add" /\ result'.outcome # "not ready" /\ WellFormed(file) =>
        /\ Repairable => result'.outcome = "ok" /\ Overall' = "ok"
        /\ ~Repairable /\ Overall # "ok" => result'.outcome # "ok"
<1>1. TypeOK /\ [Next]_vars => [Promise]_vars
  <2> SUFFICES ASSUME TypeOK, [Next]_vars, ~ UNCHANGED vars, result'.command = "add",
                      result'.outcome # "not ready", WellFormed(file)
               PROVE  /\ Repairable => result'.outcome = "ok" /\ Overall' = "ok"
                      /\ ~Repairable /\ Overall # "ok" => result'.outcome # "ok"
    OBVIOUS
  <2> DEFINE after == [t \in Names |-> AfterUpsert(dns[t])]
             new == Added(file, Domain, Service)
  <2>1. Run("add", after, new)
    BY AddStep DEF DomainAdd
  <2>2. file \in Lists /\ DnsType /\ \A t \in Names : dns[t] \in RecordSets
    BY ListOfWellFormed
  <2>3. \A t \in Names : after[t] = AfterUpsert(dns[t])
    OBVIOUS
  <2> HIDE DEF after, new
  <2>4. ASSUME Repairable PROVE result'.outcome = "ok" /\ Overall' = "ok"
    <3>1. Accepts(file, Domain) /\ \A t \in Names : ~ DnsStatus(dns[t]).multiple
      BY <2>2, <2>4, RepairableFacts
    <3>2. \A t \in Names : after[t] # {}
      BY <2>2, <2>3, <3>1, UpsertRepairs
    <3>3. result'.outcome = "ok"
      BY <2>1, <3>1, <3>2, RunOutcome
    <3>4. file' = new /\ \A t \in Names : dns'[t] \in AfterUpsert(dns[t])
      BY <2>1, <2>2, <2>3, <3>3, RunOutcome, RunSets
    <3>5. \A t \in Names : DnsStatus(dns'[t]).matches
      BY <2>2, <3>1, <3>4, UpsertRepairs
    <3>6. /\ new \in Lists /\ WellFormed(new)
          /\ Accepts(new, Domain) /\ Reconciled(new, Domain, Service)
      BY <2>2, <3>1, AddedFacts DEF new
    <3>7. \A t \in Names : IngressStatus(new, Domain, t, Service).matches
      BY <3>6, MatchesMeansReconciled
    <3>8. AllMatch(file', dns')
      BY <3>4, <3>5, <3>7 DEF AllMatch
    <3>9. QED BY <3>3, <3>8, OverallOkPrimed
  <2>5. ASSUME ~ Repairable, Overall # "ok" PROVE result'.outcome # "ok"
    <3>1. CASE \E t \in Names : DnsStatus(dns[t]).multiple
      <4>1. \E t \in Names : after[t] = {}
        BY <2>2, <2>3, <3>1, UpsertRepairs
      <4>2. QED BY <2>1, <4>1, RunOutcome
    <3>2. CASE ~ Accepts(file, Domain)
      BY <2>1, <3>2, RunOutcome
    <3>3. QED BY <2>2, <2>5, <3>1, <3>2, RepairableFacts
  <2>6. QED BY <2>4, <2>5
<1>2. QED BY <1>1, TypeCorrect, PTL DEF Spec, RepairDoesWhatStatusSaid

-----------------------------------------------------------------------------
(* The routes of everything else.                                          *)

\* No target captures a hostname outside the domain.
LEMMA TargetsCaptureInside ==
  ASSUME NEW h, OutsideDomain(h), NEW t \in Names
  PROVE  ~ Matches(t, h)
<1>1. IsPrefix(Domain, Domain)
  <2>1. Domain \in Seq(STRING \cup {Domain}) /\ Domain \in STRING \cup {Domain}
    BY HostsAssumption, SeqMonotonic
  <2>2. QED BY <2>1, PrefixFacts
<1>2. t.labels = Domain
  BY TargetFacts
<1>3. QED BY <1>1, <1>2 DEF Matches, OutsideDomain

\* With other entries of the targets around the same kept ones, a hostname outside
\* the domain has the route it had, and so has a host that has an entry of its own
\* serving it.
LEMMA RoutesOfOthers ==
  ASSUME NEW f \in Lists, WellFormed(f), NEW mid \in Seq(AllEntries),
         \A k \in 1..Len(mid) : mid[k].host \in Names, NEW h \in OtherHosts
  PROVE  /\ OutsideDomain(h) => Route(Around(f, mid), h) = Route(f, h)
         /\ Route(f, h).host = h => Route(Around(f, mid), h) = Route(f, h)
<1> DEFINE is == Captures(f, h)
<1>1. CASE is = {}
  <2>1. Route(f, h) = Last(f) /\ Last(f).host = NoHost
    BY <1>1, RouteFacts, ListFacts DEF WellFormed
  <2>2. Route(f, h).host # h
    BY <2>1, TargetFacts
  <2>3. OutsideDomain(h) => Route(Around(f, mid), h) = Last(f)
    BY <1>1, TargetsCaptureInside, AroundRoutes
  <2>4. QED BY <2>1, <2>2, <2>3
<1>2. CASE is # {}
  <2>1. PICK i \in is : \A k \in is : i <= k
    BY <1>2, RouteFacts
  <2>2. Route(f, h) = f[i] /\ Matches(f[i].host, h)
    BY <2>1, RouteFacts DEF Captures
  <2>3. f[i].host \notin Names => Route(Around(f, mid), h) = f[i]
    BY <2>1, AroundRoutes
  <2>4. OutsideDomain(h) => f[i].host \notin Names
    BY <2>2, TargetsCaptureInside
  <2>5. Route(f, h).host = h => f[i].host \notin Names
    BY <2>2, TargetFacts
  <2>6. QED BY <2>2, <2>3, <2>4, <2>5
<1>3. QED BY <1>1, <1>2

\* A command writes a list that differs from the file in the entries of the targets
\* alone, or leaves the file.
LEMMA CommandWrites ==
  ASSUME TypeOK, [Next]_vars, ~ UNCHANGED vars, result'.command # "none", WellFormed(file)
  PROVE  \/ file' = file
         \/ \E mid \in Seq(AllEntries) :
              (\A k \in 1..Len(mid) : mid[k].host \in Names) /\ file' = Around(file, mid)
<1>1. file \in Lists
  BY ListOfWellFormed
<1>2. NoCommand.command = "none"
  BY DEF NoCommand, Done
<1>3. CASE DomainAdd
  <2> DEFINE mid == TargetEntries(Domain, Service)
  <2>1. file' = file \/ file' = Added(file, Domain, Service)
    BY <1>3, RunOutcome DEF DomainAdd
  <2>2. file' = file \/ file' = Around(file, mid)
    BY <1>1, <2>1, WrittenLists DEF Added
  <2>3. mid \in Seq(AllEntries) /\ \A k \in 1..Len(mid) : mid[k].host \in Names
    <3>1. /\ mid \in Seq(AllEntries) /\ Len(mid) = 2
          /\ mid[1] = Entry(Apex, Service) /\ mid[2] = Entry(Star, Service)
      BY <1>1, WrittenLists
    <3>2. mid[1].host = Apex /\ mid[2].host = Star
      BY <3>1 DEF Entry
    <3>3. \A k \in 1..2 : k = 1 \/ k = 2
      OBVIOUS
    <3>4. QED BY <3>1, <3>2, <3>3, TargetFacts
  <2>4. QED BY <2>2, <2>3
<1>4. CASE DomainRemove
  <2>1. file' = file \/ file' = Without(file, Domain)
    BY <1>4, RunOutcome DEF DomainRemove
  <2>2. file' = file \/ file' = Around(file, <<>>)
    BY <1>1, <2>1, WrittenLists DEF Without
  <2>3. PICK mid \in Seq(AllEntries) : mid = <<>> /\ Len(mid) = 0
    BY EmptySeq
  <2>4. \A k \in 1..Len(mid) : mid[k].host \in Names
    BY <2>3
  <2>5. QED BY <2>2, <2>3, <2>4
<1>5. CASE ~ DomainAdd /\ ~ DomainRemove
  BY <1>2, <1>5 DEF Next, InsertEntry, BreakFile, EditDns, PreflightFails
<1>6. QED BY <1>3, <1>4, <1>5

\* Adding or removing a domain leaves the routing of everything else alone: the
\* comprehension in apply_domain_ingress keeps the other entries in their order.
THEOREM OtherRoutesKept == Spec => CommandsKeepOtherRoutes
<1> DEFINE RoutesKept ==
      result'.command # "none" /\ WellFormed(file) =>
        /\ WellFormed(file') /\ Last(file') = Last(file)
        /\ \A h \in OtherHosts : OutsideDomain(h) => Route(file', h) = Route(file, h)
        /\ \A h \in OtherHosts \ {EmptyHost} :
             Route(file, h).host = h => Route(file', h) = Route(file, h)
<1>1. TypeOK /\ [Next]_vars => [RoutesKept]_vars
  <2> SUFFICES ASSUME TypeOK, [Next]_vars, ~ UNCHANGED vars, result'.command # "none",
                      WellFormed(file)
               PROVE  /\ WellFormed(file') /\ Last(file') = Last(file)
                      /\ \A h \in OtherHosts : OutsideDomain(h) => Route(file', h) = Route(file, h)
                      /\ \A h \in OtherHosts \ {EmptyHost} :
                           Route(file, h).host = h => Route(file', h) = Route(file, h)
    OBVIOUS
  <2>1. file \in Lists
    BY ListOfWellFormed
  <2>2. CASE file' = file
    BY <2>2
  <2>3. ASSUME NEW mid \in Seq(AllEntries), \A k \in 1..Len(mid) : mid[k].host \in Names,
               file' = Around(file, mid)
        PROVE  /\ WellFormed(file') /\ Last(file') = Last(file)
               /\ \A h \in OtherHosts :
                    /\ OutsideDomain(h) => Route(file', h) = Route(file, h)
                    /\ Route(file, h).host = h => Route(file', h) = Route(file, h)
    <3>1. WellFormed(file')
      BY <2>1, <2>3, AroundWellFormed
    <3>2. Last(file') = Last(file)
      BY <2>1, <2>3, AroundFacts
    <3>3. QED BY <2>1, <2>3, <3>1, <3>2, RoutesOfOthers
  <2>4. QED BY <2>2, <2>3, CommandWrites
<1>2. QED BY <1>1, TypeCorrect, PTL DEF Spec, CommandsKeepOtherRoutes

-----------------------------------------------------------------------------
(* The advisory and blocking issues.                                       *)

\* In a list without an empty hostname, an entry before another one that it names
\* again, or shadows, is a blocking issue: positions and indexes agree.
LEMMA EarlierCaptureBlocks ==
  ASSUME NEW f \in Lists, \A k \in DOMAIN f : f[k].host # EmptyHost,
         NEW i \in 1..(Len(f) - 1), NEW j \in 1..(Len(f) - 1), i < j,
         Matches(f[i].host, f[j].host), f[i].host = f[j].host \/ ~ f[j].host.wild
  PROVE  Blocking(f) # {}
<1> DEFINE n == Len(f) - 1
           named == HostEntries(f)
           p == f[i].host
           h == f[j].host
<1>1. n \in Nat /\ DOMAIN f = 1..Len(f) /\ \A k \in 1..n : k \in 1..Len(f)
  BY ListFacts
<1>2. {k \in 1..n : f[k].host # EmptyHost} = 1..n
  BY <1>1
<1>3. named = [k \in 1..n |-> [index |-> k, host |-> f[k].host]]
  <2>1. InOrder({k \in 1..n : f[k].host # EmptyHost}) = [k \in 1..n |-> k]
    BY <1>1, <1>2, InOrderInterval
  <2>2. QED BY <2>1 DEF HostEntries
<1>4. <<named[i], named[j]>> \in Compared(f)
  <2>1. <<i, j>> \in (DOMAIN named) \X (DOMAIN named)
    BY <1>3
  <2>2. named[i].index = i /\ j > i
    BY <1>3
  <2>3. QED BY <2>1, <2>2 DEF Compared
<1>5. named[i].host = p /\ named[j].host = h
  BY <1>3
<1> DEFINE PairIssues(pair) ==
      LET q == pair[1].host  g == pair[2].host IN
      IF q = g THEN {Issue("duplicate-exact-hostname", pair[1].index, pair[2].index)}
      ELSE IF PrecedenceRisk(q, g) THEN {Issue("wildcard-precedence-risk", pair[1].index, pair[2].index)}
      ELSE IF Matches(q, g) THEN {Issue("wildcard-shadows-hostname", pair[1].index, pair[2].index)}
      ELSE {}
<1>6. \A pair \in Compared(f) : PairIssues(pair) \subseteq Issues(f)
  BY DEF Issues
<1>7. \E code \in {"duplicate-exact-hostname", "wildcard-shadows-hostname"} :
        Issue(code, named[i].index, named[j].index) \in PairIssues(<<named[i], named[j]>>)
  <2>1. <<named[i], named[j]>>[1] = named[i] /\ <<named[i], named[j]>>[2] = named[j]
    OBVIOUS
  <2>2. CASE p = h
    BY <1>5, <2>1, <2>2
  <2>3. CASE p # h /\ ~ h.wild /\ Matches(p, h)
    <3>1. ~ PrecedenceRisk(p, h)
      BY <2>3 DEF PrecedenceRisk
    <3>2. QED BY <1>5, <2>1, <2>3, <3>1
  <2>4. QED BY <2>2, <2>3
<1>8. QED
  <2>1. PICK code \in {"duplicate-exact-hostname", "wildcard-shadows-hostname"} :
          Issue(code, named[i].index, named[j].index) \in Issues(f)
    BY <1>4, <1>6, <1>7
  <2>2. Issue(code, named[i].index, named[j].index) \in Blocking(f)
    BY <2>1 DEF Blocking, Issue
  <2>3. QED BY <2>2

\* A list free of blocking issues is one the commands accept and whose own
\* hostnames are each served by the entry that names them.
LEMMA UnblockedList ==
  ASSUME NEW f \in Lists, WellFormed(f), EmptyHost \notin {f[i].host : i \in DOMAIN f},
         Blocking(f) = {}
  PROVE  /\ Accepts(f, Domain)
         /\ \A i \in 1..(Len(f) - 1) : ~f[i].host.wild => Route(f, f[i].host) = f[i]
<1>1. /\ Len(f) - 1 \in Nat /\ \A k \in 1..(Len(f) - 1) : k \in DOMAIN f
      /\ \A k \in DOMAIN f : f[k].host # EmptyHost
  BY ListFacts
<1>2. ASSUME NEW i \in 1..(Len(f) - 1), NEW j \in 1..(Len(f) - 1), f[i].host = f[j].host
      PROVE  i = j
  <2>1. f[i].host = f[j].host /\ Matches(f[i].host, f[j].host) /\ Matches(f[j].host, f[i].host)
    BY <1>2 DEF Matches
  <2>2. ~ i < j
    BY <1>1, <2>1, EarlierCaptureBlocks
  <2>3. ~ j < i
    BY <1>1, <2>1, EarlierCaptureBlocks
  <2>4. QED BY <2>2, <2>3
<1>3. ASSUME NEW t \in Names PROVE Cardinality(Positions(f, t)) <= 1
  <2>1. \A i, j \in Positions(f, t) : i = j
    BY <1>2 DEF Positions
  <2>2. QED BY <1>1, <2>1, ExactOfOne, FewPositions
<1>4. Accepts(f, Domain)
  BY <1>3 DEF Accepts, Names
<1>5. ASSUME NEW i \in 1..(Len(f) - 1), ~ f[i].host.wild PROVE Route(f, f[i].host) = f[i]
  <2> DEFINE h == f[i].host
             is == Captures(f, h)
  <2>1. h # EmptyHost /\ h # NoHost
    BY <1>1, KeptHosts
  <2>2. i \in is
    BY <2>1 DEF Captures, IsHostname, Matches
  <2>3. ASSUME NEW k \in is PROVE i <= k
    <3>1. k \in 1..(Len(f) - 1) /\ Matches(f[k].host, h)
      BY DEF Captures
    <3>2. ~ k < i
      BY <1>1, <1>5, <3>1, EarlierCaptureBlocks
    <3>3. QED BY <3>1, <3>2
  <2>4. QED BY <2>2, <2>3, RouteFacts
<1>6. QED BY <1>4, <1>5

\* What config-test, doctor and validate call free of blocking issues is usable.
THEOREM UnblockedIsUsable == Spec => []NoBlockingIssueMeansUsable
<1>1. TypeOK => NoBlockingIssueMeansUsable
  <2> SUFFICES ASSUME TypeOK, WellFormed(file),
                      EmptyHost \notin {file[i].host : i \in DOMAIN file}, Blocking(file) = {}
               PROVE  /\ Accepts(file, Domain)
                      /\ \A i \in 1..(Len(file) - 1) :
                           ~file[i].host.wild => Route(file, file[i].host) = file[i]
    BY DEF NoBlockingIssueMeansUsable
  <2>1. QED BY ListOfWellFormed, UnblockedList
<1>2. QED BY <1>1, TypeCorrect, PTL

-----------------------------------------------------------------------------
(* Removal.                                                                *)

\* A remove keeps the mail of both names however far it gets, and one that reports
\* ok has taken their routing records and their entries: the two stores together.
THEOREM RemoveComplete == Spec => RemoveIsComplete
<1> DEFINE Complete ==
      result'.command = "remove" =>
        /\ \A t \in Names : Mail(dns[t]) \subseteq dns'[t]
        /\ result'.outcome = "ok" =>
             /\ \A t \in Names : Positions(file', t) = {}
             /\ \A t \in Names : Routing(dns'[t]) = {}
<1>1. TypeOK /\ [Next]_vars => [Complete]_vars
  <2> SUFFICES ASSUME TypeOK, [Next]_vars, ~ UNCHANGED vars, result'.command = "remove"
               PROVE  /\ \A t \in Names : Mail(dns[t]) \subseteq dns'[t]
                      /\ result'.outcome = "ok" =>
                           /\ \A t \in Names : Positions(file', t) = {}
                           /\ \A t \in Names : Routing(dns'[t]) = {}
    OBVIOUS
  <2>1. DnsType /\ \A t \in Names : dns[t] \in RecordSets
    BY DEF TypeOK, DnsType
  <2>2. CASE UNCHANGED dns /\ result'.outcome # "ok"
    BY <2>2 DEF Mail, OfKind
  <2>3. CASE EditDns
    BY <2>3 DEF EditDns, NoCommand, Done
  <2>4. CASE DomainRemove
    <3>1. /\ \A t \in Names : dns'[t] = dns[t] \/ dns'[t] \in AfterRemoval(dns[t])
          /\ result'.outcome = "ok" => \A t \in Names : dns'[t] \in AfterRemoval(dns[t])
      BY <2>1, <2>4, RunSets DEF DomainRemove
    <3>2. \A t \in Names : Mail(dns[t]) \subseteq dns'[t]
      BY <2>1, <3>1, RemovalKeepsMail DEF Mail, OfKind
    <3>3. ASSUME result'.outcome = "ok"
          PROVE  /\ \A t \in Names : Positions(file', t) = {}
                 /\ \A t \in Names : Routing(dns'[t]) = {}
      <4>1. Accepts(file, Domain) /\ file' = Without(file, Domain)
        BY <2>4, <3>3, RunOutcome DEF DomainRemove
      <4>2. file \in Lists /\ WellFormed(file)
        BY <4>1, ListOfWellFormed DEF Accepts
      <4>3. \A t \in Names : Positions(file', t) = {}
        BY <4>1, <4>2, WithoutFacts
      <4>4. \A t \in Names : Routing(dns'[t]) = {}
        BY <2>1, <3>1, <3>3, RemovalKeepsMail
      <4>5. QED BY <4>3, <4>4
    <3>4. QED BY <3>2, <3>3
  <2>5. CASE DomainAdd
    <3>1. result'.command = "add"
      BY <2>1, <2>5, RunSets DEF DomainAdd
    <3>2. QED BY <3>1
  <2>6. QED BY <2>2, <2>3, <2>4, <2>5, CommandSteps DEF vars
<1>2. QED BY <1>1, TypeCorrect, PTL DEF Spec, RemoveIsComplete

-----------------------------------------------------------------------------
(* The commands implement DomainWiring.                                    *)

\* DomainWiring says of records what Dns says.
LEMMA SameRecords ==
  /\ Wiring!RecordSets = RecordSets
  /\ \A rs : /\ Wiring!Matching(rs) = Matching(rs)
             /\ Wiring!Routing(rs) = Routing(rs)
             /\ Wiring!Mail(rs) = Mail(rs)
             /\ Wiring!Several(rs) <=> Several(rs)
<1>1. Wiring!Records = Records
  BY DEF Wiring!Records, Records, Wiring!Kinds, Kinds
<1>2. Wiring!RecordSets = RecordSets
  BY <1>1 DEF Wiring!RecordSets, RecordSets
<1>3. QED
  BY <1>2 DEF Wiring!Matching, Wiring!Routing, Wiring!Mail, Wiring!Several, Wiring!OfKind,
              Matching, Routing, Mail, Several, OfKind

\* What an upsert leaves of a name is what DomainWiring promises of an add.
LEMMA UpsertWires ==
  ASSUME NEW rs \in RecordSets, NEW new \in AfterUpsert(rs)
  PROVE  Wiring!Leaves("add", rs, new)
<1>1. PICK call \in UpsertCalls(rs), id \in RecordIds : call # Refusal /\ new = Effect(rs, call, id)
  BY DEF AfterUpsert, Results
<1>2. new \in RecordSets /\ (Routing(rs) # {} => Mail(rs) \subseteq new)
  BY AfterType, UpsertKeepsMail
<1>3. CASE rs = {}
  <2>1. call = Call("POST", NoId)
    BY <1>3 DEF UpsertCalls
  <2>2. new = {[id |-> id, kind |-> "tunnel"]}
    BY <1>1, <1>3, <2>1, Methods DEF Effect
  <2>3. Matching(new) # {} /\ Matching(rs) = {} /\ Routing(rs) = {}
    <3>1. [id |-> id, kind |-> "tunnel"] \in Matching(new)
      BY <2>2 DEF Matching, OfKind
    <3>2. QED BY <1>3, <3>1 DEF Matching, Routing, OfKind
  <2>4. ~ Several(rs \ new) /\ ~ Several(new \ rs)
    BY <1>3, <2>2 DEF Several
  <2>5. QED BY <1>2, <2>3, <2>4, SameRecords DEF Wiring!Leaves, Wiring!Wired
<1>4. CASE rs # {} /\ Matching(rs) # {}
  <2>1. call = NoCall
    BY <1>1, <1>4 DEF UpsertCalls
  <2>2. new = rs
    BY <1>1, <2>1, Methods DEF Effect
  <2>3. ~ Several(rs \ new) /\ ~ Several(new \ rs) /\ Mail(rs) \subseteq new
    BY <2>2 DEF Several, Mail, OfKind
  <2>4. QED BY <1>2, <1>4, <2>2, <2>3, SameRecords DEF Wiring!Leaves, Wiring!Wired
<1>5. CASE rs # {} /\ Matching(rs) = {}
  <2>1. PICK r \in Overwritable(rs) : call = Call("PUT", r.id)
    BY <1>1, <1>5 DEF UpsertCalls
  <2> DEFINE put == [id |-> r.id, kind |-> "tunnel"]
  <2>2. r \in rs /\ new = {s \in rs : s.id # r.id} \cup {put}
    BY <1>1, <2>1, OfKindRecords, Methods DEF Effect
  <2>3. Matching(new) # {}
    <3>1. put \in new /\ put.kind \in {"tunnel"}
      BY <2>2
    <3>2. QED BY <3>1 DEF Matching, OfKind
  <2>4. \A s \in rs \ new : s = r
    BY <2>2 DEF RecordSets
  <2>5. \A s \in new \ rs : s = put
    BY <2>2
  <2>6. ~ Several(rs \ new) /\ ~ Several(new \ rs)
    BY <2>4, <2>5 DEF Several
  <2>7. QED BY <1>2, <1>5, <2>3, <2>6, SameRecords DEF Wiring!Leaves, Wiring!Wired
<1>6. QED BY <1>3, <1>4, <1>5

\* The same for a removal.
LEMMA RemovalUnwires ==
  ASSUME NEW rs \in RecordSets, NEW new \in AfterRemoval(rs)
  PROVE  Wiring!Leaves("remove", rs, new)
<1>1. PICK call \in RemovalCalls(rs), id \in RecordIds : call # Refusal /\ new = Effect(rs, call, id)
  BY DEF AfterRemoval, Results
<1>2. new \in RecordSets /\ Mail(rs) \subseteq new /\ Routing(new) = {}
  BY AfterType, RemovalKeepsMail
<1>3. CASE call = NoCall
  <2>1. new = rs
    BY <1>1, <1>3, Methods DEF Effect
  <2>2. ~ Several(rs \ new) /\ ~ Several(new \ rs)
    BY <2>1 DEF Several
  <2>3. QED BY <1>2, <2>1, <2>2, SameRecords DEF Wiring!Leaves, Wiring!Wired
<1>4. CASE call # NoCall
  <2>1. PICK r \in Routing(rs) : call = Call("DELETE", r.id)
    BY <1>1, <1>4 DEF RemovalCalls
  <2>2. new = {s \in rs : s.id # r.id}
    BY <1>1, <2>1, Methods DEF Effect
  <2>3. r \in rs /\ (\A s \in rs \ new : s = r) /\ new \ rs = {}
    BY <2>1, <2>2, OfKindRecords DEF RecordSets
  <2>4. ~ Several(rs \ new) /\ ~ Several(new \ rs) /\ Routing(rs) # {}
    BY <2>1, <2>3 DEF Several
  <2>5. QED BY <1>2, <2>4, SameRecords DEF Wiring!Leaves, Wiring!Wired
<1>5. QED BY <1>3, <1>4

\* What a hostname has in the view.
LEMMA ServiceFacts ==
  ASSUME NEW f \in Lists, NEW h
  PROVE  /\ Positions(f, h) = {} <=> ServiceOf(f, h) = None
         /\ \A i \in Positions(f, h) :
              (\A j \in Positions(f, h) : j = i) =>
                ServiceOf(f, h) = f[i].service /\ f[i].service \in Services
         /\ (\E i, j \in Positions(f, h) : i # j) <=> ServiceOf(f, h) = Twice
         /\ ServiceOf(f, h) \in Services \cup {None, Twice}
<1> DEFINE is == Positions(f, h)
<1>1. is \in SUBSET (1..(Len(f) - 1)) /\ Len(f) - 1 \in Nat
  BY ExactOfOne
<1>2. Cardinality(is) > 1 <=> \E i, j \in is : i # j
  <2>1. Cardinality(is) <= 1 <=> \A i, j \in is : i = j
    BY <1>1, FewPositions
  <2>2. Cardinality(is) > 1 <=> ~ Cardinality(is) <= 1
    BY <1>1, FewPositions
  <2>3. QED BY <2>1, <2>2
<1>3. CASE is = {}
  BY <1>2, <1>3, ViewAssumption DEF ServiceOf
<1>4. CASE \E i, j \in is : i # j
  <2>1. ServiceOf(f, h) = Twice
    BY <1>2, <1>4 DEF ServiceOf
  <2>2. QED BY <1>4, <2>1, ViewAssumption
<1>5. CASE is # {} /\ ~ \E i, j \in is : i # j
  <2>1. PICK i \in is : \A j \in is : j = i
    BY <1>5
  <2>2. (CHOOSE k \in is : TRUE) = i
    BY <2>1
  <2>3. ServiceOf(f, h) = f[i].service
    BY <1>2, <1>5, <2>2 DEF ServiceOf
  <2>4. f[i].service \in Services
    <3>1. i \in 1..Len(f)
      BY <1>1, ListFacts
    <3>2. QED BY <3>1, ListFacts, EntryFacts
  <2>5. ServiceOf(f, h) # None /\ ServiceOf(f, h) # Twice
    BY <2>3, <2>4, ViewAssumption
  <2>6. \A k \in is : k = i
    BY <2>1
  <2>7. QED BY <1>5, <2>3, <2>4, <2>5, <2>6
<1>6. QED BY <1>3, <1>4, <1>5

\* The view of a list is a file of DomainWiring, and of anything else Broken.
LEMMA ViewFacts ==
  ASSUME NEW f, f = Broken \/ f \in Lists
  PROVE  /\ View(f) \in Wiring!Files \cup {Broken}
         /\ ~ WellFormed(f) => View(f) = Broken
         /\ WellFormed(f) => /\ f \in Lists /\ View(f) # Broken /\ DOMAIN View(f) = Hosts
                             /\ \A h \in Hosts : View(f)[h] = ServiceOf(f, h)
<1>1. CASE ~ WellFormed(f)
  BY <1>1 DEF View
<1>2. CASE WellFormed(f)
  <2>1. f \in Lists
    BY <1>2 DEF WellFormed
  <2>2. View(f) = [h \in Hosts |-> ServiceOf(f, h)]
    BY <1>2 DEF View
  <2>3. \A h \in Hosts : ServiceOf(f, h) \in Services \cup {None, Twice}
    BY <2>1, ServiceFacts
  <2>4. View(f) \in [Hosts -> Services \cup {None, Twice}]
    BY <2>2, <2>3
  <2>5. Hosts = Wiring!Names \cup OtherHosts /\ Hosts = Targets(Domain) \cup OtherHosts
    BY TargetFacts DEF Hosts, Names, Wiring!Names
  <2>6. View(f) \in Wiring!Files
    BY <2>4, <2>5 DEF Wiring!Files
  <2>7. View(f) # Broken
    BY <2>4, <2>5, ViewAssumption
  <2>8. QED BY <1>2, <2>1, <2>2, <2>6, <2>7
<1>3. QED BY <1>1, <1>2

\* The commands accept a list just if they accept its view.
LEMMA AcceptsView ==
  ASSUME NEW f, f = Broken \/ f \in Lists
  PROVE  Accepts(f, Domain) <=> Wiring!Usable(View(f), Wiring!Names)
<1>1. Wiring!Names = Names
  BY TargetFacts DEF Wiring!Names
<1>2. CASE ~ WellFormed(f)
  BY <1>2, ViewFacts DEF Accepts, Wiring!Usable
<1>3. CASE WellFormed(f)
  <2>1. f \in Lists /\ View(f) # Broken /\ \A t \in Names : View(f)[t] = ServiceOf(f, t)
    BY <1>3, ViewFacts DEF Hosts
  <2>2. ASSUME NEW t \in Names
        PROVE  Cardinality(Positions(f, t)) <= 1 <=> ServiceOf(f, t) # Twice
    <3>1. Positions(f, t) \in SUBSET (1..(Len(f) - 1)) /\ Len(f) - 1 \in Nat
      BY <2>1, ExactOfOne
    <3>2. Cardinality(Positions(f, t)) <= 1 <=> \A i, j \in Positions(f, t) : i = j
      BY <3>1, FewPositions
    <3>3. QED BY <2>1, <3>2, ServiceFacts
  <2>3. QED BY <1>1, <1>3, <2>1, <2>2 DEF Accepts, Names, Wiring!Usable
<1>4. QED BY <1>2, <1>3

\* With the domain's entries taken out and new ones put before the fallback, each
\* other hostname has what it had.
LEMMA AroundServices ==
  ASSUME NEW f \in Lists, WellFormed(f), NEW mid \in Seq(AllEntries),
         \A k \in 1..Len(mid) : mid[k].host \in Names,
         NEW h \in OtherHosts
  PROVE  ServiceOf(Around(f, mid), h) = ServiceOf(f, h)
<1> DEFINE kept == Kept(f, Domain)
           order == InOrder(kept)
           new == Around(f, mid)
           m == Len(Others(f, Domain))
           is == Positions(f, h)
           js == Positions(new, h)
<1>1. /\ new \in Lists /\ Len(new) = m + Len(mid) + 1 /\ m \in Nat /\ Len(mid) \in Nat
      /\ h \notin Names
  BY AroundFacts, OthersFacts, TargetFacts
<1>2. ASSUME NEW k \in 1..m
      PROVE  /\ order[k] \in kept /\ order[k] \in 1..(Len(f) - 1) /\ new[k] = f[order[k]]
             /\ k \in js <=> order[k] \in is
  <2>1. new[k] = Others(f, Domain)[k]
    BY AroundFacts
  <2>2. order[k] \in kept /\ order[k] \in 1..(Len(f) - 1) /\ Others(f, Domain)[k] = f[order[k]]
    BY OthersFacts
  <2>3. k \in 1..(Len(new) - 1)
    BY <1>1
  <2>4. QED BY <2>1, <2>2, <2>3 DEF Positions
<1>3. ASSUME NEW k \in js PROVE k \in 1..m
  <2>1. k \in 1..(Len(new) - 1) /\ new[k].host = h
    BY DEF Positions
  <2>2. SUFFICES ASSUME k \notin 1..m PROVE FALSE
    OBVIOUS
  <2>3. k - m \in 1..Len(mid) /\ m + (k - m) = k
    BY <1>1, <2>1, <2>2
  <2>4. new[m + (k - m)] = mid[k - m] /\ mid[k - m].host \in Names
    BY <2>3, AroundFacts
  <2>5. QED BY <1>1, <2>1, <2>3, <2>4
<1>4. ASSUME NEW i \in is PROVE \E k \in js : order[k] = i
  <2>1. i \in 1..(Len(f) - 1) /\ f[i].host = h
    BY DEF Positions
  <2>2. i \in kept
    BY <1>1, <2>1, KeptHosts
  <2>3. PICK k \in 1..m : order[k] = i
    BY <2>2, OthersFacts
  <2>4. QED BY <1>2, <2>3
<1>5. \A k, l \in js : k # l => order[k] # order[l]
  <2> SUFFICES ASSUME NEW k \in js, NEW l \in js, k # l PROVE order[k] # order[l]
    OBVIOUS
  <2>1. k \in 1..m /\ l \in 1..m
    BY <1>3
  <2>2. order[k] \in 1..(Len(f) - 1) /\ order[l] \in 1..(Len(f) - 1)
    BY <1>2, <2>1
  <2>3. (k < l <=> order[k] < order[l]) /\ (l < k <=> order[l] < order[k])
    BY <2>1, OthersFacts
  <2>4. k < l \/ l < k
    BY <2>1
  <2>5. Len(f) - 1 \in Nat
    BY ListFacts
  <2>6. QED BY <2>2, <2>3, <2>4, <2>5
<1>6. \A k \in js : order[k] \in is /\ new[k] = f[order[k]]
  BY <1>2, <1>3
<1> HIDE DEF is, js, order, new
<1>7. CASE is = {}
  <2>1. js = {}
    BY <1>6, <1>7
  <2>2. QED BY <1>1, <1>7, <2>1, ServiceFacts DEF is, js, new
<1>8. CASE \E i, j \in is : i # j
  <2>1. \E k, l \in js : k # l
    BY <1>4, <1>8
  <2>2. ServiceOf(f, h) = Twice
    BY <1>8, ServiceFacts DEF is
  <2>3. ServiceOf(new, h) = Twice
    BY <1>1, <2>1, ServiceFacts DEF js
  <2>4. QED BY <2>2, <2>3 DEF new
<1>9. CASE is # {} /\ ~ \E i, j \in is : i # j
  <2>1. PICK i \in is : \A j \in is : j = i
    BY <1>9
  <2>2. PICK k \in js : order[k] = i
    BY <1>4
  <2>3. \A l \in js : l = k
    BY <1>5, <1>6, <2>1
  <2>4. ServiceOf(f, h) = f[i].service
    BY <2>1, ServiceFacts DEF is
  <2>5. ServiceOf(new, h) = new[k].service
    BY <1>1, <2>3, ServiceFacts DEF js
  <2>6. new[k] = f[i]
    BY <1>6, <2>2
  <2>7. QED BY <2>4, <2>5, <2>6 DEF new
<1>10. QED BY <1>7, <1>8, <1>9

\* A list in which the domain's names have what was wanted, and every other host
\* what it had, has the view that DomainWiring says.
LEMMA RewiredView ==
  ASSUME NEW f \in Lists, WellFormed(f), NEW new \in Lists, WellFormed(new), NEW wanted,
         \A t \in Names : ServiceOf(new, t) = wanted,
         \A h \in OtherHosts : ServiceOf(new, h) = ServiceOf(f, h)
  PROVE  View(new) = Wiring!Rewired(View(f), Wiring!Names, wanted)
<1>1. /\ DOMAIN View(f) = Hosts
      /\ \A h \in Hosts : View(f)[h] = ServiceOf(f, h)
  BY ViewFacts
<1>2. View(new) = [h \in Hosts |-> ServiceOf(new, h)]
  BY DEF View
<1>3. Wiring!Names = Names /\ Hosts = Names \cup OtherHosts /\ \A h \in OtherHosts : h \notin Names
  BY TargetFacts DEF Wiring!Names, Hosts
<1>4. \A h \in Hosts : ServiceOf(new, h) = IF h \in Names THEN wanted ELSE View(f)[h]
  BY <1>1, <1>3
<1>5. QED BY <1>1, <1>2, <1>3, <1>4 DEF Wiring!Rewired

\* apply_domain_ingress gives the domain's names the service, and nothing else.
LEMMA AddedView ==
  ASSUME NEW f \in Lists, Accepts(f, Domain)
  PROVE  View(Added(f, Domain, Service)) = Wiring!Rewired(View(f), Wiring!Names, Service)
<1> DEFINE new == Added(f, Domain, Service)
           mid == TargetEntries(Domain, Service)
<1>1. WellFormed(f)
  BY DEF Accepts
<1>2. new \in Lists /\ WellFormed(new) /\ Accepts(new, Domain) /\ Reconciled(new, Domain, Service)
  BY AddedFacts
<1>3. ASSUME NEW t \in Names PROVE ServiceOf(new, t) = Service
  <2>1. ExactService(new, t) = {Service} /\ Cardinality(Positions(new, t)) <= 1
    BY <1>2 DEF Accepts, Reconciled, Names
  <2>2. Positions(new, t) \in SUBSET (1..(Len(new) - 1)) /\ Len(new) - 1 \in Nat
    BY <1>2, ExactOfOne
  <2>3. \A i, j \in Positions(new, t) : i = j
    BY <2>1, <2>2, FewPositions
  <2>4. PICK i \in Positions(new, t) : TRUE
    BY <1>2, <2>1, ExactOfOne
  <2>5. ExactService(new, t) = {new[i].service} /\ ServiceOf(new, t) = new[i].service
    BY <1>2, <2>3, <2>4, OnePosition, ServiceFacts
  <2>6. QED BY <2>1, <2>5
<1>4. ASSUME NEW h \in OtherHosts PROVE ServiceOf(new, h) = ServiceOf(f, h)
  <2>1. CASE Reconciled(f, Domain, Service)
    BY <2>1 DEF Added
  <2>2. CASE ~ Reconciled(f, Domain, Service)
    <3>1. new = Around(f, mid)
      BY <2>2, WrittenLists DEF Added
    <3>2. mid \in Seq(AllEntries) /\ \A k \in 1..Len(mid) : mid[k].host \in Names
      <4>1. /\ mid \in Seq(AllEntries) /\ Len(mid) = 2
            /\ mid[1] = Entry(Apex, Service) /\ mid[2] = Entry(Star, Service)
        BY WrittenLists
      <4>2. Entry(Apex, Service).host \in Names /\ Entry(Star, Service).host \in Names
        BY TargetFacts DEF Entry
      <4>3. QED BY <4>1, <4>2
    <3>3. QED BY <1>1, <3>1, <3>2, AroundServices
  <2>3. QED BY <2>1, <2>2
<1>5. QED BY <1>1, <1>2, <1>3, <1>4, RewiredView

\* apply_domain_ingress_removal takes them out, and nothing else.
LEMMA WithoutView ==
  ASSUME NEW f \in Lists, Accepts(f, Domain)
  PROVE  View(Without(f, Domain)) = Wiring!Rewired(View(f), Wiring!Names, None)
<1> DEFINE new == Without(f, Domain)
<1>1. WellFormed(f)
  BY DEF Accepts
<1>2. new \in Lists /\ WellFormed(new) /\ \A t \in Names : Positions(new, t) = {}
  BY <1>1, WithoutFacts
<1>3. \A t \in Names : ServiceOf(new, t) = None
  BY <1>2, ServiceFacts
<1>4. ASSUME NEW h \in OtherHosts PROVE ServiceOf(new, h) = ServiceOf(f, h)
  <2>1. CASE Removed(f, Domain)
    BY <2>1 DEF Without
  <2>2. CASE ~ Removed(f, Domain)
    <3>1. new = Around(f, <<>>)
      BY <2>2, WrittenLists DEF Without
    <3>2. <<>> \in Seq(AllEntries) /\ \A k \in 1..Len(<<>>) : <<>>[k].host \in Names
      BY EmptySeq
    <3>3. QED BY <1>1, <3>1, <3>2, AroundServices
  <2>3. QED BY <2>1, <2>2
<1>5. QED BY <1>1, <1>2, <1>3, <1>4, RewiredView

\* A command whose requests leave what they may, and whose list has the right
\* view, is a command of DomainWiring that gets past as many of the names as it
\* has done.
LEMMA RunWires ==
  ASSUME DnsType, FileType, NEW verb \in {"add", "remove"}, NEW after, NEW newFile,
         Run(verb, after, newFile),
         \A t \in Names : \A new \in after[t] : Wiring!Leaves(verb, dns[t], new),
         Accepts(file, Domain) =>
           View(newFile) = Wiring!Rewired(View(file), Wiring!Names, Wiring!Wanted(verb))
  PROVE  \E past \in 0..3 : Wiring!Command(verb, past)
<1>1. /\ Wiring!Names = Names /\ Names = {Apex, Star} /\ Apex # Star
      /\ dns \in [Names -> Wiring!RecordSets]
      /\ Accepts(file, Domain) <=> Wiring!Usable(View(file), Wiring!Names)
  BY TargetFacts, SameRecords, AcceptsView DEF Wiring!Names, DnsType, FileType
<1>2. \A t \in Names : \A new \in after[t] : new \in Wiring!RecordSets
  BY DEF Wiring!Leaves
<1>3. \A outcome : Done(verb, outcome) = [command |-> verb, outcome |-> outcome]
  BY DEF Done
<1>4. ASSUME NEW past, NEW outcome \in Wiring!Outcomes(past), result' = Done(verb, outcome)
      PROVE  \E o \in Wiring!Outcomes(past) : result' = [command |-> verb, outcome |-> o]
  BY <1>3, <1>4
<1>5. /\ "dns refused" \in Wiring!Outcomes(0) /\ "dns refused" \in Wiring!Outcomes(1)
      /\ "ingress refused" \in Wiring!Outcomes(2) /\ "ok" \in Wiring!Outcomes(3)
  BY DEF Wiring!Outcomes
<1>6. CASE UNCHANGED <<file, dns>> /\ result' = Done(verb, "dns refused")
  <2>1. View(file)' = View(file) /\ dns' = dns /\ dns' \in [Wiring!Names -> Wiring!RecordSets]
    BY <1>1, <1>6
  <2>2. \E o \in Wiring!Outcomes(0) : result' = [command |-> verb, outcome |-> o]
    BY <1>4, <1>6, <1>5
  <2>3. Wiring!Command(verb, 0)
    BY <2>1, <2>2 DEF Wiring!Command
  <2>4. QED BY <2>3
<1>7. ASSUME NEW rs \in after[Apex], dns' = [dns EXCEPT ![Apex] = rs], UNCHANGED file,
             result' = Done(verb, "dns refused")
      PROVE  \E past \in 0..3 : Wiring!Command(verb, past)
  <2>1. View(file)' = View(file)
    BY <1>7
  <2>2. dns'[Apex] = rs /\ dns'[Star] = dns[Star] /\ dns' \in [Names -> Wiring!RecordSets]
    BY <1>1, <1>2, <1>7
  <2>3. Wiring!Leaves(verb, dns[Apex], dns'[Apex])
    BY <1>1, <2>2
  <2>4. \E o \in Wiring!Outcomes(1) : result' = [command |-> verb, outcome |-> o]
    BY <1>4, <1>7, <1>5
  <2>5. Wiring!Command(verb, 1)
    BY <1>1, <2>1, <2>2, <2>3, <2>4 DEF Wiring!Command
  <2>6. QED BY <2>5
<1>8. ASSUME NEW rs1 \in after[Apex], NEW rs2 \in after[Star],
             dns' = [dns EXCEPT ![Apex] = rs1, ![Star] = rs2],
             IF Accepts(file, Domain)
             THEN file' = newFile /\ result' = Done(verb, "ok")
             ELSE UNCHANGED file /\ result' = Done(verb, "ingress refused")
      PROVE  \E past \in 0..3 : Wiring!Command(verb, past)
  <2>1. dns'[Apex] = rs1 /\ dns'[Star] = rs2 /\ dns' \in [Names -> Wiring!RecordSets]
    BY <1>1, <1>2, <1>8
  <2>2. Wiring!Leaves(verb, dns[Apex], dns'[Apex]) /\ Wiring!Leaves(verb, dns[Star], dns'[Star])
    BY <1>1, <2>1
  <2>3. CASE ~ Accepts(file, Domain)
    <3>1. View(file)' = View(file)
      BY <1>8, <2>3
    <3>2. result' = Done(verb, "ingress refused")
      BY <1>8, <2>3
    <3>3. \E o \in Wiring!Outcomes(2) : result' = [command |-> verb, outcome |-> o]
      BY <1>4, <1>5, <3>2
    <3>4. Wiring!Command(verb, 2)
      BY <1>1, <2>1, <2>2, <2>3, <3>1, <3>3 DEF Wiring!Command
    <3>5. QED BY <3>4
  <2>4. CASE Accepts(file, Domain)
    <3>1. View(file)' = Wiring!Rewired(View(file), Wiring!Names, Wiring!Wanted(verb))
      BY <1>8, <2>4
    <3>2. result' = Done(verb, "ok")
      BY <1>8, <2>4
    <3>3. \E o \in Wiring!Outcomes(3) : result' = [command |-> verb, outcome |-> o]
      BY <1>4, <1>5, <3>2
    <3>4. Wiring!Command(verb, 3)
      BY <1>1, <2>1, <2>2, <2>4, <3>1, <3>3 DEF Wiring!Command
    <3>5. QED BY <3>4
  <2>5. QED BY <2>3, <2>4
<1>9. QED BY <1>6, <1>7, <1>8 DEF Run

\* The commands and the edits implement DomainWiring: its file is the list
\* without its order, its commands get as far as theirs.
THEOREM WiringKept == Spec => KeepsWiring
<1>1. Init => Wiring!Init
  <2> SUFFICES ASSUME Init PROVE Wiring!Init
    OBVIOUS
  <2>1. file = <<FallbackEntry>> /\ file \in Lists
    BY DEF Init, Lists, AllEntries
  <2>2. Len(file) = 1 /\ DOMAIN file = {1} /\ file[1].host = NoHost
    BY <2>1 DEF FallbackEntry, Entry
  <2>3. WellFormed(file)
    <3>1. file # Broken
      BY <2>1, ListIsNotBroken DEF Lists
    <3>2. file # <<>>
      BY <2>1 DEF Lists
    <3>3. QED BY <2>1, <2>2, <3>1, <3>2 DEF WellFormed
  <2>4. \A h : Positions(file, h) = {}
    BY <2>2 DEF Positions
  <2>5. \A h : ServiceOf(file, h) = None
    BY <2>1, <2>4, ServiceFacts
  <2>6. View(file) = [h \in Hosts |-> None]
    BY <2>3, <2>5 DEF View
  <2>7. Wiring!Names = Names /\ Hosts = Names \cup OtherHosts
    BY TargetFacts DEF Wiring!Names, Hosts
  <2>8. QED BY <2>6, <2>7 DEF Init, NoCommand, Done, Wiring!Init
<1>2. TypeOK /\ [Next]_vars => [Wiring!Next]_<<View(file), dns, result>>
  <2> SUFFICES ASSUME TypeOK, [Next]_vars PROVE [Wiring!Next]_<<View(file), dns, result>>
    OBVIOUS
  <2>1. FileType /\ ResultType /\ DnsType /\ Wiring!RecordSets = RecordSets /\ Wiring!Names = Names
    BY SameRecords, TargetFacts
       DEF TypeOK, FileType, ResultType, DnsType, Lists, AllEntries, Wiring!Names
  <2>2. FileType' /\ DnsType'
    <3>1. FileType'
      BY <2>1, FileAndResultStep
    <3>2. DnsType'
      BY <2>1, DnsStep
    <3>3. QED BY <3>1, <3>2
  <2>3. View(file)' \in Wiring!Files \cup {Broken} /\ dns' \in [Wiring!Names -> Wiring!RecordSets]
    BY <2>1, <2>2, ViewFacts DEF FileType, DnsType
  <2>4. ASSUME UNCHANGED dns, result' = NoCommand PROVE Wiring!EditServices
    BY <2>3, <2>4 DEF Wiring!EditServices, NoCommand, Done
  <2>5. CASE InsertEntry \/ BreakFile
    BY <2>4, <2>5 DEF InsertEntry, BreakFile, Wiring!Next
  <2>6. CASE EditDns
    <3>1. View(file)' = View(file)
      BY <2>6 DEF EditDns
    <3>2. Wiring!EditRecords
      BY <2>3, <2>6, <3>1 DEF EditDns, Wiring!EditRecords, NoCommand, Done
    <3>3. QED BY <3>2 DEF Wiring!Next
  <2>7. ASSUME NEW verb \in {"add", "remove"}, PreflightFails(verb)
        PROVE  Wiring!Command(verb, 0)
    <3>1. View(file)' = View(file) /\ dns' = dns /\ result' = Done(verb, "not ready")
      BY <2>7 DEF PreflightFails
    <3>2. "not ready" \in Wiring!Outcomes(0)
      BY DEF Wiring!Outcomes
    <3>3. \E o \in Wiring!Outcomes(0) : result' = [command |-> verb, outcome |-> o]
      BY <3>1, <3>2 DEF Done
    <3>4. dns' \in [Wiring!Names -> Wiring!RecordSets]
      BY <2>3
    <3>5. View(file)' = View(file) /\ dns'[Apex] = dns[Apex] /\ dns'[Star] = dns[Star]
      BY <3>1
    <3>6. QED BY <3>3, <3>4, <3>5 DEF Wiring!Command
  <2>8. CASE DomainAdd
    <3> DEFINE after == [t \in Names |-> AfterUpsert(dns[t])]
               newFile == Added(file, Domain, Service)
    <3>1. \A t \in Names : \A new \in after[t] : Wiring!Leaves("add", dns[t], new)
      BY <2>1, UpsertWires DEF DnsType
    <3>2. Accepts(file, Domain) =>
            View(newFile) = Wiring!Rewired(View(file), Wiring!Names, Wiring!Wanted("add"))
      BY <2>1, AddedView DEF FileType, Accepts, WellFormed, Wiring!Wanted
    <3>3. Run("add", after, newFile)
      BY <2>8 DEF DomainAdd
    <3> HIDE DEF after, newFile
    <3>4. \E past \in 0..3 : Wiring!Command("add", past)
      BY <2>1, <3>1, <3>2, <3>3, RunWires
    <3>5. QED BY <3>4 DEF Wiring!Next
  <2>9. CASE DomainRemove
    <3> DEFINE after == [t \in Names |-> AfterRemoval(dns[t])]
               newFile == Without(file, Domain)
    <3>1. \A t \in Names : \A new \in after[t] : Wiring!Leaves("remove", dns[t], new)
      BY <2>1, RemovalUnwires DEF DnsType
    <3>2. Accepts(file, Domain) =>
            View(newFile) = Wiring!Rewired(View(file), Wiring!Names, Wiring!Wanted("remove"))
      BY <2>1, WithoutView DEF FileType, Accepts, WellFormed, Wiring!Wanted
    <3>3. Run("remove", after, newFile)
      BY <2>9 DEF DomainRemove
    <3> HIDE DEF after, newFile
    <3>4. \E past \in 0..3 : Wiring!Command("remove", past)
      BY <2>1, <3>1, <3>2, <3>3, RunWires
    <3>5. QED BY <3>4 DEF Wiring!Next
  <2>10. CASE UNCHANGED vars
    BY <2>10 DEF vars
  <2>11. QED
    BY <2>5, <2>6, <2>7, <2>8, <2>9, <2>10 DEF Next, Wiring!Next
<1>3. QED BY <1>1, <1>2, TypeCorrect, PTL DEF Spec, KeepsWiring, Wiring!Spec
=============================================================================
