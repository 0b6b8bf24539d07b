---------------------------- MODULE ConsoleProofs ----------------------------
(***************************************************************************)
(* The operator's console and the alert stream that feeds it.               *)
(*                                                                         *)
(* The console: what this tab hides or counts as handled is backed by the   *)
(* server, and a closed alarm is not shown again, for every number of       *)
(* alarms and submissions.  The stream keeps one activity at a time and     *)
(* implements AlertLink, for every base delay and every limit.              *)
(***************************************************************************)
EXTENDS AlertStream, OperatorConsole, FiniteSetTheorems, WellFoundedInduction, TLAPS

-----------------------------------------------------------------------------
(* Operators *)

(* A set of numbers that is not empty has a least one. *)
LEMMA LeastNumber ==
    ASSUME NEW S, S \subseteq Nat, S # {}
    PROVE  \E x \in S : \A y \in S : x <= y
<1> DEFINE R == {ss \in Nat \X Nat : ss[1] < ss[2]}
<1>1. R = OpToRel(<, Nat)
  BY DEF OpToRel
<1>2. IsWellFoundedOn(OpToRel(<, Nat), Nat)
  BY NatLessThanWellFounded
<1>3. IsWellFoundedOn(R, Nat)
  BY <1>1, <1>2, Zenon
<1> HIDE DEF R
<1>4. \E x \in S : \A y \in S : ~(<<y, x>> \in R)
  BY <1>3, WFMin
<1>5. PICK x \in S : \A y \in S : ~(<<y, x>> \in R)
  BY <1>4, Zenon
<1>6. \A a, b \in Nat : b < a => <<b, a>> \in R
  BY DEF R
<1>7. \A y \in S : y \in Nat /\ x \in Nat /\ ~(y < x)
  BY <1>5, <1>6, Zenon
<1>8. \A y \in S : x <= y
  BY <1>7
<1> QED BY <1>8

(* An incident with alarms has a latest one. *)
LEMMA LatestIsKnown ==
    ASSUME raised \in Nat, NEW i, ChildrenOf(i) # {}
    PROVE  Latest(i) \in Known
<1> DEFINE C == ChildrenOf(i)
           U == {b \in Nat : \A x \in C : x <= b}
<1>1. C \subseteq 1..raised
  BY DEF ChildrenOf, Known
<1>2. raised \in U
  BY <1>1
<1>3. PICK b \in U : \A y \in U : b <= y
  BY <1>2, LeastNumber
<1>4. b \in C
  <2> SUFFICES ASSUME b \notin C PROVE FALSE
    OBVIOUS
  <2>1. b # 0
    BY <1>1
  <2>2. b - 1 \in Nat
    BY <2>1
  <2>3. \A x \in C : x <= b - 1
    BY <1>1
  <2>4. b - 1 \in U
    BY <2>2, <2>3
  <2> QED BY <1>3, <2>2, <2>4
<1>5. \E x \in C : \A y \in C : x >= y
  BY <1>1, <1>4
<1>6. Max(C) \in C
  BY <1>5 DEF Max
<1> QED BY <1>6 DEF Latest, ChildrenOf

(* The m-th of a finite set of places: it has m - 1 places before it. *)
LEMMA PlaceExists ==
    ASSUME NEW n \in Nat, NEW P, P \subseteq 1..n, NEW m \in 1..Cardinality(P)
    PROVE  \E x \in P : Cardinality({k \in P : k < x}) = m - 1
<1>0. \A k \in P : k \in Nat /\ 1 <= k /\ k <= n
  OBVIOUS
<1>1. IsFiniteSet(P)
  <2>1. IsFiniteSet(1..n)
    BY FS_Interval
  <2> QED BY <2>1, FS_Subset
<1> DEFINE Before(x) == {k \in P : k < x}
           Q == {b \in Nat : Cardinality(Before(b)) >= m}
<1>2. \A x : IsFiniteSet(Before(x))
  BY <1>1, FS_Subset
<1>3. \A x : Cardinality(Before(x)) \in Nat
  BY <1>2, FS_CardinalityType
<1>4. Cardinality(P) \in Nat
  BY <1>1, FS_CardinalityType
<1>5. Before(n + 1) = P
  <2>1. \A k \in P : k < n + 1
    BY <1>0
  <2> QED BY <2>1
<1>6. n + 1 \in Q
  BY <1>4, <1>5
<1>7. PICK b \in Q : \A y \in Q : b <= y
  BY <1>6, LeastNumber
<1>8. b \in Nat /\ Cardinality(Before(b)) >= m
  OBVIOUS
<1>9. b # 0
  <2>1. \A k \in P : ~(k < 0)
    BY <1>0
  <2>2. Before(0) = {}
    BY <2>1
  <2>3. Cardinality({}) = 0
    BY FS_EmptySet
  <2> QED BY <1>8, <2>2, <2>3
<1> DEFINE x == b - 1
<1>10. x \in Nat /\ x \notin Q
  BY <1>7, <1>9
<1>11. Cardinality(Before(x)) < m
  BY <1>3, <1>10
<1>12. x \in P
  <2> SUFFICES ASSUME x \notin P PROVE FALSE
    OBVIOUS
  <2>1. \A k \in P : k < b <=> k < x
    BY <1>0, <1>8, <1>9
  <2>2. Before(b) = Before(x)
    BY <2>1
  <2> QED BY <1>3, <1>8, <1>11, <2>2
<1>13. Before(b) = Before(x) \cup {x} /\ x \notin Before(x)
  <2>1. \A k \in P : k < b <=> (k < x \/ k = x)
    BY <1>0, <1>8, <1>9
  <2>2. ~(x < x)
    BY <1>10
  <2> HIDE DEF x
  <2> QED BY <1>12, <2>1, <2>2
<1> HIDE DEF Before, x
<1>14. Cardinality(Before(b)) = Cardinality(Before(x)) + 1
  BY <1>2, <1>13, FS_AddElement
<1>15. Cardinality(Before(x)) = m - 1
  BY <1>3, <1>8, <1>11, <1>14
<1> QED BY <1>12, <1>15 DEF Before

(* acknowledgeIncident takes alarms of that incident out of the feed. *)
LEMMA ChildrenBelong ==
    ASSUME NEW feed \in Seq(Alarms), NEW i
    PROVE  /\ Children(feed, i) \in Seq(Alarms)
           /\ \A a \in ToSet(Children(feed, i)) : IncidentOf[a] = i
<1> DEFINE P == PlacesOf(feed, i)
           N == Cardinality(P)
           At(m) == CHOOSE n \in P : Cardinality({k \in P : k < n}) = m - 1
           c == [m \in 1..N |-> feed[At(m)]]
<1>1. P \subseteq 1..Len(feed)
  BY DEF PlacesOf
<1>2. IsFiniteSet(P) /\ N \in Nat
  <2>1. IsFiniteSet(P)
    BY <1>1, FS_Interval, FS_Subset
  <2> QED BY <2>1, FS_CardinalityType
<1>3. \A m \in 1..N : At(m) \in P
  <2> TAKE m \in 1..N
  <2>1. \E n \in P : Cardinality({k \in P : k < n}) = m - 1
    BY <1>1, PlaceExists
  <2> QED BY <2>1
<1> HIDE DEF N, At
<1>4. \A m \in 1..N : feed[At(m)] \in Alarms /\ IncidentOf[feed[At(m)]] = i
  BY <1>1, <1>3 DEF PlacesOf
<1>5. c \in Seq(Alarms) /\ Len(c) = N
  BY <1>2, <1>4
<1>6. \A a \in ToSet(c) : IncidentOf[a] = i
  BY <1>4 DEF ToSet
<1>7. Children(feed, i) = c
  BY DEF Children, N, At
<1> QED BY <1>5, <1>6, <1>7

LEMMA AppendedSet ==
    ASSUME NEW s \in Seq(Alarms), NEW a \in Alarms
    PROVE  Append(s, a) \in Seq(Alarms) /\ ToSet(Append(s, a)) = ToSet(s) \cup {a}
<1>1. /\ Append(s, a) \in Seq(Alarms) /\ Len(Append(s, a)) = Len(s) + 1
      /\ \A n \in 1..Len(s) : Append(s, a)[n] = s[n]
      /\ Append(s, a)[Len(s) + 1] = a
  OBVIOUS
<1>2. Len(s) \in Nat
  OBVIOUS
<1> DEFINE r == Append(s, a)
<1>3. DOMAIN r = 1..(Len(s) + 1) /\ DOMAIN s = 1..Len(s)
  BY <1>1
<1> HIDE DEF r
<1>4. ToSet(r) \subseteq ToSet(s) \cup {a}
  BY <1>1, <1>2, <1>3 DEF ToSet, r
<1>5. ToSet(s) \cup {a} \subseteq ToSet(r)
  BY <1>1, <1>2, <1>3 DEF ToSet, r
<1> QED BY <1>1, <1>4, <1>5 DEF r

LEMMA JoinedSet ==
    ASSUME NEW s \in Seq(Alarms), NEW t \in Seq(Alarms)
    PROVE  /\ s \o t \in Seq(Alarms) /\ Len(s \o t) = Len(s) + Len(t)
           /\ ToSet(s \o t) = ToSet(s) \cup ToSet(t)
<1> DEFINE r == s \o t
<1>1. /\ r \in Seq(Alarms) /\ Len(r) = Len(s) + Len(t)
      /\ \A n \in 1..Len(s) : r[n] = s[n]
      /\ \A n \in 1..Len(t) : r[Len(s) + n] = t[n]
  OBVIOUS
<1>2. Len(s) \in Nat /\ Len(t) \in Nat
  OBVIOUS
<1>3. DOMAIN r = 1..(Len(s) + Len(t)) /\ DOMAIN s = 1..Len(s) /\ DOMAIN t = 1..Len(t)
  BY <1>1
<1> HIDE DEF r
<1>4. ToSet(r) \subseteq ToSet(s) \cup ToSet(t)
  <2> SUFFICES ASSUME NEW n \in DOMAIN r PROVE r[n] \in ToSet(s) \cup ToSet(t)
    BY DEF ToSet
  <2>1. CASE n <= Len(s)
    BY <1>1, <1>2, <1>3, <2>1 DEF ToSet
  <2>2. CASE n > Len(s)
    <3>1. n - Len(s) \in 1..Len(t) /\ Len(s) + (n - Len(s)) = n
      BY <1>2, <1>3, <2>2
    <3>2. r[n] = t[n - Len(s)]
      BY <1>1, <3>1
    <3> QED BY <1>3, <3>1, <3>2 DEF ToSet
  <2> QED BY <1>2, <1>3, <2>1, <2>2
<1>5. ToSet(s) \subseteq ToSet(r)
  <2> SUFFICES ASSUME NEW n \in 1..Len(s) PROVE s[n] \in ToSet(r)
    BY <1>3 DEF ToSet
  <2>1. n \in DOMAIN r /\ r[n] = s[n]
    BY <1>1, <1>2, <1>3
  <2> QED BY <2>1 DEF ToSet
<1>6. ToSet(t) \subseteq ToSet(r)
  <2> SUFFICES ASSUME NEW n \in 1..Len(t) PROVE t[n] \in ToSet(r)
    BY <1>3 DEF ToSet
  <2>1. Len(s) + n \in DOMAIN r /\ r[Len(s) + n] = t[n]
    BY <1>1, <1>2, <1>3
  <2> QED BY <2>1 DEF ToSet
<1> QED BY <1>1, <1>4, <1>5, <1>6 DEF r

(* slice(-cap): the end of the list stays, and all of it while it fits. *)
LEMMA LastOfKeeps ==
    ASSUME NEW s \in Seq(Alarms), NEW cap \in Nat \ {0}
    PROVE  /\ LastOf(s, cap) \in Seq(Alarms)
           /\ ToSet(LastOf(s, cap)) \subseteq ToSet(s)
           /\ Len(s) > cap => Len(LastOf(s, cap)) = cap
           /\ Len(s) <= cap => LastOf(s, cap) = s
           /\ Len(s) > 0 => s[Len(s)] \in ToSet(LastOf(s, cap))
<1>1. CASE Len(s) <= cap
  <2>0. SubSeq(s, 1, Len(s)) = s /\ ~(Len(s) > cap)
    BY <1>1
  <2>1. LastOf(s, cap) = s
    BY <2>0 DEF LastOf
  <2> QED BY <1>1, <2>1 DEF ToSet
<1>2. CASE Len(s) > cap
  <2> DEFINE m == Len(s) - cap + 1
             r == SubSeq(s, m, Len(s))
  <2>1. LastOf(s, cap) = r /\ m \in 1..Len(s) /\ Len(s) \in 1..Len(s)
    BY <1>2 DEF LastOf
  <2>2. m <= Len(s) /\ Len(s) - m + 1 = cap
    BY <1>2
  <2> HIDE DEF m
  <2>3. /\ r \in Seq(Alarms) /\ Len(r) = Len(s) - m + 1
        /\ \A i \in 1..(Len(s) - m + 1) : r[i] = s[m + i - 1]
    BY <2>1, <2>2
  <2>4. DOMAIN r = 1..cap /\ DOMAIN s = 1..Len(s)
    BY <2>2, <2>3
  <2> HIDE DEF r
  <2>5. \A i \in 1..cap : m + i - 1 \in 1..Len(s) /\ r[i] = s[m + i - 1]
    BY <2>1, <2>2, <2>3
  <2>6. ToSet(r) \subseteq ToSet(s)
    BY <2>4, <2>5 DEF ToSet
  <2>7. cap \in 1..cap /\ r[cap] = s[Len(s)]
    BY <2>1, <2>2, <2>3
  <2>8. s[Len(s)] \in ToSet(r)
    BY <2>4, <2>7 DEF ToSet
  <2> QED BY <1>2, <2>1, <2>2, <2>3, <2>6, <2>8
<1> QED BY <1>1, <1>2

LEMMA CappedIsFeed ==
    ASSUME NEW s \in Seq(Alarms), NEW cap \in Nat PROVE Capped(s, cap) \in Seq(Alarms)
BY DEF Capped

(* dismissedIds forgets an id only when it is full, and stays full then. *)
Remembers(old, new) ==
    Len(new) >= DismissCap \/ (Len(old) < DismissCap /\ ToSet(old) \subseteq ToSet(new))

LEMMA AddedToDismissed ==
    ASSUME NEW s \in Seq(Alarms), NEW t \in Seq(Alarms)
    PROVE  LET r == LastOf(s \o t, DismissCap)
           IN r \in Seq(Alarms) /\ Remembers(s, r) /\ ToSet(r) \subseteq ToSet(s) \cup ToSet(t)
<1> DEFINE u == s \o t
           r == LastOf(u, DismissCap)
<1>1. u \in Seq(Alarms) /\ Len(u) = Len(s) + Len(t) /\ ToSet(u) = ToSet(s) \cup ToSet(t)
  BY JoinedSet
<1>2. Len(s) \in Nat /\ Len(t) \in Nat /\ DismissCap \in Nat \ {0}
  BY CapsAreSet
<1> HIDE DEF u
<1>3. /\ r \in Seq(Alarms) /\ ToSet(r) \subseteq ToSet(u)
      /\ Len(u) > DismissCap => Len(r) = DismissCap
      /\ Len(u) <= DismissCap => r = u
  BY <1>1, <1>2, LastOfKeeps
<1> HIDE DEF r
<1>4. Remembers(s, r)
  BY <1>1, <1>2, <1>3 DEF Remembers
<1> QED BY <1>1, <1>3, <1>4 DEF r, u

LEMMA DismissedIsKept ==
    ASSUME NEW s \in Seq(Alarms), NEW a \in Alarms
    PROVE  LET r == LastOf(Append(s, a), DismissCap)
           IN /\ r \in Seq(Alarms) /\ Remembers(s, r)
              /\ a \in ToSet(r) /\ ToSet(r) \subseteq ToSet(s) \cup {a}
<1> DEFINE u == Append(s, a)
           r == LastOf(u, DismissCap)
<1>1. /\ u \in Seq(Alarms) /\ Len(u) = Len(s) + 1 /\ u[Len(u)] = a
      /\ ToSet(u) = ToSet(s) \cup {a}
  BY AppendedSet
<1>2. Len(s) \in Nat /\ DismissCap \in Nat \ {0}
  BY CapsAreSet
<1> HIDE DEF u
<1>3. /\ r \in Seq(Alarms) /\ ToSet(r) \subseteq ToSet(u)
      /\ Len(u) > DismissCap => Len(r) = DismissCap
      /\ Len(u) <= DismissCap => r = u
      /\ Len(u) > 0 => u[Len(u)] \in ToSet(r)
  BY <1>1, <1>2, LastOfKeeps
<1> HIDE DEF r
<1>4. Remembers(s, r)
  BY <1>1, <1>2, <1>3 DEF Remembers
<1> QED BY <1>1, <1>2, <1>3, <1>4 DEF r, u

-----------------------------------------------------------------------------
(* The store *)

(* A message that adds an alert or an incident hides nothing. *)
LEMMA AddingKeeps ==
    ASSUME NEW s \in StoreType, NEW a \in Alarms
    PROVE  /\ addAlert(s, a) \in StoreType
           /\ addAlert(s, a).dismissed = s.dismissed /\ addAlert(s, a).handled = s.handled
<1>1. CASE a \in ToSet(s.dismissed)
  BY <1>1 DEF addAlert
<1>2. CASE a \notin ToSet(s.dismissed)
  <2> DEFINE f == Capped(<<a>> \o s.feed, FeedCap)
  <2>1. s.feed \in Seq(Alarms) /\ <<a>> \in Seq(Alarms)
    BY DEF StoreType
  <2>2. <<a>> \o s.feed \in Seq(Alarms) /\ FeedCap \in Nat
    BY <2>1, JoinedSet, CapsAreSet
  <2>3. f \in Seq(Alarms)
    BY <2>2, CappedIsFeed
  <2>4. addAlert(s, a) = [s EXCEPT !.feed = f]
    BY <1>2 DEF addAlert, StoreType
  <2> HIDE DEF f
  <2> QED BY <2>3, <2>4 DEF StoreType
<1> QED BY <1>1, <1>2

(* An alarm that is acknowledged is among the dismissed ones afterwards. *)
LEMMA AcknowledgedIsHidden ==
    ASSUME NEW s \in StoreType, NEW a \in Alarms
    PROVE  LET n == acknowledgeAlert(s, a)
           IN /\ n \in StoreType /\ n.handled = s.handled
              /\ a \in ToSet(n.dismissed) /\ ToSet(n.dismissed) \subseteq ToSet(s.dismissed) \cup {a}
              /\ Len(n.dismissed) >= DismissCap \/ ToSet(s.dismissed) \subseteq ToSet(n.dismissed)
              /\ Remembers(s.dismissed, n.dismissed)
<1> DEFINE fa == s.feedAck \cup ({a} \cap ToSet(s.feed))
           m == [s EXCEPT !.feedAck = fa]
           d == LastOf(Append(s.dismissed, a), DismissCap)
<1>1. s.dismissed \in Seq(Alarms) /\ fa \in SUBSET Alarms
  BY DEF StoreType
<1>2. acknowledgeAlert(s, a) = IF a \in ToSet(s.dismissed) THEN m ELSE [s EXCEPT !.feedAck = fa, !.dismissed = d]
  BY DEF acknowledgeAlert, dismissAlarm, StoreType
<1> HIDE DEF fa
<1>3. m \in StoreType /\ m.dismissed = s.dismissed /\ m.handled = s.handled
  BY <1>1 DEF StoreType
<1>4. CASE a \in ToSet(s.dismissed)
  <2>1. acknowledgeAlert(s, a) = m
    BY <1>2, <1>4
  <2> HIDE DEF m
  <2>2. DismissCap \in Nat /\ Len(s.dismissed) \in Nat
    BY <1>1, CapsAreSet
  <2>3. Remembers(m.dismissed, m.dismissed)
    BY <1>3, <2>2 DEF Remembers
  <2> QED BY <1>3, <1>4, <2>1, <2>3
<1>5. CASE a \notin ToSet(s.dismissed)
  <2> DEFINE n == [s EXCEPT !.feedAck = fa, !.dismissed = d]
  <2>1. acknowledgeAlert(s, a) = n
    BY <1>2, <1>5
  <2>2. /\ d \in Seq(Alarms) /\ Remembers(s.dismissed, d)
        /\ a \in ToSet(d) /\ ToSet(d) \subseteq ToSet(s.dismissed) \cup {a}
    BY <1>1, DismissedIsKept
  <2> HIDE DEF d
  <2>3. n \in StoreType /\ n.dismissed = d /\ n.handled = s.handled
    BY <1>1, <2>2 DEF StoreType
  <2> HIDE DEF n
  <2> QED BY <2>1, <2>2, <2>3 DEF Remembers
<1> QED BY <1>4, <1>5

(* acknowledgeIncident hides alarms of that incident only. *)
LEMMA IncidentIsHidden ==
    ASSUME NEW s \in StoreType, NEW i
    PROVE  LET n == acknowledgeIncident(s, i)
           IN /\ n \in StoreType /\ n.handled = s.handled /\ n.active = s.active
              /\ \A a \in ToSet(n.dismissed) : a \in ToSet(s.dismissed) \/ IncidentOf[a] = i
              /\ Remembers(s.dismissed, n.dismissed)
<1> DEFINE c == Children(s.feed, i)
           d == LastOf(s.dismissed \o c, DismissCap)
           n == [s EXCEPT !.incidents = @ \ {i}, !.feedAck = @ \cup ToSet(c), !.dismissed = d]
<1>1. s.feed \in Seq(Alarms) /\ s.dismissed \in Seq(Alarms)
  BY DEF StoreType
<1>2. c \in Seq(Alarms) /\ \A a \in ToSet(c) : IncidentOf[a] = i
  BY <1>1, ChildrenBelong
<1>3. acknowledgeIncident(s, i) = n
  BY DEF acknowledgeIncident
<1> HIDE DEF c
<1>4. d \in Seq(Alarms) /\ Remembers(s.dismissed, d) /\ ToSet(d) \subseteq ToSet(s.dismissed) \cup ToSet(c)
  BY <1>1, <1>2, AddedToDismissed
<1>5. ToSet(c) \subseteq Alarms
  BY <1>2 DEF ToSet
<1> HIDE DEF d
<1>6. n \in StoreType /\ n.handled = s.handled /\ n.active = s.active /\ n.dismissed = d
  BY <1>4, <1>5 DEF StoreType
<1> HIDE DEF n
<1> QED BY <1>2, <1>3, <1>4, <1>6

(* resolveAlarm hides the active alarm, counts it, and hides nothing else. *)
LEMMA ResolvedIsHidden ==
    ASSUME NEW s \in StoreType
    PROVE  LET n == resolveAlarm(s)
           IN /\ n \in StoreType /\ n.handled <= s.handled + 1
              /\ s.active # None => s.active \in ToSet(n.dismissed)
              /\ \A a \in ToSet(n.dismissed) : a \in ToSet(s.dismissed) \/ (a = s.active /\ a # None)
              /\ Remembers(s.dismissed, n.dismissed)
<1>0. s.active \in Alarms \cup {None} /\ s.handled \in Nat /\ s.dismissed \in Seq(Alarms)
  BY DEF StoreType
<1>1. CASE s.active = None
  <2> DEFINE n == [s EXCEPT !.status = "wrap_up"]
  <2>1. resolveAlarm(s) = n
    BY <1>1 DEF resolveAlarm
  <2>2. n \in StoreType /\ n.handled = s.handled /\ n.dismissed = s.dismissed
    BY DEF StoreType, Statuses
  <2> HIDE DEF n
  <2>3. DismissCap \in Nat /\ Len(s.dismissed) \in Nat
    BY <1>0, CapsAreSet
  <2>4. Remembers(s.dismissed, n.dismissed)
    BY <2>2, <2>3 DEF Remembers
  <2>5. n.handled <= s.handled + 1 /\ ToSet(n.dismissed) = ToSet(s.dismissed)
    BY <1>0, <2>2
  <2> QED BY <1>1, <2>1, <2>2, <2>4, <2>5
<1>2. CASE s.active # None
  <2> DEFINE a == s.active
             m == acknowledgeAlert(s, a)
             n == [m EXCEPT !.active = None, !.status = "wrap_up", !.last = a, !.handled = @ + 1]
  <2>1. a \in Alarms /\ a # None
    BY <1>0, <1>2, RoutesDiffer
  <2>2. resolveAlarm(s) = n
    BY <1>2 DEF resolveAlarm
  <2> HIDE DEF a
  <2>3. /\ m \in StoreType /\ m.handled = s.handled /\ a \in ToSet(m.dismissed)
        /\ ToSet(m.dismissed) \subseteq ToSet(s.dismissed) \cup {a}
        /\ Remembers(s.dismissed, m.dismissed)
    BY <2>1, AcknowledgedIsHidden
  <2> HIDE DEF m
  <2>4. m.handled + 1 \in Nat /\ "wrap_up" \in Statuses
    BY <1>0, <2>3 DEF Statuses
  <2>5. n \in StoreType
    BY <2>1, <2>3, <2>4 DEF StoreType
  <2>6. n.handled = m.handled + 1 /\ n.dismissed = m.dismissed
    BY <2>3 DEF StoreType
  <2> HIDE DEF n
  <2>7. n.handled <= s.handled + 1
    BY <1>0, <2>3, <2>6
  <2>8. \A b \in ToSet(n.dismissed) : b \in ToSet(s.dismissed) \/ (b = a /\ b # None)
    BY <2>1, <2>3, <2>6
  <2>9. a \in ToSet(n.dismissed) /\ Remembers(s.dismissed, n.dismissed)
    BY <2>3, <2>6
  <2> QED BY <2>2, <2>5, <2>7, <2>8, <2>9 DEF a
<1> QED BY <1>1, <1>2

-----------------------------------------------------------------------------
(* The inductive invariant of the console *)

(* The submissions whose disposition the server has. *)
AnsweredIn(f) == {k \in Slots : f[k].stage \in {"recorded", "ack"}}
AnsweredAreDisposed == \A k \in AnsweredIn(flight) : flight[k].alarm \in disposed
(* Each of them may still count one alarm as handled. *)
HandledWillBeRecorded == store.handled + Cardinality(AnsweredIn(flight)) <= events
SettledIsDismissed ==
    settled \subseteq ToSet(store.dismissed) \/ Len(store.dismissed) >= DismissCap

Backed == /\ HiddenWasRecorded /\ AnsweredAreDisposed
          /\ HandledWillBeRecorded /\ SettledIsDismissed
ConsoleInv == TypeOK /\ Backed

(* A place of flight is idle or holds a submission. *)
LEMMA FlightEntry ==
    ASSUME NEW r \in Submit \cup {Idle}
    PROVE  /\ r.stage \in {"idle", "post", "recorded", "ack"}
           /\ r # Idle => r \in Submit
           /\ r = Idle => r.stage = "idle"
<1>1. CASE r \in Submit
  BY <1>1 DEF Submit, Idle
<1>2. CASE r = Idle
  BY <1>2 DEF Idle
<1> QED BY <1>1, <1>2

LEMMA AnsweredIsFinite ==
    ASSUME NEW f PROVE IsFiniteSet(AnsweredIn(f)) /\ Cardinality(AnsweredIn(f)) \in Nat
<1>1. AnsweredIn(f) \subseteq Slots
  BY DEF AnsweredIn
<1>2. IsFiniteSet(AnsweredIn(f))
  BY <1>1, SlotsAreFinite, FS_Subset
<1> QED BY <1>2, FS_CardinalityType

LEMMA SubmissionsOnly ==
    ASSUME TypeOK, NEW k \in AnsweredIn(flight)
    PROVE  flight[k] \in Submit /\ flight[k].alarm \in Alarms
<1>1. k \in Slots /\ flight[k].stage \in {"recorded", "ack"}
  BY DEF AnsweredIn
<1>2. flight[k] \in Submit \cup {Idle}
  BY <1>1 DEF TypeOK
<1>3. flight[k] \in Submit
  BY <1>1, <1>2, FlightEntry
<1> QED BY <1>3 DEF Submit

LEMMA ConsoleInitially == Init => ConsoleInv
<1> SUFFICES ASSUME Init PROVE ConsoleInv
  OBVIOUS
<1> USE DEF Init
<1>1. EmptyStore \in StoreType /\ EmptyStore.dismissed = <<>> /\ EmptyStore.handled = 0
  BY DEF EmptyStore, StoreType, Statuses
<1>2. TypeOK
  <2>1. 0 \in 0..NumAlarms /\ 0 \in Nat
    BY CapsAreSet
  <2>2. flight \in [Slots -> Submit \cup {Idle}] /\ Console \in Routes
    BY DEF Routes
  <2> QED BY <1>1, <2>1, <2>2 DEF TypeOK
<1>3. ToSet(<<>>) = {}
  BY DEF ToSet
<1>4. AnsweredIn(flight) = {}
  BY DEF AnsweredIn, Idle
<1>5. Cardinality({}) = 0
  BY FS_EmptySet
<1>6. HiddenWasRecorded
  BY <1>1, <1>3 DEF HiddenWasRecorded
<1>7. HandledWillBeRecorded
  <2>1. store.handled = 0 /\ Cardinality(AnsweredIn(flight)) = 0 /\ events = 0
    BY <1>1, <1>4, <1>5
  <2> QED BY <2>1 DEF HandledWillBeRecorded
<1> QED BY <1>1, <1>2, <1>4, <1>6, <1>7 DEF ConsoleInv, Backed, AnsweredAreDisposed, SettledIsDismissed

(* A step that records, hides and counts nothing, and answers no submission,  *)
(* keeps what backs the console.                                             *)
LEMMA QuietStep ==
    ASSUME ConsoleInv, UNCHANGED <<disposed, events, settled, overtaken>>,
           store'.dismissed = store.dismissed, store'.handled = store.handled,
           \A k \in AnsweredIn(flight') :
               k \in AnsweredIn(flight) /\ flight'[k].alarm = flight[k].alarm
    PROVE  Backed'
<1> USE DEF ConsoleInv, Backed
<1>1. HiddenWasRecorded'
  BY DEF HiddenWasRecorded
<1>2. AnsweredAreDisposed'
  BY DEF AnsweredAreDisposed
<1>3. HandledWillBeRecorded'
  <2>1. Cardinality(AnsweredIn(flight')) <= Cardinality(AnsweredIn(flight))
    BY AnsweredIsFinite, FS_Subset
  <2>2. Cardinality(AnsweredIn(flight')) \in Nat /\ Cardinality(AnsweredIn(flight)) \in Nat
    BY AnsweredIsFinite
  <2>3. events \in Nat /\ store.handled \in Nat
    BY DEF TypeOK, StoreType
  <2> QED BY <2>1, <2>2, <2>3 DEF HandledWillBeRecorded
<1>4. SettledIsDismissed'
  BY DEF SettledIsDismissed
<1> QED BY <1>1, <1>2, <1>3, <1>4

LEMMA SameFlight ==
    ASSUME ConsoleInv, UNCHANGED <<disposed, events, settled, overtaken, flight>>,
           store'.dismissed = store.dismissed, store'.handled = store.handled
    PROVE  Backed'
BY QuietStep

(* What a field of the store may become when its list and its count stay. *)
LEMMA Engaged ==
    ASSUME NEW s \in StoreType, NEW a \in Alarms
    PROVE  /\ engageAlarm(s, a) \in StoreType
           /\ engageAlarm(s, a).dismissed = s.dismissed /\ engageAlarm(s, a).handled = s.handled
BY DEF engageAlarm, StoreType, Statuses

LEMMA StatusSet ==
    ASSUME NEW s \in StoreType, NEW st \in Statuses
    PROVE  LET n == [s EXCEPT !.status = st]
           IN n \in StoreType /\ n.dismissed = s.dismissed /\ n.handled = s.handled
BY DEF StoreType

LEMMA IncidentsAdded ==
    ASSUME NEW s \in StoreType, NEW I \in SUBSET Incidents
    PROVE  LET n == [s EXCEPT !.incidents = @ \cup I]
           IN n \in StoreType /\ n.dismissed = s.dismissed /\ n.handled = s.handled
BY DEF StoreType

-----------------------------------------------------------------------------
(* The inductive step: server and socket *)

LEMMA RaiseStep ==
    ASSUME ConsoleInv, NEW c \in BOOLEAN, RaiseAlarm(c) PROVE ConsoleInv'
<1>1. /\ UNCHANGED <<acked, disposed, events, rest, seed, detail, store>>
      /\ UNCHANGED <<loaded, page, nav, submitting, flight, settled, overtaken>>
  BY DEF RaiseAlarm, screen, history
<1>2. raised \in Nat /\ NumAlarms \in Nat /\ raised < NumAlarms
  BY CapsAreSet DEF ConsoleInv, TypeOK, RaiseAlarm
<1>3. raised + 1 \in 0..NumAlarms /\ raised + 1 \in Alarms
  BY <1>2 DEF Alarms
<1>4. IncidentOf[raised + 1] \in Incidents \cup {None}
  BY <1>3, IncidentOfAssumption
<1>5. wire' \subseteq Alarms \cup Incidents /\ raised' \in 0..NumAlarms
  BY <1>3, <1>4 DEF RaiseAlarm, ConsoleInv, TypeOK
<1>6. TypeOK'
  BY <1>1, <1>5 DEF ConsoleInv, TypeOK
<1> QED BY <1>1, <1>6, SameFlight DEF ConsoleInv

LEMMA PollStep ==
    ASSUME ConsoleInv, NEW n \in 0..raised, NEW before \in SUBSET acked, PollReply(n, before)
    PROVE  ConsoleInv'
<1>1. /\ UNCHANGED <<raised, acked, disposed, events, wire, seed, detail, store>>
      /\ UNCHANGED <<loaded, page, nav, submitting, flight, settled, overtaken>>
  BY DEF PollReply, server, screen, history
<1>2. raised \in 0..NumAlarms /\ NumAlarms \in Nat
  BY CapsAreSet DEF ConsoleInv, TypeOK
<1>3. rest' \subseteq Alarms
  BY <1>2 DEF PollReply, Alarms
<1>4. TypeOK'
  BY <1>1, <1>3 DEF ConsoleInv, TypeOK
<1> QED BY <1>1, <1>4, SameFlight DEF ConsoleInv

LEMMA SocketStep ==
    ASSUME ConsoleInv, SocketCloses \/ \E m \in Alarms \cup Incidents : SocketMessage(m)
    PROVE  ConsoleInv'
<1>1. CASE SocketCloses
  <2>1. /\ UNCHANGED <<raised, acked, disposed, events, rest, seed, detail, store>>
        /\ UNCHANGED <<loaded, page, nav, submitting, flight, settled, overtaken>>
    BY <1>1 DEF SocketCloses, server, screen, history
  <2>2. TypeOK'
    BY <1>1, <2>1 DEF ConsoleInv, TypeOK, SocketCloses
  <2> QED BY <2>1, <2>2, SameFlight DEF ConsoleInv
<1>2. ASSUME NEW m \in Alarms \cup Incidents, SocketMessage(m) PROVE ConsoleInv'
  <2>1. /\ UNCHANGED <<raised, acked, disposed, events, rest, seed, detail>>
        /\ UNCHANGED <<loaded, page, nav, submitting, flight, settled, overtaken>>
        /\ wire' = wire \ {m}
    BY <1>2 DEF SocketMessage, server, screen, history
  <2>2. store \in StoreType
    BY DEF ConsoleInv, TypeOK
  <2>3. store' \in StoreType /\ store'.dismissed = store.dismissed /\ store'.handled = store.handled
    <3>1. CASE m \in Alarms
      BY <1>2, <2>2, <3>1, AddingKeeps DEF SocketMessage
    <3>2. CASE m \notin Alarms
      <4>1. store' = upsertIncident(store, m) /\ {m} \in SUBSET Incidents
        BY <1>2, <3>2 DEF SocketMessage
      <4> QED BY <2>2, <4>1, IncidentsAdded DEF upsertIncident
    <3> QED BY <3>1, <3>2
  <2>4. TypeOK'
    BY <2>1, <2>3 DEF ConsoleInv, TypeOK
  <2> QED BY <2>1, <2>3, <2>4, SameFlight DEF ConsoleInv
<1> QED BY <1>1, <1>2

LEMMA SeedStep ==
    ASSUME ConsoleInv, SeedReply PROVE ConsoleInv'
<1>1. /\ UNCHANGED <<raised, acked, disposed, events, wire, rest, detail>>
      /\ UNCHANGED <<loaded, page, nav, submitting, flight, settled, overtaken>>
      /\ seed' = {} /\ store' = [store EXCEPT !.incidents = @ \cup seed]
  BY DEF SeedReply, server, screen, history
<1>2. store \in StoreType /\ seed \in SUBSET Incidents
  BY DEF ConsoleInv, TypeOK
<1>3. store' \in StoreType /\ store'.dismissed = store.dismissed /\ store'.handled = store.handled
  BY <1>1, <1>2, IncidentsAdded
<1>4. TypeOK'
  BY <1>1, <1>3 DEF ConsoleInv, TypeOK
<1> QED BY <1>1, <1>3, <1>4, SameFlight DEF ConsoleInv

-----------------------------------------------------------------------------
(* The console page and the routes *)

(* The clicks, the guard and the effects that only engage an alarm, set the *)
(* status or push a route.                                                  *)
LEMMA PageStep ==
    ASSUME ConsoleInv,
           \/ \E a \in Alarms : ClickAlert(a)
           \/ \E i \in Incidents : ClickIncident(i)
           \/ StaleStatusGuard \/ ReadyForNext \/ GoBack \/ EngageEffect \/ handleAbandon
    PROVE  ConsoleInv'
<1>1. /\ UNCHANGED <<raised, acked, disposed, events, wire, rest, seed, detail>>
      /\ UNCHANGED <<loaded, page, submitting, flight, settled, overtaken>>
  BY DEF ClickAlert, ClickIncident, StaleStatusGuard, ReadyForNext, GoBack, EngageEffect,
         handleAbandon, server, network, screen, history
<1>2. store \in StoreType /\ nav \in Routes \cup {None}
  BY DEF ConsoleInv, TypeOK
<1>3. /\ nav' \in Routes \cup {None}
      /\ store' \in StoreType /\ store'.dismissed = store.dismissed /\ store'.handled = store.handled
  <2>1. ASSUME NEW a \in Alarms, ClickAlert(a) PROVE <1>3!:
    <3>1. store' = engageAlarm(store, a) /\ nav' = a
      BY <2>1 DEF ClickAlert
    <3> QED BY <1>2, <3>1, Engaged DEF Routes
  <2>2. ASSUME NEW i \in Incidents, ClickIncident(i) PROVE <1>3!:
    BY <1>2, <2>2 DEF ClickIncident, Routes
  <2>3. CASE StaleStatusGuard
    <3>1. "available" \in Statuses /\ store' = [store EXCEPT !.status = "available"] /\ nav' = nav
      BY <2>3 DEF StaleStatusGuard, Statuses, screen
    <3> QED BY <1>2, <3>1, StatusSet
  <2>4. CASE ReadyForNext
    <3>1. store' = [store EXCEPT !.status = "available", !.last = None] /\ nav' = nav
      BY <2>4 DEF ReadyForNext, exitWrapUp, screen
    <3> QED BY <1>2, <3>1 DEF StoreType, Statuses
  <2>5. CASE GoBack
    BY <1>2, <2>5 DEF GoBack, Routes
  <2>6. CASE EngageEffect
    <3>1. store' = engageAlarm(store, page) /\ nav' = nav /\ page \in Alarms
      BY <2>6 DEF EngageEffect, screen
    <3> QED BY <1>2, <3>1, Engaged
  <2>7. CASE handleAbandon
    <3>1. store' = [store EXCEPT !.active = None, !.status = "available"] /\ nav' = Console
      BY <2>7 DEF handleAbandon, abandonAlarm
    <3> QED BY <1>2, <3>1 DEF StoreType, Statuses, Routes
  <2> QED BY <2>1, <2>2, <2>3, <2>4, <2>5, <2>6, <2>7
<1>4. TypeOK'
  BY <1>1, <1>3 DEF ConsoleInv, TypeOK
<1> QED BY <1>1, <1>3, <1>4, SameFlight DEF ConsoleInv

(* An answer to an incident fetch engages a known alarm or none. *)
LEMMA DetailStep ==
    ASSUME ConsoleInv, NEW d \in detail, IncidentReply(d) \/ IncidentFetchFails(d)
    PROVE  ConsoleInv'
<1>1. /\ UNCHANGED <<raised, acked, disposed, events, wire, rest, seed>>
      /\ UNCHANGED <<page, nav, submitting, flight, settled, overtaken>>
      /\ detail' = detail \ {d}
  BY DEF IncidentReply, IncidentFetchFails, server, history
<1>2. loaded' \in BOOLEAN
  BY DEF IncidentReply, IncidentFetchFails
<1>3. store \in StoreType /\ raised \in 0..NumAlarms /\ NumAlarms \in Nat
  BY CapsAreSet DEF ConsoleInv, TypeOK
<1>4. store' \in StoreType /\ store'.dismissed = store.dismissed /\ store'.handled = store.handled
  <2>1. CASE IncidentReply(d)
    <3>1. Latest(d.inc) \in Known
      BY <1>3, <2>1, LatestIsKnown DEF IncidentReply
    <3>2. Latest(d.inc) \in Alarms
      BY <1>3, <3>1 DEF Known, Alarms
    <3>3. store' = store \/ store' = engageAlarm(store, Latest(d.inc))
      BY <2>1 DEF IncidentReply
    <3> QED BY <1>3, <3>2, <3>3, Engaged
  <2>2. CASE IncidentFetchFails(d)
    BY <1>3, <2>2 DEF IncidentFetchFails
  <2> QED BY <2>1, <2>2
<1>5. TypeOK'
  BY <1>1, <1>2, <1>4 DEF ConsoleInv, TypeOK
<1> QED BY <1>1, <1>4, <1>5, SameFlight DEF ConsoleInv

LEMMA OldFetches ==
    ASSUME NEW D, D \subseteq Fetch
    PROVE  {[d EXCEPT !.live = FALSE] : d \in D} \subseteq Fetch
BY DEF Fetch

(* A submission outlives the page that sent it. *)
LEMMA FlightLeft ==
    ASSUME TypeOK,
           flight' = [k \in Slots |->
               IF flight[k] = Idle THEN Idle ELSE [flight[k] EXCEPT !.live = FALSE]]
    PROVE  /\ flight' \in [Slots -> Submit \cup {Idle}]
           /\ \A k \in AnsweredIn(flight') :
                 k \in AnsweredIn(flight) /\ flight'[k].alarm = flight[k].alarm
<1>1. ASSUME NEW k \in Slots
      PROVE  /\ flight'[k] \in Submit \cup {Idle} /\ flight'[k].stage = flight[k].stage
             /\ flight[k] # Idle => flight'[k].alarm = flight[k].alarm
  <2>1. flight[k] \in Submit \cup {Idle}
    BY DEF TypeOK
  <2>2. CASE flight[k] = Idle
    BY <2>2
  <2>3. CASE flight[k] # Idle
    <3>1. flight[k] \in Submit
      BY <2>1, <2>3
    <3>2. flight'[k] = [flight[k] EXCEPT !.live = FALSE]
      BY <2>3
    <3> QED BY <3>1, <3>2 DEF Submit
  <2> QED BY <2>2, <2>3
<1>2. flight' \in [Slots -> Submit \cup {Idle}]
  BY <1>1
<1>3. ASSUME NEW k \in AnsweredIn(flight')
      PROVE  k \in AnsweredIn(flight) /\ flight'[k].alarm = flight[k].alarm
  <2>1. k \in Slots /\ flight'[k].stage \in {"recorded", "ack"}
    BY DEF AnsweredIn
  <2>2. flight[k].stage \in {"recorded", "ack"}
    BY <1>1, <2>1
  <2>3. flight[k] # Idle
    BY <2>2 DEF Idle
  <2> QED BY <1>1, <2>1, <2>2, <2>3 DEF AnsweredIn
<1> QED BY <1>2, <1>3

LEMMA NavigationStep ==
    ASSUME ConsoleInv, FinishNavigation PROVE ConsoleInv'
<1>1. /\ UNCHANGED <<raised, acked, disposed, events, rest, store, settled, overtaken>>
      /\ page' = nav /\ nav' = None /\ nav # None
  BY DEF FinishNavigation, server, history
<1>2. TypeOK
  BY DEF ConsoleInv
<1>3. nav \in Routes
  BY <1>1, <1>2 DEF TypeOK
<1>4. CASE nav = page
  <2>1. UNCHANGED <<submitting, loaded, flight, wire, seed, detail>>
    BY <1>4 DEF FinishNavigation
  <2>2. TypeOK'
    BY <1>1, <1>2, <1>3, <2>1 DEF TypeOK
  <2> QED BY <1>1, <2>1, <2>2, SameFlight DEF ConsoleInv
<1>5. CASE nav # page
  <2> DEFINE old == {[d EXCEPT !.live = FALSE] : d \in detail}
  <2>1. /\ submitting' = FALSE /\ loaded' = FALSE /\ wire' = {}
        /\ flight' = [k \in Slots |->
               IF flight[k] = Idle THEN Idle ELSE [flight[k] EXCEPT !.live = FALSE]]
        /\ seed' = IF nav = Console THEN ActiveIncidents ELSE seed
        /\ \/ nav \in Incidents /\ detail' = old \cup {[inc |-> nav, seen |-> store.active, live |-> TRUE]}
           \/ detail' = old
    BY <1>5 DEF FinishNavigation
  <2>2. seed' \subseteq Incidents
    BY <1>2, <2>1 DEF TypeOK, ActiveIncidents
  <2>3. detail' \subseteq Fetch
    <3>1. old \subseteq Fetch
      BY <1>2, OldFetches DEF TypeOK
    <3>2. store.active \in Alarms \cup {None}
      BY <1>2 DEF TypeOK, StoreType
    <3>3. nav \in Incidents => [inc |-> nav, seen |-> store.active, live |-> TRUE] \in Fetch
      BY <3>2 DEF Fetch
    <3> HIDE DEF old
    <3> QED BY <2>1, <3>1, <3>3
  <2>4. /\ flight' \in [Slots -> Submit \cup {Idle}]
        /\ \A k \in AnsweredIn(flight') :
              k \in AnsweredIn(flight) /\ flight'[k].alarm = flight[k].alarm
    BY <1>2, <2>1, FlightLeft
  <2>5. TypeOK'
    BY <1>1, <1>2, <1>3, <2>1, <2>2, <2>3, <2>4 DEF TypeOK
  <2>6. Backed'
    BY <1>1, <2>4, QuietStep
  <2> QED BY <2>5, <2>6 DEF ConsoleInv
<1> QED BY <1>4, <1>5

(* A reload keeps the dismissed alarms and the count, and drops every submission. *)
LEMMA ReloadStep ==
    ASSUME ConsoleInv, Reload PROVE ConsoleInv'
<1>1. /\ UNCHANGED <<raised, acked, disposed, events, page, settled, overtaken>>
      /\ store' = Persisted(store) /\ wire' = {} /\ rest' = {}
      /\ loaded' = FALSE /\ nav' = None /\ submitting' = FALSE
      /\ flight' = [k \in Slots |-> Idle]
      /\ seed' = IF page = Console THEN ActiveIncidents ELSE {}
      /\ detail' = IF page \in Incidents THEN {[inc |-> page, seen |-> None, live |-> TRUE]} ELSE {}
  BY DEF Reload, server, history
<1>2. TypeOK
  BY DEF ConsoleInv
<1>3. store.dismissed \in Seq(Alarms) /\ store.handled \in Nat
  BY <1>2 DEF TypeOK, StoreType
<1>4. store' \in StoreType /\ store'.dismissed = store.dismissed /\ store'.handled = store.handled
  <2>1. EmptyStore \in StoreType
    BY DEF EmptyStore, StoreType, Statuses
  <2>2. store' = [EmptyStore EXCEPT !.dismissed = store.dismissed, !.handled = store.handled]
    BY <1>1 DEF Persisted
  <2> QED BY <1>3, <2>1, <2>2 DEF StoreType
<1>5. seed' \subseteq Incidents /\ detail' \subseteq Fetch
  <2>1. seed' \subseteq Incidents
    BY <1>1 DEF ActiveIncidents
  <2>2. page \in Incidents => [inc |-> page, seen |-> None, live |-> TRUE] \in Fetch
    BY DEF Fetch
  <2> QED BY <1>1, <2>1, <2>2
<1>6. flight' \in [Slots -> Submit \cup {Idle}] /\ AnsweredIn(flight') = {}
  BY <1>1 DEF AnsweredIn, Idle
<1>7. TypeOK'
  BY <1>1, <1>2, <1>4, <1>5, <1>6 DEF TypeOK
<1>8. Backed'
  BY <1>1, <1>4, <1>6, QuietStep
<1> QED BY <1>7, <1>8 DEF ConsoleInv

-----------------------------------------------------------------------------
(* The submission of a disposition *)

(* A new submission has no answer yet; one that fails is dropped; one whose  *)
(* answer is in stays answered while its incident is acknowledged.           *)
LEMMA ShownIsAlarm == ASSUME TypeOK, ShownAlarm # None PROVE ShownAlarm \in Alarms
<1>1. store.active \in Alarms \cup {None}
  BY DEF TypeOK, StoreType
<1>2. ShownAlarm = store.active \/ ShownAlarm = None
  BY DEF ShownAlarm
<1> QED BY <1>1, <1>2

LEMMA SubmitStep ==
    ASSUME ConsoleInv, NEW k \in Slots, SubmitDisposition(k) PROVE ConsoleInv'
<1> DEFINE new == [stage |-> "post", alarm |-> ShownAlarm,
                   inc |-> IF page \in Incidents /\ loaded THEN page ELSE None, live |-> TRUE]
<1>1. /\ UNCHANGED <<raised, acked, disposed, events, wire, rest, seed, detail, store>>
      /\ UNCHANGED <<loaded, page, nav, settled, overtaken>>
      /\ submitting' = TRUE /\ flight' = [flight EXCEPT ![k] = new]
  BY DEF SubmitDisposition, server, network, history
<1>2. TypeOK
  BY DEF ConsoleInv
<1>3. new \in Submit /\ new.stage = "post"
  <2>1. ShownAlarm \in Alarms
    BY <1>2, ShownIsAlarm DEF SubmitDisposition
  <2> QED BY <2>1 DEF Submit
<1> HIDE DEF new
<1>4. flight \in [Slots -> Submit \cup {Idle}]
  BY <1>2 DEF TypeOK
<1>5. flight' \in [Slots -> Submit \cup {Idle}]
  BY <1>1, <1>3, <1>4
<1>6. \A j \in AnsweredIn(flight') : j \in AnsweredIn(flight) /\ flight'[j].alarm = flight[j].alarm
  BY <1>1, <1>3, <1>4 DEF AnsweredIn
<1>7. TypeOK'
  BY <1>1, <1>2, <1>5 DEF TypeOK
<1>8. Backed'
  BY <1>1, <1>6, QuietStep
<1> QED BY <1>7, <1>8 DEF ConsoleInv

LEMMA FailStep ==
    ASSUME ConsoleInv, NEW k \in Slots, PostFails(k) PROVE ConsoleInv'
<1>1. /\ UNCHANGED <<raised, acked, disposed, events, wire, rest, seed, detail, store>>
      /\ UNCHANGED <<loaded, page, nav, submitting, settled, overtaken>>
      /\ flight' = [flight EXCEPT ![k] = Idle]
  BY DEF PostFails, server, network, screen, history
<1>2. TypeOK /\ flight \in [Slots -> Submit \cup {Idle}]
  BY DEF ConsoleInv, TypeOK
<1>3. flight' \in [Slots -> Submit \cup {Idle}]
  BY <1>1, <1>2
<1>4. Idle.stage = "idle"
  BY DEF Idle
<1>5. \A j \in AnsweredIn(flight') : j \in AnsweredIn(flight) /\ flight'[j].alarm = flight[j].alarm
  BY <1>1, <1>2, <1>4 DEF AnsweredIn
<1>6. TypeOK'
  BY <1>1, <1>2, <1>3 DEF TypeOK
<1>7. Backed'
  BY <1>1, <1>5, QuietStep
<1> QED BY <1>6, <1>7 DEF ConsoleInv

(* A submission at its next stage. *)
LEMMA StageSet ==
    ASSUME TypeOK, NEW k \in Slots, flight[k] # Idle, NEW st \in {"recorded", "ack"},
           flight' = [flight EXCEPT ![k].stage = st]
    PROVE  /\ flight' \in [Slots -> Submit \cup {Idle}]
           /\ flight'[k].alarm = flight[k].alarm /\ flight[k].alarm \in Alarms
           /\ \A j \in Slots \ {k} : flight'[j] = flight[j]
           /\ AnsweredIn(flight') = AnsweredIn(flight) \cup {k}
<1>1. flight \in [Slots -> Submit \cup {Idle}] /\ flight[k] \in Submit
  BY DEF TypeOK
<1> DEFINE new == [flight[k] EXCEPT !.stage = st]
<1>2. new \in Submit /\ new.stage = st /\ new.alarm = flight[k].alarm /\ flight[k].alarm \in Alarms
  BY <1>1 DEF Submit
<1>3. flight' = [flight EXCEPT ![k] = new]
  BY <1>1
<1> HIDE DEF new
<1>4. flight' \in [Slots -> Submit \cup {Idle}]
  BY <1>1, <1>2, <1>3
<1>5. flight'[k] = new /\ \A j \in Slots \ {k} : flight'[j] = flight[j]
  BY <1>1, <1>3
<1>6. AnsweredIn(flight') = AnsweredIn(flight) \cup {k}
  BY <1>2, <1>5 DEF AnsweredIn
<1> QED BY <1>2, <1>4, <1>5, <1>6

LEMMA RecordedStep ==
    ASSUME ConsoleInv, NEW k \in Slots, PostRecorded(k) PROVE ConsoleInv'
<1> DEFINE a == flight[k].alarm
<1>1. /\ UNCHANGED <<raised, wire, rest, seed, detail, store>>
      /\ UNCHANGED <<loaded, page, nav, submitting, settled, overtaken>>
      /\ events' = events + 1 /\ disposed' = disposed \cup {a} /\ acked' = acked \cup {a}
      /\ flight' = [flight EXCEPT ![k].stage = "recorded"]
      /\ flight[k] # Idle /\ flight[k].stage = "post"
  BY DEF PostRecorded, network, screen, history
<1>2. TypeOK /\ Backed
  BY DEF ConsoleInv
<1>3. /\ flight' \in [Slots -> Submit \cup {Idle}]
      /\ flight'[k].alarm = a /\ a \in Alarms
      /\ \A j \in Slots \ {k} : flight'[j] = flight[j]
      /\ AnsweredIn(flight') = AnsweredIn(flight) \cup {k}
  BY <1>1, <1>2, StageSet
<1>4. events \in Nat /\ store.handled \in Nat
  BY <1>2 DEF TypeOK, StoreType
<1> HIDE DEF a
<1>5. TypeOK'
  BY <1>1, <1>2, <1>3, <1>4 DEF TypeOK
<1>6. HiddenWasRecorded'
  BY <1>1, <1>2 DEF Backed, HiddenWasRecorded
<1>7. AnsweredAreDisposed'
  <2> SUFFICES ASSUME NEW j \in AnsweredIn(flight') PROVE flight'[j].alarm \in disposed'
    BY DEF AnsweredAreDisposed
  <2>1. CASE j = k
    BY <1>1, <1>3, <2>1
  <2>2. CASE j # k
    <3>1. j \in AnsweredIn(flight) /\ j \in Slots
      BY <1>3, <2>2 DEF AnsweredIn
    <3> QED BY <1>1, <1>2, <1>3, <2>2, <3>1 DEF Backed, AnsweredAreDisposed
  <2> QED BY <2>1, <2>2
<1>8. HandledWillBeRecorded'
  <2>1. k \notin AnsweredIn(flight)
    BY <1>1 DEF AnsweredIn
  <2>2. IsFiniteSet(AnsweredIn(flight)) /\ Cardinality(AnsweredIn(flight)) \in Nat
    BY AnsweredIsFinite
  <2>3. Cardinality(AnsweredIn(flight')) = Cardinality(AnsweredIn(flight)) + 1
    BY <1>3, <2>1, <2>2, FS_AddElement
  <2> QED BY <1>1, <1>2, <1>4, <2>2, <2>3 DEF Backed, HandledWillBeRecorded
<1>9. SettledIsDismissed'
  BY <1>1, <1>2 DEF Backed, SettledIsDismissed
<1> QED BY <1>5, <1>6, <1>7, <1>8, <1>9 DEF ConsoleInv, Backed

LEMMA AcknowledgeStep ==
    ASSUME ConsoleInv, NEW k \in Slots, NEW r \in BOOLEAN, AcknowledgeIncidentSent(k, r)
    PROVE  ConsoleInv'
<1>1. /\ UNCHANGED <<raised, disposed, events, wire, rest, seed, detail, store>>
      /\ UNCHANGED <<loaded, page, nav, submitting, settled, overtaken>>
      /\ acked' = IF r THEN acked \cup ChildrenOf(flight[k].inc) ELSE acked
      /\ flight' = [flight EXCEPT ![k].stage = "ack"]
      /\ flight[k] # Idle /\ flight[k].stage = "recorded"
  BY DEF AcknowledgeIncidentSent, network, screen, history
<1>2. TypeOK
  BY DEF ConsoleInv
<1>3. /\ flight' \in [Slots -> Submit \cup {Idle}]
      /\ flight'[k].alarm = flight[k].alarm
      /\ \A j \in Slots \ {k} : flight'[j] = flight[j]
      /\ AnsweredIn(flight') = AnsweredIn(flight) \cup {k}
  BY <1>1, <1>2, StageSet
<1>4. k \in AnsweredIn(flight)
  BY <1>1 DEF AnsweredIn
<1>5. \A j \in AnsweredIn(flight') : j \in AnsweredIn(flight) /\ flight'[j].alarm = flight[j].alarm
  BY <1>3, <1>4 DEF AnsweredIn
<1>6. ChildrenOf(flight[k].inc) \subseteq Alarms
  <2>1. raised \in 0..NumAlarms /\ NumAlarms \in Nat
    BY <1>2, CapsAreSet DEF TypeOK
  <2>2. Known \subseteq Alarms
    BY <2>1 DEF Known, Alarms
  <2> QED BY <2>2 DEF ChildrenOf
<1>7. TypeOK'
  BY <1>1, <1>2, <1>3, <1>6 DEF TypeOK
<1>8. Backed'
  BY <1>1, <1>5, QuietStep
<1> QED BY <1>7, <1>8 DEF ConsoleInv

LEMMA RemembersOn ==
    ASSUME NEW r \in Seq(Alarms), NEW s \in Seq(Alarms), NEW t \in Seq(Alarms),
           Remembers(r, s), Remembers(s, t)
    PROVE  Remembers(r, t)
<1>1. Len(r) \in Nat /\ Len(s) \in Nat /\ Len(t) \in Nat /\ DismissCap \in Nat
  BY CapsAreSet
<1> QED BY <1>1 DEF Remembers

(* What resolving a submission does to the store: before is the store with the *)
(* incident of the submission closed, which comes first.                       *)
LEMMA ResolvedStore ==
    ASSUME NEW s \in StoreType, NEW i
    PROVE  LET before == IF i = None THEN s ELSE acknowledgeIncident(s, i)
               n      == resolveAlarm(before)
           IN /\ n \in StoreType /\ before \in StoreType /\ n.handled <= s.handled + 1
              /\ s.active # None => s.active \in ToSet(n.dismissed)
              /\ \A a \in ToSet(n.dismissed) :
                    a \in ToSet(before.dismissed) \/ (a = s.active /\ a # None)
              /\ \A a \in ToSet(before.dismissed) :
                    a \in ToSet(s.dismissed) \/ (i # None /\ IncidentOf[a] = i)
              /\ Remembers(s.dismissed, n.dismissed)
<1> DEFINE before == IF i = None THEN s ELSE acknowledgeIncident(s, i)
           n == resolveAlarm(before)
<1>0. s.dismissed \in Seq(Alarms) /\ DismissCap \in Nat /\ Len(s.dismissed) \in Nat
  BY CapsAreSet DEF StoreType
<1>1. /\ before \in StoreType /\ before.handled = s.handled /\ before.active = s.active
      /\ \A a \in ToSet(before.dismissed) : a \in ToSet(s.dismissed) \/ (i # None /\ IncidentOf[a] = i)
      /\ Remembers(s.dismissed, before.dismissed)
  <2>1. CASE i = None
    <3>1. before = s
      BY <2>1
    <3>2. Remembers(s.dismissed, s.dismissed)
      BY <1>0 DEF Remembers
    <3> HIDE DEF before
    <3> QED BY <3>1, <3>2
  <2>2. CASE i # None
    <3>1. before = acknowledgeIncident(s, i)
      BY <2>2
    <3> HIDE DEF before
    <3> QED BY <2>2, <3>1, IncidentIsHidden
  <2> QED BY <2>1, <2>2
<1> HIDE DEF before
<1>2. /\ n \in StoreType /\ n.handled <= before.handled + 1
      /\ before.active # None => before.active \in ToSet(n.dismissed)
      /\ \A a \in ToSet(n.dismissed) : a \in ToSet(before.dismissed) \/ (a = before.active /\ a # None)
      /\ Remembers(before.dismissed, n.dismissed)
  BY <1>1, ResolvedIsHidden
<1> HIDE DEF n
<1>3. before.dismissed \in Seq(Alarms) /\ n.dismissed \in Seq(Alarms)
  BY <1>1, <1>2 DEF StoreType
<1>4. Remembers(s.dismissed, n.dismissed)
  BY <1>0, <1>1, <1>2, <1>3, RemembersOn
<1>5. /\ n \in StoreType /\ before \in StoreType /\ n.handled <= s.handled + 1
      /\ s.active # None => s.active \in ToSet(n.dismissed)
      /\ \A a \in ToSet(n.dismissed) : a \in ToSet(before.dismissed) \/ (a = s.active /\ a # None)
  BY <1>1, <1>2
<1> QED BY <1>1, <1>4, <1>5 DEF n, before

(* The submission finishes: the alarm it was for has its disposition, and an  *)
(* alarm it hides beyond that one and its incident is among the overtaken.    *)
LEMMA ResolveStep ==
    ASSUME ConsoleInv, NEW k \in Slots, ResolveSubmission(k) PROVE ConsoleInv'
<1> DEFINE f == flight[k]
           a == f.alarm
           i == f.inc
           before == IF i = None THEN store ELSE acknowledgeIncident(store, i)
           n == resolveAlarm(before)
<1>1. /\ UNCHANGED <<raised, acked, disposed, events, wire, rest, seed, detail, loaded, page>>
      /\ f # Idle /\ f.stage \in {"recorded", "ack"}
      /\ store' = n
      /\ settled' = IF store.active = a THEN settled \cup {a} ELSE settled
      /\ overtaken' = overtaken \cup ({store.active} \ {a, None})
             \cup (IF i # None /\ IncidentOf[a] # i
                   THEN ToSet(before.dismissed) \ ToSet(store.dismissed) ELSE {})
      /\ flight' = [flight EXCEPT ![k] = Idle]
      /\ submitting' \in {FALSE, submitting} /\ nav' \in {Console, nav}
  BY DEF ResolveSubmission, server, network
<1>2. TypeOK /\ Backed
  BY DEF ConsoleInv
<1>3. store \in StoreType /\ flight \in [Slots -> Submit \cup {Idle}] /\ events \in Nat
  BY <1>2 DEF TypeOK
<1>4. k \in AnsweredIn(flight)
  BY <1>1 DEF AnsweredIn
<1>5. a \in Alarms /\ a \in disposed
  BY <1>2, <1>4, SubmissionsOnly DEF Backed, AnsweredAreDisposed
<1>6. /\ n \in StoreType /\ before \in StoreType /\ n.handled <= store.handled + 1
      /\ store.active # None => store.active \in ToSet(n.dismissed)
      /\ \A b \in ToSet(n.dismissed) :
            b \in ToSet(before.dismissed) \/ (b = store.active /\ b # None)
      /\ \A b \in ToSet(before.dismissed) :
            b \in ToSet(store.dismissed) \/ (i # None /\ IncidentOf[b] = i)
      /\ Remembers(store.dismissed, n.dismissed)
  BY <1>3, ResolvedStore
<1> HIDE DEF n, before, a, i
<1>7. store.active \in Alarms \cup {None} /\ store.handled \in Nat /\ n.handled \in Nat
  BY <1>3, <1>6 DEF StoreType
<1>8. ToSet(before.dismissed) \subseteq Alarms
  <2>1. before.dismissed \in Seq(Alarms)
    BY <1>6 DEF StoreType
  <2> QED BY <2>1 DEF ToSet
<1>9. flight' \in [Slots -> Submit \cup {Idle}]
  BY <1>1, <1>3
<1>10. TypeOK'
  <2>1. settled' \subseteq Alarms /\ overtaken' \subseteq Alarms
    BY <1>1, <1>2, <1>5, <1>7, <1>8 DEF TypeOK
  <2>2. submitting' \in BOOLEAN /\ nav' \in Routes \cup {None}
    BY <1>1, <1>2 DEF TypeOK, Routes
  <2> QED BY <1>1, <1>2, <1>6, <1>9, <2>1, <2>2 DEF TypeOK
<1>11. AnsweredIn(flight') = AnsweredIn(flight) \ {k}
       /\ \A j \in AnsweredIn(flight') : flight'[j] = flight[j]
  <2>1. Idle.stage = "idle"
    BY DEF Idle
  <2> QED BY <1>1, <1>3, <2>1 DEF AnsweredIn
<1>12. HiddenWasRecorded'
  <2> SUFFICES ASSUME NEW b \in ToSet(n.dismissed), b \notin overtaken'
               PROVE  b \in disposed \/ \E c \in disposed : IncidentOf[c] = IncidentOf[b] /\ IncidentOf[b] # None
    BY <1>1 DEF HiddenWasRecorded
  <2>1. CASE b = store.active /\ b # None
    BY <1>1, <1>5, <2>1
  <2>2. CASE b \in ToSet(store.dismissed)
    <3>1. b \notin overtaken
      BY <1>1
    <3> QED BY <1>2, <2>2, <3>1 DEF Backed, HiddenWasRecorded
  <2>3. CASE b \in ToSet(before.dismissed) /\ b \notin ToSet(store.dismissed)
    <3>1. i # None /\ IncidentOf[b] = i
      BY <1>6, <2>3
    <3>2. IncidentOf[a] = i
      BY <1>1, <2>3, <3>1
    <3> QED BY <1>5, <3>1, <3>2
  <2> QED BY <1>6, <2>1, <2>2, <2>3
<1>13. AnsweredAreDisposed'
  <2> SUFFICES ASSUME NEW j \in AnsweredIn(flight') PROVE flight'[j].alarm \in disposed'
    BY DEF AnsweredAreDisposed
  <2>1. j \in AnsweredIn(flight) /\ flight'[j] = flight[j] /\ disposed' = disposed
    BY <1>1, <1>11
  <2> QED BY <1>2, <2>1 DEF Backed, AnsweredAreDisposed
<1>14. HandledWillBeRecorded'
  <2>1. IsFiniteSet(AnsweredIn(flight)) /\ Cardinality(AnsweredIn(flight)) \in Nat
    BY AnsweredIsFinite
  <2>2. Cardinality(AnsweredIn(flight')) = Cardinality(AnsweredIn(flight)) - 1
    BY <1>4, <1>11, <2>1, FS_RemoveElement
  <2> QED BY <1>1, <1>2, <1>3, <1>6, <1>7, <2>1, <2>2 DEF Backed, HandledWillBeRecorded
<1>15. SettledIsDismissed'
  <2>1. CASE Len(n.dismissed) >= DismissCap
    BY <1>1, <2>1 DEF SettledIsDismissed
  <2>2. CASE Len(store.dismissed) < DismissCap /\ ToSet(store.dismissed) \subseteq ToSet(n.dismissed)
    <3>1. Len(store.dismissed) \in Nat /\ DismissCap \in Nat
      BY <1>3, CapsAreSet DEF StoreType
    <3>2. settled \subseteq ToSet(n.dismissed)
      BY <1>2, <2>2, <3>1 DEF Backed, SettledIsDismissed
    <3>3. store.active = a => a \in ToSet(n.dismissed)
      BY <1>5, <1>6, RoutesDiffer
    <3> QED BY <1>1, <3>2, <3>3 DEF SettledIsDismissed
  <2> QED BY <1>6, <2>1, <2>2 DEF Remembers
<1> QED BY <1>10, <1>12, <1>13, <1>14, <1>15 DEF ConsoleInv, Backed

-----------------------------------------------------------------------------
(* The inductive step, one action at a time. *)
LEMMA ConsolePreserved == ConsoleInv /\ [Next]_vars => ConsoleInv'
<1> SUFFICES ASSUME ConsoleInv, [Next]_vars PROVE ConsoleInv'
  OBVIOUS
<1>1. ASSUME NEW c \in BOOLEAN, RaiseAlarm(c) PROVE ConsoleInv'
  BY <1>1, RaiseStep
<1>2. ASSUME NEW n \in 0..raised, NEW before \in SUBSET acked, PollReply(n, before) PROVE ConsoleInv'
  BY <1>2, PollStep
<1>3. CASE SocketCloses \/ \E m \in Alarms \cup Incidents : SocketMessage(m)
  BY <1>3, SocketStep
<1>4. CASE SeedReply
  BY <1>4, SeedStep
<1>5. CASE \/ \E a \in Alarms : ClickAlert(a)
           \/ \E i \in Incidents : ClickIncident(i)
           \/ StaleStatusGuard \/ ReadyForNext \/ GoBack \/ EngageEffect \/ handleAbandon
  BY <1>5, PageStep
<1>6. CASE FinishNavigation
  BY <1>6, NavigationStep
<1>7. CASE Reload
  BY <1>7, ReloadStep
<1>8. ASSUME NEW d \in detail, IncidentReply(d) \/ IncidentFetchFails(d) PROVE ConsoleInv'
  BY <1>8, DetailStep
<1>9. ASSUME NEW k \in Slots, SubmitDisposition(k) PROVE ConsoleInv'
  BY <1>9, SubmitStep
<1>10. ASSUME NEW k \in Slots, PostRecorded(k) PROVE ConsoleInv'
  BY <1>10, RecordedStep
<1>11. ASSUME NEW k \in Slots, PostFails(k) PROVE ConsoleInv'
  BY <1>11, FailStep
<1>12. ASSUME NEW k \in Slots, NEW r \in BOOLEAN, AcknowledgeIncidentSent(k, r) PROVE ConsoleInv'
  BY <1>12, AcknowledgeStep
<1>13. ASSUME NEW k \in Slots, ResolveSubmission(k) PROVE ConsoleInv'
  BY <1>13, ResolveStep
<1>14. CASE UNCHANGED vars
  <2>1. /\ UNCHANGED <<raised, acked, disposed, events, wire, rest, seed, detail, store>>
        /\ UNCHANGED <<loaded, page, nav, submitting, flight, settled, overtaken>>
    BY <1>14 DEF vars, server, network, screen, history
  <2>2. TypeOK'
    BY <2>1 DEF ConsoleInv, TypeOK
  <2> QED BY <2>1, <2>2, SameFlight DEF ConsoleInv
<1> QED BY <1>1, <1>2, <1>3, <1>4, <1>5, <1>6, <1>7, <1>8, <1>9, <1>10, <1>11, <1>12, <1>13, <1>14, Zenon DEF Next

LEMMA ConsoleInvHolds == Spec => []ConsoleInv
<1>1. Init => ConsoleInv
  BY ConsoleInitially
<1>2. ConsoleInv /\ [Next]_vars => ConsoleInv'
  BY ConsolePreserved
<1> QED BY <1>1, <1>2, PTL DEF Spec

(* What this tab hides or counts as handled is backed by a disposition of the *)
(* server, for any number of alarms, incidents and submissions in flight, and *)
(* through failed posts, reloads and routes left while a submission runs       *)
(* (ActiveAlarmView.tsx, handleSubmit).                                        *)
THEOREM ConsoleIsBacked == Spec => []ConsoleInvariant
<1>1. ConsoleInv => ConsoleInvariant
  <2> SUFFICES ASSUME ConsoleInv PROVE HandledIsRecorded
    BY DEF ConsoleInv, Backed, ConsoleInvariant
  <2>1. store.handled \in Nat /\ events \in Nat
    BY DEF ConsoleInv, TypeOK, StoreType
  <2>2. Cardinality(AnsweredIn(flight)) \in Nat
    BY AnsweredIsFinite
  <2> QED BY <2>1, <2>2 DEF ConsoleInv, Backed, HandledWillBeRecorded, HandledIsRecorded
<1> QED BY <1>1, ConsoleInvHolds, PTL

(* An alarm closed here stays off the console until dismissedIds is full,     *)
(* for any limit of that list (operator-store.ts, dismissAlarm).              *)
THEOREM ClosedIsNotShownAgain == Spec => []ClosedStaysClosed
<1>1. ConsoleInv => ClosedStaysClosed
  <2> SUFFICES ASSUME ConsoleInv, Len(store.dismissed) < DismissCap
               PROVE  settled \cap displayAlerts = {}
    BY DEF ClosedStaysClosed
  <2>1. Len(store.dismissed) \in Nat /\ DismissCap \in Nat
    BY CapsAreSet DEF ConsoleInv, TypeOK, StoreType
  <2>2. settled \subseteq ToSet(store.dismissed)
    BY <2>1 DEF ConsoleInv, Backed, SettledIsDismissed
  <2> QED BY <2>2 DEF displayAlerts
<1> QED BY <1>1, ConsoleInvHolds, PTL

-----------------------------------------------------------------------------
(* The alert stream *)

(* What connects the status to the socket while somebody listens: it says       *)
(* "connected" exactly while the socket is open, a fetch or an opening socket is *)
(* told as an attempt, and a timer or nothing at all as "disconnected".          *)
StatusMatches ==
    ~destroyed =>
        /\ ws # "closing"
        /\ (status = "connected") <=> (ws = "open")
        /\ (status \in {"connecting", "reconnecting"}) <=> (fetching \/ ws = "connecting")

StreamInv == StreamTypeOK /\ OneActivity /\ StatusMatches

LEMMA BaseInRange == BaseDelay \in BaseDelay .. MaxDelay
BY DelayAssumption

LEMMA StreamInitially == StreamInit => StreamInv
BY BaseInRange DEF StreamInit, StreamInv, StreamTypeOK, OneActivity, StatusMatches, Status

LEMMA DoubledInRange ==
    ASSUME reconnectDelay \in BaseDelay .. MaxDelay
    PROVE  Doubled \in BaseDelay .. MaxDelay
BY DelayAssumption DEF Doubled

(* The inductive step, one action at a time. *)
LEMMA StreamPreserved == StreamInv /\ [StreamStep]_streamVars => StreamInv'
<1> SUFFICES ASSUME StreamInv, [StreamStep]_streamVars PROVE StreamInv'
    OBVIOUS
<1> USE DEF StreamInv, StreamTypeOK, OneActivity, StatusMatches, Status
<1>1. CASE Start
    BY <1>1 DEF Start, connect
<1>2. CASE TicketSettles
    BY <1>2 DEF TicketSettles
<1>3. CASE OpenThrows
    BY <1>3 DEF OpenThrows, scheduleReconnect
<1>4. CASE onopen
    BY <1>4, BaseInRange DEF onopen
<1>5. CASE onclose
    BY <1>5 DEF onclose, scheduleReconnect
<1>6. CASE TimerFires
    <2>1. reconnectDelay' \in BaseDelay .. MaxDelay
        BY <1>6, DoubledInRange DEF TimerFires
    <2> QED
        BY <1>6, <2>1 DEF TimerFires, connect
<1>7. CASE destroy
    BY <1>7 DEF destroy
<1>8. CASE UNCHANGED streamVars
    BY <1>8 DEF streamVars
<1> QED
    BY <1>1, <1>2, <1>3, <1>4, <1>5, <1>6, <1>7, <1>8 DEF StreamStep

(* The invariant holds in every reachable state. *)
LEMMA StreamInvariant == StreamSpec => []StreamInv
<1>1. StreamInit => StreamInv
    BY StreamInitially
<1>2. StreamInv /\ [StreamStep]_streamVars => StreamInv'
    BY StreamPreserved
<1> QED
    BY <1>1, <1>2, PTL DEF StreamSpec

(* Type correctness of the stream; in particular the back-off stays between its  *)
(* base and its limit although it doubles before it is cut (ws-alerts.ts:202).   *)
THEOREM StreamTypeCorrect == StreamSpec => []StreamTypeOK
<1>1. StreamInv => StreamTypeOK
    BY DEF StreamInv
<1> QED
    BY <1>1, StreamInvariant, PTL

(* One activity at a time, through connect, onclose and destroy in any order.    *)
THEOREM StreamKeepsOneActivity == StreamSpec => []OneActivity
<1>1. StreamInv => OneActivity
    BY DEF StreamInv
<1> QED
    BY <1>1, StreamInvariant, PTL

(* The stream implements AlertLink: its initial state maps to the link's, and    *)
(* every step to a step of the link or to none.                                  *)
THEOREM StreamImplementsLink == StreamSpec => ImplementsLink
<1>1. StreamInit => Link!LinkInit
    BY DEF StreamInit, Link!LinkInit
<1>2. StreamInv /\ [StreamStep]_streamVars => [Link!LinkNext]_(Link!pair)
    <2> SUFFICES ASSUME StreamInv, [StreamStep]_streamVars PROVE [Link!LinkNext]_(Link!pair)
        OBVIOUS
    <2> USE DEF StreamInv, StreamTypeOK, OneActivity, StatusMatches, Status, Link!LinkNext, Link!pair
    <2>1. CASE Start
        BY <2>1 DEF Start, connect, Link!Try
    <2>2. CASE TicketSettles
        BY <2>2 DEF TicketSettles
    <2>3. CASE OpenThrows
        BY <2>3 DEF OpenThrows, scheduleReconnect, Link!Drop
    <2>4. CASE onopen
        BY <2>4 DEF onopen, Link!Up
    <2>5. CASE onclose
        BY <2>5 DEF onclose, scheduleReconnect, Link!Drop
    <2>6. CASE TimerFires
        BY <2>6 DEF TimerFires, connect, Link!Try
    <2>7. CASE destroy
        BY <2>7 DEF destroy, Link!GiveUp
    <2>8. CASE UNCHANGED streamVars
        BY <2>8 DEF streamVars
    <2> QED
        BY <2>1, <2>2, <2>3, <2>4, <2>5, <2>6, <2>7, <2>8 DEF StreamStep
<1> QED
    BY <1>1, <1>2, StreamInvariant, PTL DEF StreamSpec, ImplementsLink, Link!Spec
=============================================================================
