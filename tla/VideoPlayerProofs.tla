-------------------------- MODULE VideoPlayerProofs --------------------------
(***************************************************************************)
(* A playback tile, for any archive, any number of files tried in a pass    *)
(* and any number of network faults: one load acts at a time, the speed of  *)
(* the element is the one chosen, and while no more than one request has    *)
(* failed the message on the tile is true of the server's files.            *)
(***************************************************************************)
EXTENDS VideoPlayer, WellFoundedInduction, TLAPS

-----------------------------------------------------------------------------
(* Operators *)

(* A set of numbers that is not empty has a least one. *)
LEMMA LeastNumber ==
    ASSUME NEW S, S \subseteq Nat, S # {}
    PROVE  \E x \in S : \A y \in S : x <= y
<1> DEFINE R == {ss \in Nat \X Nat : ss[1] < ss[2]}
<1>1. R = OpToRel(<, Nat)
  BY DEF OpToRel
<1>2. IsWellFoundedOn(OpToRel(<, Nat), Nat)
  BY NatLessThanWellFounded
<1>3. IsWellFoundedOn(R, Nat)
  BY <1>1, <1>2, Zenon
<1> HIDE DEF R
<1>4. \E x \in S : \A y \in S : ~(<<y, x>> \in R)
  BY <1>3, WFMin
<1>5. PICK x \in S : \A y \in S : ~(<<y, x>> \in R)
  BY <1>4, Zenon
<1>6. \A a, b \in Nat : b < a => <<b, a>> \in R
  BY DEF R
<1>7. \A y \in S : y \in Nat /\ x \in Nat /\ ~(y < x)
  BY <1>5, <1>6, Zenon
<1>8. \A y \in S : x <= y
  BY <1>7
<1> QED BY <1>8

LEMMA SegmentsAreNumbers == Segs \subseteq Nat \ {0} /\ Times \subseteq Nat \ {0}
BY LoaderAssumption DEF Segs, Times

(* The file a pass turns to is one of those it has left. *)
LEMMA EarliestIsLeft ==
    ASSUME NEW S, S \subseteq Segs, S # {} PROVE Earliest(S) \in S
<1>1. S \subseteq Nat
  BY SegmentsAreNumbers
<1>2. \E s \in S : \A r \in S : s <= r
  BY <1>1, LeastNumber
<1> QED BY <1>2 DEF Earliest

(* The files a pass may try are files of the list it was given. *)
LEMMA CandidatesAreListed ==
    ASSUME NEW S, NEW t PROVE Candidates(S, t) \subseteq S
BY DEF Candidates

(* The time at which auto-advance loads the next file is a time of that file. *)
LEMMA StartOfSegment ==
    ASSUME NEW next \in Segs
    PROVE  (CHOOSE u \in Times : SegOf[u] = next /\ \A v \in Times : SegOf[v] = next => u <= v)
                \in Times
<1> DEFINE S == {u \in Times : SegOf[u] = next}
<1>1. S \subseteq Nat /\ S # {}
  BY SegmentsAreNumbers DEF Segs
<1>2. PICK u \in S : \A v \in S : u <= v
  BY <1>1, LeastNumber
<1>3. \E w \in Times : SegOf[w] = next /\ \A v \in Times : SegOf[v] = next => w <= v
  BY <1>2
<1> QED BY <1>3

-----------------------------------------------------------------------------
(* The loader *)

(* The load that a run of loadSegmentForTime starts. *)
Run(t, auto, retry) == [at |-> "fetch", target |-> t, cands |-> {}, auto |-> auto,
                        retry |-> retry, aborted |-> FALSE]

(* At most one load may act, an aborted one only waits for its answer, and    *)
(* one that waits for the element has a file to wait for.                    *)
Solo(tl) ==
    /\ \A l, m \in tl.loads : ~l.aborted /\ ~m.aborted => l = m
    /\ \A l \in tl.loads : l.aborted => l.at = "fetch"
    /\ \A l \in tl.loads : l.at = "media" => l.cands # {}

(* A load that acts, after f faults.  The element holds the file it waits    *)
(* for, from a list that is the server's and still signed; what it has       *)
(* walked past is corrupt, unless a fault was taken for that.  A pass is      *)
(* repeated because all its files are corrupt or because of a fault, so with  *)
(* one fault in all the second pass was deceived only if the first was not.   *)
Honest(tl, l, f) ==
    /\ l.at = "media" =>
          /\ tl.src = Earliest(l.cands) /\ tl.segs = recorded /\ tl.age < 2
          /\ f = 0 \/ (l.retry /\ f = 1 /\ ~AllCorrupt(l.target))
                => Candidates(recorded, l.target) \ l.cands \subseteq corrupt
    /\ l.at = "fetch" /\ l.retry => tl.segs = {}
    /\ l.retry /\ f = 0 => AllCorrupt(l.target)

(* The message, as in ErrorIsTrue. *)
Truthful(tl, f) ==
    f <= 1 => /\ tl.error.kind = "none" => recorded = {} \/ (f = 1 /\ AllCorrupt(tl.error.at))
              /\ tl.error.kind = "corrupt" => AllCorrupt(tl.error.at)

(* A tile in playback. *)
Playing(tl, f) ==
    /\ tl.segs \in {{}, recorded}
    /\ tl.rate = rate
    /\ Truthful(tl, f)
    /\ \A l \in tl.loads : ~l.aborted => Honest(tl, l, f)

PlayerInv == TypeOK /\ Solo(tile) /\ (~isLive => Playing(tile, faults))

(* A new run: one load that acts, over an element left as it was. *)
LEMMA RunStarts ==
    ASSUME NEW tl \in Tile, NEW t \in Times, NEW auto \in BOOLEAN, NEW retry \in BOOLEAN
    PROVE  LET n == StartFetch(tl, t, auto, retry)
           IN /\ n \in Tile /\ Solo(n)
              /\ n.error = NoError /\ n.src = tl.src /\ n.rate = tl.rate /\ n.cur = tl.cur
              /\ n.segs = tl.segs /\ n.age = tl.age
              /\ Run(t, auto, retry) \in n.loads
              /\ \A l \in n.loads : ~l.aborted => l = Run(t, auto, retry)
<1> DEFINE new == Run(t, auto, retry)
           ls  == Aborted(tl.loads) \cup {new}
           n   == [tl EXCEPT !.error = NoError, !.loads = ls]
<1>1. StartFetch(tl, t, auto, retry) = n
  BY DEF StartFetch, Run
<1>2. new \in Load /\ ~new.aborted /\ new.at = "fetch"
  BY DEF Run, Load
<1>3. StaleLoad \in Load /\ StaleLoad.aborted /\ StaleLoad.at = "fetch"
  <2>1. (CHOOSE u \in Times : TRUE) \in Times
    OBVIOUS
  <2> QED BY <2>1 DEF StaleLoad, Load
<1>4. \A l \in ls : l = new \/ l = StaleLoad
  BY DEF Aborted
<1>5. ls \in SUBSET Load /\ new \in ls
  BY <1>2, <1>3, <1>4
<1>6. NoError \in Message
  BY DEF NoError, Message
<1> HIDE DEF ls, new
<1>7. n \in Tile
  BY <1>5, <1>6 DEF Tile
<1>8. /\ n.error = NoError /\ n.src = tl.src /\ n.rate = tl.rate /\ n.cur = tl.cur
      /\ n.segs = tl.segs /\ n.age = tl.age /\ n.loads = ls
  BY DEF Tile
<1> HIDE DEF n
<1>9. Solo(n)
  BY <1>2, <1>3, <1>4, <1>8 DEF Solo
<1>10. \A l \in n.loads : ~l.aborted => l = new
  BY <1>2, <1>3, <1>4, <1>8
<1> QED BY <1>1, <1>5, <1>7, <1>8, <1>9, <1>10 DEF new

(* A run that repeats the pass needs an empty cache, and a reason. *)
LEMMA RunPlays ==
    ASSUME NEW tl \in Tile, NEW t \in Times, NEW auto \in BOOLEAN, NEW retry \in BOOLEAN,
           NEW f \in Nat, tl.segs \in {{}, recorded}, tl.rate = rate,
           retry => tl.segs = {} /\ (f = 0 => AllCorrupt(t))
    PROVE  Playing(StartFetch(tl, t, auto, retry), f)
<1> DEFINE n == StartFetch(tl, t, auto, retry)
           new == Run(t, auto, retry)
<1>1. /\ n.error = NoError /\ n.rate = tl.rate /\ n.segs = tl.segs
      /\ \A l \in n.loads : ~l.aborted => l = new
  BY RunStarts
<1>2. new.at = "fetch" /\ new.retry = retry /\ new.target = t
  BY DEF Run
<1> HIDE DEF n, new
<1>3. Honest(n, new, f)
  BY <1>1, <1>2 DEF Honest
<1>4. Truthful(n, f)
  <2>1. NoError.kind = ""
    BY DEF NoError
  <2>2. n.error.kind = ""
    BY <1>1, <2>1, Zenon
  <2> QED BY <2>2 DEF Truthful
<1> QED BY <1>1, <1>3, <1>4 DEF Playing, n

(* The load is over: the element plays s. *)
LEMMA LoadFinishes ==
    ASSUME NEW tl \in Tile, Solo(tl), NEW l \in tl.loads, NEW s \in Segs, rate \in Rates
    PROVE  /\ Finish(tl, l, s) \in Tile /\ Solo(Finish(tl, l, s))
           /\ \A f \in Nat : Playing(tl, f) => Playing(Finish(tl, l, s), f)
<1> DEFINE n == Finish(tl, l, s)
<1>1. l.target \in Times /\ l.auto \in BOOLEAN
  BY DEF Tile, Load
<1>2. n \in Tile
  BY <1>1 DEF Finish, Tile
<1>3. /\ n.loads = tl.loads \ {l} /\ n.rate = rate /\ n.error = tl.error
      /\ n.src = tl.src /\ n.segs = tl.segs /\ n.age = tl.age
  BY DEF Finish, Tile
<1> HIDE DEF n
<1>4. Solo(n)
  BY <1>3 DEF Solo
<1>5. ASSUME NEW f \in Nat, Playing(tl, f) PROVE Playing(n, f)
  <2>1. \A m \in n.loads : ~m.aborted => Honest(n, m, f)
    BY <1>3, <1>5 DEF Playing, Honest
  <2>2. Truthful(n, f)
    BY <1>3, <1>5 DEF Playing, Truthful
  <2> QED BY <1>3, <1>5, <2>1, <2>2 DEF Playing
<1> QED BY <1>2, <1>4, <1>5 DEF n

(* The catch block: the pass is repeated or the message shown. *)
LEMMA LoadGivesUp ==
    ASSUME NEW tl \in Tile, Solo(tl), NEW l \in tl.loads
    PROVE  GiveUp(tl, l) \in Tile /\ Solo(GiveUp(tl, l))
<1>1. l.target \in Times /\ l.auto \in BOOLEAN /\ l.retry \in BOOLEAN
  BY DEF Tile, Load
<1>2. CASE ~l.retry
  <2> DEFINE e == [tl EXCEPT !.segs = {}, !.age = 0, !.cur = 0, !.loads = @ \ {l}]
  <2>0. {} \subseteq Segs /\ 0 \in 0..2 /\ tl.loads \ {l} \subseteq Load
    BY DEF Tile
  <2>1. e \in Tile
    BY <2>0 DEF Tile
  <2>2. GiveUp(tl, l) = StartFetch(e, l.target, l.auto, TRUE)
    BY <1>2 DEF GiveUp
  <2> HIDE DEF e
  <2>3. StartFetch(e, l.target, l.auto, TRUE) \in Tile
        /\ Solo(StartFetch(e, l.target, l.auto, TRUE))
    BY <1>1, <2>1, RunStarts
  <2> QED BY <2>2, <2>3
<1>3. CASE l.retry
  <2> DEFINE er == [kind |-> IF tl.segs = {} THEN "none" ELSE "corrupt", at |-> l.target]
             n  == [tl EXCEPT !.loading = FALSE, !.loads = @ \ {l}, !.error = er]
  <2>1. GiveUp(tl, l) = n
    BY <1>3 DEF GiveUp
  <2>2. er \in Message
    BY <1>1 DEF Message
  <2> HIDE DEF er
  <2>3. n \in Tile /\ n.loads = tl.loads \ {l}
    BY <2>2 DEF Tile
  <2> HIDE DEF n
  <2>4. Solo(n)
    BY <2>3 DEF Solo
  <2> QED BY <2>1, <2>3, <2>4
<1> QED BY <1>1, <1>2, <1>3

(* A load that gives up in playback: the first pass because of a fault or of *)
(* corrupt files, the second because the list is empty or refused, or because *)
(* every file it may try is corrupt.                                         *)
LEMMA GivingUpPlays ==
    ASSUME NEW tl \in Tile, Solo(tl), NEW l \in tl.loads, ~l.aborted, NEW f \in Nat,
           tl.segs \in {{}, recorded}, tl.rate = rate,
           ~l.retry /\ f = 0 => AllCorrupt(l.target),
           l.retry /\ f <= 1 /\ tl.segs = {} => recorded = {} \/ (f = 1 /\ AllCorrupt(l.target)),
           l.retry /\ f <= 1 /\ tl.segs # {} => AllCorrupt(l.target)
    PROVE  Playing(GiveUp(tl, l), f)
<1>1. l.target \in Times /\ l.auto \in BOOLEAN /\ l.retry \in BOOLEAN
  BY DEF Tile, Load
<1>2. CASE ~l.retry
  <2> DEFINE e == [tl EXCEPT !.segs = {}, !.age = 0, !.cur = 0, !.loads = @ \ {l}]
  <2>0. {} \subseteq Segs /\ 0 \in 0..2 /\ tl.loads \ {l} \subseteq Load
    BY DEF Tile
  <2>1. e \in Tile /\ e.segs = {} /\ e.rate = rate
    BY <2>0 DEF Tile
  <2>2. GiveUp(tl, l) = StartFetch(e, l.target, l.auto, TRUE)
    BY <1>2 DEF GiveUp
  <2> HIDE DEF e
  <2>3. f = 0 => AllCorrupt(l.target)
    BY <1>2
  <2> QED BY <1>1, <2>1, <2>2, <2>3, RunPlays
<1>3. CASE l.retry
  <2> DEFINE er == [kind |-> IF tl.segs = {} THEN "none" ELSE "corrupt", at |-> l.target]
             n  == [tl EXCEPT !.loading = FALSE, !.loads = @ \ {l}, !.error = er]
  <2>1. GiveUp(tl, l) = n
    BY <1>3 DEF GiveUp
  <2>2. er.at = l.target /\ er.kind = IF tl.segs = {} THEN "none" ELSE "corrupt"
    OBVIOUS
  <2> HIDE DEF er
  <2>3. n.loads = tl.loads \ {l} /\ n.error = er /\ n.segs = tl.segs /\ n.rate = tl.rate
    BY DEF Tile
  <2> HIDE DEF n
  <2>4. \A m \in n.loads : m.aborted
    BY <2>3 DEF Solo, Tile, Load
  <2>5. Truthful(n, f)
    BY <1>3, <2>2, <2>3 DEF Truthful
  <2> QED BY <2>1, <2>3, <2>4, <2>5 DEF Playing
<1> QED BY <1>1, <1>2, <1>3

(* The next file of the pass, or the end of it. *)
LEMMA NextFile ==
    ASSUME NEW tl \in Tile, Solo(tl), NEW l \in tl.loads, NEW cs \in SUBSET Segs,
           rate \in Rates, ~l.aborted
    PROVE  TryNext(tl, l, cs) \in Tile /\ Solo(TryNext(tl, l, cs))
<1>1. CASE cs = {}
  BY <1>1, LoadGivesUp DEF TryNext
<1>2. CASE cs # {} /\ Earliest(cs) = tl.cur
  <2>1. Earliest(cs) \in Segs
    BY <1>2, EarliestIsLeft
  <2> QED BY <1>2, <2>1, LoadFinishes DEF TryNext
<1>3. CASE cs # {} /\ Earliest(cs) # tl.cur
  <2> DEFINE s == Earliest(cs)
             m == [l EXCEPT !.at = "media", !.cands = cs]
             n == [tl EXCEPT !.src = s, !.rate = rate, !.loads = (tl.loads \ {l}) \cup {m}]
  <2>1. s \in Segs
    BY <1>3, EarliestIsLeft
  <2>2. TryNext(tl, l, cs) = n
    BY <1>3 DEF TryNext, SetSource, Tile
  <2>3. m \in Load /\ ~m.aborted /\ m.cands = cs
    BY DEF Load, Tile
  <2> HIDE DEF s, m
  <2>4. n \in Tile /\ n.loads = (tl.loads \ {l}) \cup {m}
    BY <2>1, <2>3 DEF Tile
  <2> HIDE DEF n
  <2>5. Solo(n)
    BY <1>3, <2>3, <2>4 DEF Solo
  <2> QED BY <2>2, <2>4, <2>5
<1> QED BY <1>1, <1>2, <1>3

(* In playback: what the pass leaves behind is corrupt, or a fault hid it.   *)
LEMMA NextFilePlays ==
    ASSUME NEW tl \in Tile, Solo(tl), NEW l \in tl.loads, NEW cs \in SUBSET Segs,
           rate \in Rates, ~l.aborted, NEW f \in Nat,
           tl.segs = recorded, tl.rate = rate, tl.age < 2, Truthful(tl, f),
           f = 0 \/ (l.retry /\ f = 1 /\ ~AllCorrupt(l.target))
                => Candidates(recorded, l.target) \ cs \subseteq corrupt,
           l.retry /\ f = 0 => AllCorrupt(l.target)
    PROVE  Playing(TryNext(tl, l, cs), f)
<1>1. CASE cs = {}
  <2>1. f = 0 \/ (l.retry /\ f = 1) => AllCorrupt(l.target)
    BY <1>1 DEF AllCorrupt
  <2>2. recorded = {} \/ tl.segs # {}
    OBVIOUS
  <2>3. Playing(GiveUp(tl, l), f)
    BY <2>1, <2>2, GivingUpPlays
  <2> QED BY <1>1, <2>3 DEF TryNext
<1>2. CASE cs # {} /\ Earliest(cs) = tl.cur
  <2> DEFINE n == Finish(tl, l, Earliest(cs))
  <2>1. n.loads = tl.loads \ {l} /\ n.error = tl.error /\ n.segs = tl.segs /\ n.rate = rate
    BY DEF Finish, Tile
  <2>2. TryNext(tl, l, cs) = n
    BY <1>2 DEF TryNext
  <2> HIDE DEF n
  <2>3. \A m \in n.loads : m.aborted
    BY <2>1 DEF Solo, Tile, Load
  <2>4. Truthful(n, f)
    BY <2>1 DEF Truthful
  <2> QED BY <2>1, <2>2, <2>3, <2>4 DEF Playing
<1>3. CASE cs # {} /\ Earliest(cs) # tl.cur
  <2> DEFINE s == Earliest(cs)
             m == [l EXCEPT !.at = "media", !.cands = cs]
             n == [tl EXCEPT !.src = s, !.rate = rate, !.loads = (tl.loads \ {l}) \cup {m}]
  <2>1. TryNext(tl, l, cs) = n
    BY <1>3 DEF TryNext, SetSource, Tile
  <2>2. m.at = "media" /\ m.cands = cs /\ m.target = l.target /\ m.retry = l.retry
    BY DEF Load, Tile
  <2> HIDE DEF m
  <2>3. /\ n.src = Earliest(cs) /\ n.rate = rate /\ n.loads = (tl.loads \ {l}) \cup {m}
        /\ n.segs = recorded /\ n.age = tl.age /\ n.error = tl.error
    BY DEF Tile
  <2> HIDE DEF n
  <2>4. Honest(n, m, f)
    BY <1>3, <2>2, <2>3 DEF Honest
  <2>5. \A k \in n.loads : ~k.aborted => k = m
    BY <2>3 DEF Solo, Tile, Load
  <2>6. Truthful(n, f)
    BY <2>3 DEF Truthful
  <2> QED BY <2>1, <2>3, <2>4, <2>5, <2>6 DEF Playing
<1> QED BY <1>1, <1>2, <1>3

(* A run that finds its list in the cache goes on to the files at once. *)
LEMMA SeekLoads ==
    ASSUME NEW tl \in Tile, NEW t \in Times, NEW auto \in BOOLEAN, NEW quiet \in BOOLEAN,
           rate \in Rates
    PROVE  LET n == loadSegmentForTime(tl, t, auto, quiet)
           IN /\ n \in Tile /\ Solo(n)
              /\ \A f \in Nat : tl.segs \in {{}, recorded} /\ tl.rate = rate => Playing(n, f)
<1> DEFINE e == [tl EXCEPT !.loading = @ \/ ~quiet]
           b == StartFetch(e, t, auto, FALSE)
           r == Run(t, auto, FALSE)
           l == CHOOSE m \in b.loads : ~m.aborted
           cs == Candidates(tl.segs, t)
           n == loadSegmentForTime(tl, t, auto, quiet)
<1>1. e \in Tile /\ e.segs = tl.segs /\ e.rate = tl.rate /\ e.age = tl.age
  BY DEF Tile
<1>2. n = IF InCache(tl, t) THEN TryNext(b, l, cs) ELSE b
  BY DEF loadSegmentForTime
<1>3. r.target = t /\ r.retry = FALSE /\ r.aborted = FALSE
  BY DEF Run
<1> HIDE DEF e, r, l, cs, n
<1>4. /\ b \in Tile /\ Solo(b) /\ b.error = NoError /\ b.rate = tl.rate
      /\ b.segs = tl.segs /\ b.age = tl.age /\ r \in b.loads
      /\ \A m \in b.loads : ~m.aborted => m = r
  <2>1. b \in Tile /\ Solo(b)
    BY <1>1, RunStarts
  <2>3. b.error = NoError /\ b.rate = e.rate /\ b.segs = e.segs /\ b.age = e.age
    BY <1>1 DEF StartFetch, Tile
  <2>4. r \in b.loads
    BY <1>1, RunStarts DEF r
  <2>5. \A m \in b.loads : ~m.aborted => m = r
    BY <1>1, RunStarts DEF r
  <2> QED BY <1>1, <2>1, <2>3, <2>4, <2>5
<1>5. ASSUME NEW f \in Nat, tl.segs \in {{}, recorded}, tl.rate = rate
      PROVE  Playing(b, f)
  BY <1>1, <1>5, RunPlays
<1> HIDE DEF b
<1>6. l = r
  BY <1>3, <1>4 DEF l
<1>7. cs \in SUBSET Segs
  BY CandidatesAreListed DEF Tile, cs
<1>8. CASE ~InCache(tl, t)
  BY <1>2, <1>4, <1>5, <1>8 DEF n
<1>9. CASE InCache(tl, t)
  <2>1. n = TryNext(b, r, cs)
    BY <1>2, <1>6, <1>9
  <2>2. n \in Tile /\ Solo(n)
    BY <1>3, <1>4, <1>7, <2>1, NextFile
  <2>3. ASSUME NEW f \in Nat, tl.segs \in {{}, recorded}, tl.rate = rate
        PROVE  Playing(n, f)
    <3>1. tl.segs = recorded /\ b.age < 2
      BY <1>4, <1>9, <2>3 DEF InCache
    <3>2. Truthful(b, f)
      BY <1>5, <2>3 DEF Playing
    <3>3. Candidates(recorded, r.target) \ cs \subseteq corrupt
      BY <1>3, <3>1 DEF cs
    <3> QED BY <1>3, <1>4, <1>7, <2>1, <2>3, <3>1, <3>2, <3>3, NextFilePlays
  <2> QED BY <2>2, <2>3 DEF n
<1> QED BY <1>8, <1>9

-----------------------------------------------------------------------------
(* The invariant *)

LEMMA PlayerInit == Init => PlayerInv
<1> SUFFICES ASSUME Init PROVE PlayerInv
  OBVIOUS
<1>1. tile \in Tile /\ tile.loads = {}
  <2>1. tile = [src |-> LiveSource, rate |-> 1, paused |-> TRUE, cur |-> 0, last |-> 0, segs |-> {},
                age |-> 0, loads |-> {}, loading |-> TRUE, error |-> NoError]
    BY DEF Init, LiveStarts, Fresh
  <2>2. NoError \in Message /\ 1 \in Rates /\ 0 \in 0..2
    BY DEF NoError, Message, Rates
  <2> QED BY <2>1, <2>2 DEF Tile
<1>2. Solo(tile)
  BY <1>1 DEF Solo
<1>3. corrupt \subseteq recorded /\ recorded \subseteq Segs
  BY LoaderAssumption DEF Init, Segs, Times
<1>4. 0 \in 0..MaxFaults
  BY LoaderAssumption
<1>5. TypeOK
  BY <1>1, <1>3, <1>4 DEF Init, TypeOK, Rates
<1> QED BY <1>2, <1>5 DEF PlayerInv, Init

(* Speed and files are as they were: what holds of the new tile under the old *)
(* ones holds after the step.                                                *)
LEMMA SameFiles ==
    ASSUME UNCHANGED <<rate, server>>, Playing(tile', faults')
    PROVE  Playing(tile, faults)'
<1>1. rate' = rate /\ recorded' = recorded /\ corrupt' = corrupt
  BY DEF server
<1>2. \A t : AllCorrupt(t)' <=> AllCorrupt(t)
  BY <1>1 DEF AllCorrupt
<1> QED BY <1>1, <1>2 DEF Playing, Honest, Truthful, AllCorrupt

(* The element's pause, the spinner, the times: nothing a load depends on. *)
LEMMA ShownOnly ==
    ASSUME NEW tl \in Tile, NEW n, NEW f,
           n.loads = tl.loads, n.src = tl.src, n.segs = tl.segs, n.rate = tl.rate,
           n.age = tl.age, n.error = tl.error
    PROVE  /\ Solo(tl) => Solo(n)
           /\ Playing(tl, f) => Playing(n, f)
<1>1. Solo(tl) => Solo(n)
  BY DEF Solo
<1>2. \A l \in tl.loads : Honest(tl, l, f) => Honest(n, l, f)
  BY DEF Honest
<1>3. Truthful(tl, f) => Truthful(n, f)
  BY DEF Truthful
<1> QED BY <1>1, <1>2, <1>3 DEF Playing

(* The live session and the transport bar. *)
LEMMA PageStep ==
    ASSUME PlayerInv, LiveReady \/ LiveFails \/ EnterLive \/ TogglePause \/ StepFrame
                      \/ TokensAge \/ \E r \in Rates : SetRate(r)
    PROVE  PlayerInv'
<1>a. TypeOK /\ Solo(tile) /\ tile \in Tile /\ NoError \in Message
  BY DEF PlayerInv, TypeOK, NoError, Message
<1>1. CASE LiveReady
  <2>1. tile' \in Tile /\ tile'.loads = tile.loads
    BY <1>1, <1>a DEF LiveReady, Tile
  <2>2. Solo(tile)'
    BY <1>a, <2>1 DEF Solo
  <2>3. TypeOK' /\ isLive'
    BY <1>1, <1>a, <2>1 DEF LiveReady, TypeOK, server
  <2> QED BY <2>2, <2>3 DEF PlayerInv
<1>2. CASE LiveFails
  <2>0. [kind |-> "live", at |-> 0] \in Message
    BY DEF Message
  <2>1. tile' \in Tile /\ tile'.loads = tile.loads
    BY <1>2, <1>a, <2>0 DEF LiveFails, Tile
  <2>2. Solo(tile)'
    BY <1>a, <2>1 DEF Solo
  <2>3. TypeOK' /\ isLive'
    BY <1>2, <1>a, <2>1 DEF LiveFails, TypeOK, server
  <2> QED BY <2>2, <2>3 DEF PlayerInv
<1>3. CASE EnterLive
  <2>0. 1 \in Rates
    BY DEF Rates
  <2>1. tile' \in Tile /\ tile'.loads = tile.loads
    BY <1>3, <1>a, <2>0 DEF EnterLive, LiveStarts, Tile
  <2>2. Solo(tile)'
    BY <1>a, <2>1 DEF Solo
  <2>3. TypeOK' /\ isLive'
    BY <1>3, <1>a, <2>0, <2>1 DEF EnterLive, TypeOK, server
  <2> QED BY <2>2, <2>3 DEF PlayerInv
<1>4. CASE TogglePause \/ StepFrame
  <2>1. /\ tile' \in Tile
        /\ tile'.loads = tile.loads /\ tile'.src = tile.src /\ tile'.segs = tile.segs
        /\ tile'.rate = tile.rate /\ tile'.age = tile.age /\ tile'.error = tile.error
    <3>1. globalPaused' \in BOOLEAN /\ TRUE \in BOOLEAN
      BY <1>4, <1>a DEF TogglePause, StepFrame, TypeOK
    <3>2. PICK p \in BOOLEAN : tile' = tile \/ tile' = [tile EXCEPT !.paused = p]
      BY <1>4, <3>1 DEF TogglePause, StepFrame
    <3> QED BY <1>a, <3>2 DEF Tile
  <2>2. UNCHANGED <<isLive, rate, timer, server, faults>> /\ globalPaused' \in BOOLEAN
    BY <1>4, <1>a DEF TogglePause, StepFrame, TypeOK
  <2>3. TypeOK'
    BY <1>a, <2>1, <2>2 DEF TypeOK, server
  <2>4. Solo(tile') /\ (Playing(tile, faults) => Playing(tile', faults))
    BY <1>a, <2>1, ShownOnly
  <2>5. Solo(tile)'
    BY <2>4 DEF Solo
  <2>6. ~isLive' => Playing(tile, faults)'
    BY <2>2, <2>4, SameFiles DEF PlayerInv
  <2> QED BY <2>3, <2>5, <2>6 DEF PlayerInv
<1>5. CASE TokensAge
  <2>1. /\ tile' \in Tile
        /\ tile'.loads = tile.loads /\ tile'.src = tile.src /\ tile'.segs = tile.segs
        /\ tile'.rate = tile.rate /\ tile'.age = tile.age + 1 /\ tile'.error = tile.error
    <3>1. tile.age + 1 \in 0..2
      BY <1>5, <1>a DEF TokensAge, Tile
    <3> QED BY <1>5, <1>a, <3>1 DEF TokensAge, Tile
  <2>2. TypeOK' /\ UNCHANGED <<isLive, rate, server, faults>>
    BY <1>5, <1>a, <2>1 DEF TokensAge, TypeOK, server
  <2>3. Solo(tile)'
    BY <1>a, <2>1 DEF Solo
  <2>4. ASSUME ~isLive PROVE Playing(tile', faults)
    <3>1. Playing(tile, faults)
      BY <2>4 DEF PlayerInv
    <3>2. \A l \in tile.loads : l.at = "media" => tile'.age < 2
      BY <1>5, <1>a, <2>1 DEF TokensAge, Tile
    <3>3. \A l \in tile'.loads : ~l.aborted => Honest(tile', l, faults)
      BY <2>1, <3>1, <3>2 DEF Playing, Honest
    <3>4. Truthful(tile', faults)
      BY <2>1, <3>1 DEF Playing, Truthful
    <3> QED BY <2>1, <3>1, <3>3, <3>4 DEF Playing
  <2>5. ~isLive' => Playing(tile, faults)'
    BY <2>2, <2>4, SameFiles
  <2> QED BY <2>2, <2>3, <2>5 DEF PlayerInv
<1>6. ASSUME NEW r \in Rates, SetRate(r) PROVE PlayerInv'
  <2>1. /\ tile' \in Tile
        /\ tile'.loads = tile.loads /\ tile'.src = tile.src /\ tile'.segs = tile.segs
        /\ tile'.rate = r /\ tile'.age = tile.age /\ tile'.error = tile.error
    BY <1>6, <1>a DEF SetRate, Tile
  <2>2. TypeOK' /\ UNCHANGED <<isLive, server, faults>> /\ rate' = r
    BY <1>6, <1>a, <2>1 DEF SetRate, TypeOK, server
  <2>3. Solo(tile)'
    BY <1>a, <2>1 DEF Solo
  <2>4. ASSUME ~isLive PROVE Playing(tile, faults)'
    <3>1. Playing(tile, faults)
      BY <2>4 DEF PlayerInv
    <3>2. \A l \in tile.loads : ~l.aborted => Honest(tile, l, faults)'
      BY <2>1, <2>2, <3>1 DEF Playing, Honest, AllCorrupt, server
    <3>3. Truthful(tile, faults)'
      BY <2>1, <2>2, <3>1 DEF Playing, Truthful, AllCorrupt, server
    <3> QED BY <2>1, <2>2, <3>1, <3>2, <3>3 DEF Playing, server
  <2> QED BY <2>2, <2>3, <2>4 DEF PlayerInv
<1> QED BY <1>1, <1>2, <1>3, <1>4, <1>5, <1>6

LEMMA EffectOfSeek ==
    ASSUME NEW tl \in Tile, NEW t \in Times, NEW f, SeekEffect(tl, t),
           globalPaused \in BOOLEAN, timer \in {0} \cup Times
    PROVE  /\ tile' \in Tile /\ timer' \in {0} \cup Times
           /\ Solo(tl) => Solo(tile')
           /\ Playing(tl, f) => Playing(tile', f)
<1>1. CASE tile' = tl
  BY <1>1 DEF SeekEffect
<1>2. CASE tile' = [tl EXCEPT !.last = t, !.paused = @ /\ globalPaused]
  <2>1. tile' \in Tile
    BY <1>2 DEF Tile
  <2>2. /\ tile'.loads = tl.loads /\ tile'.src = tl.src /\ tile'.segs = tl.segs
        /\ tile'.rate = tl.rate /\ tile'.age = tl.age /\ tile'.error = tl.error
    BY <1>2 DEF Tile
  <2>3. timer' \in {0} \cup Times
    BY DEF SeekEffect
  <2>4. (Solo(tl) => Solo(tile')) /\ (Playing(tl, f) => Playing(tile', f))
    BY <2>2, ShownOnly
  <2> QED BY <2>1, <2>3, <2>4
<1> QED BY <1>1, <1>2 DEF SeekEffect

(* Scrubbing, the debounce and auto-advance. *)
LEMMA SeekStep ==
    ASSUME PlayerInv, ScrubTimer \/ Ended \/ \E t \in Times : EnterPlayback(t) \/ Seek(t)
    PROVE  PlayerInv'
<1>a. TypeOK /\ Solo(tile) /\ tile \in Tile /\ rate \in Rates /\ faults \in Nat
  BY LoaderAssumption DEF PlayerInv, TypeOK
<1>b. globalPaused \in BOOLEAN /\ timer \in {0} \cup Times
  BY <1>a DEF TypeOK
<1>1. ASSUME NEW t \in Times, EnterPlayback(t) PROVE PlayerInv'
  <2> DEFINE reset == [tile EXCEPT !.src = NoSource, !.rate = rate, !.cur = 0, !.segs = {}, !.age = 0]
             n == loadSegmentForTime(reset, t, FALSE, FALSE)
  <2>0. {} \subseteq Segs /\ 0 \in 0..2
    OBVIOUS
  <2>1. reset \in Tile
    BY <1>a, <2>0 DEF Tile
  <2>r. reset.segs = {} /\ reset.rate = rate
    BY <1>a DEF Tile
  <2>2. SeekEffect(n, t) /\ isLive' = FALSE /\ UNCHANGED <<rate, globalPaused, server, faults>>
    BY <1>1 DEF EnterPlayback
  <2> HIDE DEF reset
  <2>3. n \in Tile /\ Solo(n)
    BY <1>a, <2>1, SeekLoads
  <2>4. Playing(n, faults)
    BY <1>a, <2>1, <2>r, SeekLoads
  <2> HIDE DEF n
  <2>5. tile' \in Tile /\ timer' \in {0} \cup Times /\ Solo(tile') /\ Playing(tile', faults)
    BY <1>b, <2>2, <2>3, <2>4, EffectOfSeek
  <2>6. Solo(tile)'
    BY <2>5 DEF Solo
  <2>7. Playing(tile, faults)'
    BY <2>2, <2>5, SameFiles
  <2>8. TypeOK'
    BY <1>a, <2>2, <2>5 DEF TypeOK, server
  <2> QED BY <2>6, <2>7, <2>8 DEF PlayerInv
<1>2. ASSUME NEW t \in Times, Seek(t) PROVE PlayerInv'
  <2>1. /\ SeekEffect(tile, t) /\ Playing(tile, faults)
        /\ UNCHANGED <<isLive, rate, globalPaused, server, faults>>
    BY <1>2 DEF Seek, PlayerInv
  <2>2. tile' \in Tile /\ timer' \in {0} \cup Times /\ Solo(tile') /\ Playing(tile', faults)
    BY <1>a, <1>b, <2>1, EffectOfSeek
  <2>3. Solo(tile)'
    BY <2>2 DEF Solo
  <2>4. Playing(tile, faults)'
    BY <2>1, <2>2, SameFiles
  <2>5. TypeOK'
    BY <1>a, <2>1, <2>2 DEF TypeOK, server
  <2> QED BY <2>3, <2>4, <2>5 DEF PlayerInv
<1>3. CASE ScrubTimer
  <2>1. PICK quiet \in BOOLEAN : tile' = loadSegmentForTime(tile, timer, TRUE, quiet)
    BY <1>3 DEF ScrubTimer
  <2>2. timer \in Times /\ timer' = 0 /\ UNCHANGED <<isLive, rate, globalPaused, server, faults>>
    BY <1>3, <1>b DEF ScrubTimer
  <2>3. tile' \in Tile /\ Solo(tile')
    BY <1>a, <2>1, <2>2, SeekLoads
  <2>4. Solo(tile)'
    BY <2>3 DEF Solo
  <2>5. ASSUME ~isLive PROVE Playing(tile', faults)
    <3>1. tile.segs \in {{}, recorded} /\ tile.rate = rate
      BY <2>5 DEF PlayerInv, Playing
    <3> QED BY <1>a, <2>1, <2>2, <3>1, SeekLoads
  <2>6. ~isLive' => Playing(tile, faults)'
    BY <2>2, <2>5, SameFiles
  <2>7. TypeOK'
    BY <1>a, <2>2, <2>3 DEF TypeOK, server
  <2> QED BY <2>4, <2>6, <2>7 DEF PlayerInv
<1>4. CASE Ended
  <2> DEFINE e == [tile EXCEPT !.paused = TRUE]
             At(next) == CHOOSE u \in Times :
                            SegOf[u] = next /\ \A v \in Times : SegOf[v] = next => u <= v
  <2>1. e \in Tile /\ e.segs = tile.segs /\ e.rate = tile.rate
    BY <1>a DEF Tile
  <2>2. PICK next \in tile.segs : tile' = loadSegmentForTime(e, At(next), TRUE, TRUE)
    BY <1>4 DEF Ended
  <2>3. next \in Segs
    BY <1>a DEF Tile
  <2>4. At(next) \in Times
    BY <2>3, StartOfSegment
  <2> HIDE DEF e, At
  <2>5. ~isLive /\ UNCHANGED <<isLive, rate, globalPaused, timer, server, faults>>
    BY <1>4 DEF Ended
  <2>6. e.segs \in {{}, recorded} /\ e.rate = rate
    BY <2>1, <2>5 DEF PlayerInv, Playing
  <2>7. tile' \in Tile /\ Solo(tile')
    BY <1>a, <2>1, <2>2, <2>4, SeekLoads
  <2>8. Playing(tile', faults)
    BY <1>a, <2>1, <2>2, <2>4, <2>6, SeekLoads
  <2>9. Solo(tile)'
    BY <2>7 DEF Solo
  <2>10. Playing(tile, faults)'
    BY <2>5, <2>8, SameFiles
  <2>11. TypeOK'
    BY <1>a, <2>5, <2>7 DEF TypeOK, server
  <2> QED BY <2>9, <2>10, <2>11 DEF PlayerInv
<1> QED BY <1>1, <1>2, <1>3, <1>4

(* A load that acts gets its answer: the list, a file's metadata, a failure. *)
LEMMA LoadStepInv == ASSUME PlayerInv, LoadStep PROVE PlayerInv'
<1>a. TypeOK /\ Solo(tile) /\ tile \in Tile /\ rate \in Rates /\ faults \in Nat
  BY LoaderAssumption DEF PlayerInv, TypeOK
<1>b. PICK l \in tile.loads : LoadAnswered(l)
  BY DEF LoadStep
<1>c. /\ UNCHANGED <<isLive, rate, globalPaused, timer, server>>
      /\ faults' \in 0..MaxFaults /\ faults' \in Nat
  BY <1>a, <1>b, LoaderAssumption
  DEF LoadAnswered, FetchReply, FetchFails, MediaLoaded, MediaFails, Stays, TypeOK
<1>d. l.target \in Times /\ l.retry \in BOOLEAN /\ l.cands \subseteq Segs /\ recorded \subseteq Segs
  BY <1>a DEF Tile, Load, TypeOK
<1>e. ASSUME tile' \in Tile, Solo(tile'), ~isLive => Playing(tile', faults') PROVE PlayerInv'
  <2>1. Solo(tile)'
    BY <1>e DEF Solo
  <2>2. ~isLive' => Playing(tile, faults)'
    BY <1>c, <1>e, SameFiles
  <2>3. TypeOK'
    BY <1>a, <1>c, <1>e DEF TypeOK, server
  <2> QED BY <2>1, <2>2, <2>3 DEF PlayerInv
<1>f. ~isLive => Playing(tile, faults)
  BY DEF PlayerInv
<1>1. CASE FetchReply(l) /\ l.aborted
  <2>1. tile' = [tile EXCEPT !.loads = @ \ {l}] /\ faults' = faults
    BY <1>1 DEF FetchReply
  <2>2. /\ tile' \in Tile /\ tile'.loads = tile.loads \ {l} /\ tile'.src = tile.src
        /\ tile'.segs = tile.segs /\ tile'.rate = tile.rate
        /\ tile'.age = tile.age /\ tile'.error = tile.error
    BY <1>a, <2>1 DEF Tile
  <2>3. Solo(tile')
    BY <1>a, <2>2 DEF Solo
  <2>4. ASSUME ~isLive PROVE Playing(tile', faults')
    <3>1. \A m \in tile'.loads : ~m.aborted => Honest(tile', m, faults)
      BY <1>f, <2>2, <2>4 DEF Playing, Honest
    <3>2. Truthful(tile', faults)
      BY <1>f, <2>2, <2>4 DEF Playing, Truthful
    <3> QED BY <1>f, <2>1, <2>2, <2>4, <3>1, <3>2 DEF Playing
  <2> QED BY <1>e, <2>2, <2>3, <2>4
<1>2. CASE FetchReply(l) /\ ~l.aborted /\ recorded = {}
  <2> DEFINE er == [kind |-> "none", at |-> l.target]
  <2>0. er \in Message /\ er.kind = "none"
    BY <1>d DEF Message
  <2>1. tile' = [tile EXCEPT !.loads = @ \ {l}, !.loading = FALSE, !.error = er] /\ faults' = faults
    BY <1>2 DEF FetchReply
  <2> HIDE DEF er
  <2>2. /\ tile' \in Tile /\ tile'.loads = tile.loads \ {l} /\ tile'.segs = tile.segs
        /\ tile'.rate = tile.rate /\ tile'.error = er
    BY <1>a, <2>0, <2>1 DEF Tile
  <2>3. Solo(tile')
    BY <1>a, <2>2 DEF Solo
  <2>4. ASSUME ~isLive PROVE Playing(tile', faults')
    <3>1. \A m \in tile'.loads : m.aborted
      BY <1>2, <1>a, <2>2 DEF Solo, Tile, Load
    <3>2. Truthful(tile', faults')
      BY <1>2, <2>0, <2>2 DEF Truthful
    <3> QED BY <1>f, <2>2, <2>4, <3>1, <3>2 DEF Playing
  <2> QED BY <1>e, <2>2, <2>3, <2>4
<1>3. CASE FetchReply(l) /\ ~l.aborted /\ recorded # {}
  <2> DEFINE e == [tile EXCEPT !.segs = recorded, !.age = 0]
             cs == Candidates(recorded, l.target)
  <2>0. recorded \in SUBSET Segs /\ 0 \in 0..2 /\ cs \in SUBSET Segs
    BY <1>d, CandidatesAreListed
  <2>1. tile' = TryNext(e, l, cs) /\ faults' = faults
    BY <1>3 DEF FetchReply
  <2>2. /\ e \in Tile /\ e.segs = recorded /\ e.age = 0 /\ e.rate = tile.rate
        /\ e.loads = tile.loads /\ e.error = tile.error
    BY <1>a, <2>0 DEF Tile
  <2> HIDE DEF e
  <2>3. Solo(e) /\ l \in e.loads
    BY <1>a, <2>2 DEF Solo
  <2>4. tile' \in Tile /\ Solo(tile')
    BY <1>3, <1>a, <2>0, <2>1, <2>2, <2>3, NextFile
  <2>5. ASSUME ~isLive PROVE Playing(tile', faults')
    <3>1. Truthful(e, faults) /\ e.rate = rate /\ e.age < 2
      BY <1>f, <2>2, <2>5 DEF Playing, Truthful
    <3>2. l.retry /\ faults = 0 => AllCorrupt(l.target)
      BY <1>3, <1>f, <2>5 DEF Playing, Honest
    <3>3. Candidates(recorded, l.target) \ cs \subseteq corrupt
      OBVIOUS
    <3> QED BY <1>3, <1>a, <2>0, <2>1, <2>2, <2>3, <3>1, <3>2, <3>3, NextFilePlays
  <2> QED BY <1>e, <2>4, <2>5
<1>4. CASE FetchFails(l)
  <2>1. tile' = GiveUp(tile, l) /\ ~l.aborted /\ l.at = "fetch" /\ faults' = faults + 1
    BY <1>4 DEF FetchFails
  <2>2. tile' \in Tile /\ Solo(tile')
    BY <1>a, <2>1, LoadGivesUp
  <2>3. ASSUME ~isLive PROVE Playing(tile', faults')
    <3>1. tile.segs \in {{}, recorded} /\ tile.rate = rate
      BY <1>f, <2>3 DEF Playing
    <3>2. l.retry => tile.segs = {} /\ (faults = 0 => AllCorrupt(l.target))
      BY <1>f, <2>1, <2>3 DEF Playing, Honest
    <3>3. faults' # 0 /\ (faults' <= 1 => faults' = 1 /\ faults = 0)
      BY <1>a, <2>1
    <3> QED BY <1>a, <1>c, <2>1, <3>1, <3>2, <3>3, GivingUpPlays
  <2> QED BY <1>e, <2>2, <2>3
<1>5. CASE MediaLoaded(l)
  <2>1. /\ tile' = Finish(tile, l, Earliest(l.cands)) /\ faults' = faults
        /\ l.at = "media"
    BY <1>5 DEF MediaLoaded
  <2>2. Earliest(l.cands) \in Segs
    BY <1>a, <1>d, <2>1, EarliestIsLeft DEF Solo
  <2> QED BY <1>a, <1>e, <1>f, <2>1, <2>2, LoadFinishes
<1>6. CASE MediaFails(l)
  <2> DEFINE cs == l.cands \ {Earliest(l.cands)}
  <2>1. tile' = TryNext(tile, l, cs) /\ l.at = "media"
    BY <1>6 DEF MediaFails
  <2>2. cs \in SUBSET Segs /\ ~l.aborted
    BY <1>a, <1>d, <2>1 DEF Solo, Tile, Load
  <2>3. tile' \in Tile /\ Solo(tile')
    BY <1>a, <2>1, <2>2, NextFile
  <2>4. ASSUME ~isLive PROVE Playing(tile', faults')
    <3>1. Playing(tile, faults) /\ Honest(tile, l, faults)
      BY <1>f, <2>2, <2>4 DEF Playing
    <3>2. /\ tile.segs = recorded /\ tile.rate = rate /\ tile.age < 2
          /\ tile.src = Earliest(l.cands)
      BY <2>1, <3>1 DEF Playing, Honest
    <3>3. \/ faults' = faults + 1
          \/ faults' = faults /\ Earliest(l.cands) \in corrupt
      BY <1>6, <1>a, <3>2 DEF MediaFails, Tile
    <3>4. Truthful(tile, faults')
      BY <1>a, <3>1, <3>3 DEF Playing, Truthful
    <3>5. l.retry /\ faults' = 0 => AllCorrupt(l.target)
      BY <1>a, <3>1, <3>3 DEF Honest
    <3>6. faults' = 0 \/ (l.retry /\ faults' = 1 /\ ~AllCorrupt(l.target))
              => Candidates(recorded, l.target) \ cs \subseteq corrupt
      BY <1>a, <2>1, <3>1, <3>3 DEF Honest
    <3> QED BY <1>a, <1>c, <2>1, <2>2, <3>2, <3>4, <3>5, <3>6, NextFilePlays
  <2> QED BY <1>e, <2>3, <2>4
<1> QED BY <1>b, <1>1, <1>2, <1>3, <1>4, <1>5, <1>6 DEF LoadAnswered

LEMMA PlayerInductive == PlayerInv /\ [Next]_vars => PlayerInv'
<1> SUFFICES ASSUME PlayerInv, [Next]_vars PROVE PlayerInv'
  OBVIOUS
<1>1. CASE LiveReady \/ LiveFails \/ EnterLive \/ TogglePause \/ StepFrame \/ TokensAge
           \/ \E r \in Rates : SetRate(r)
  BY <1>1, PageStep
<1>2. CASE ScrubTimer \/ Ended \/ \E t \in Times : EnterPlayback(t) \/ Seek(t)
  BY <1>2, SeekStep
<1>3. CASE LoadStep
  BY <1>3, LoadStepInv
<1>4. CASE UNCHANGED vars
  BY <1>4 DEF PlayerInv, TypeOK, Solo, Playing, Honest, Truthful, AllCorrupt, vars
<1> QED BY <1>1, <1>2, <1>3, <1>4 DEF Next

(* A tile never has two loads that may act, however seeks, the debounce,     *)
(* retries, auto-advance and changes of mode follow one another: each run of *)
(* loadSegmentForTime aborts the run before it.                              *)
THEOREM OneLoadActs == Spec => []OneLoadRuns
<1>1. PlayerInv => OneLoadRuns
  BY DEF PlayerInv, Solo, OneLoadRuns
<1> QED BY PlayerInit, PlayerInductive, <1>1, PTL DEF Spec

(* In playback the element runs at the speed of the transport bar, and as     *)
(* long as no more than one request has failed the tile says of the           *)
(* recordings only what is true of the files on the server: for every         *)
(* archive, every length of a pass and every order of answers.                *)
THEOREM TileTellsTheTruth == Spec => []TileInvariant
<1>1. PlayerInv => TileInvariant
  BY DEF PlayerInv, Playing, Truthful, TileInvariant, ErrorIsTrue, RateSurvivesLoads
<1> QED BY PlayerInit, PlayerInductive, <1>1, PTL DEF Spec
==============================================================================
