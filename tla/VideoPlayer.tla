----------------------------- MODULE VideoPlayer -----------------------------
(***************************************************************************)
(* One tile of the monitor: VideoPlayer.tsx in playback, with the mode it   *)
(* shares with module LiveTile.  In playback a tile plays recorded segments  *)
(* one file after another; every seek aborts the load before it, waits for  *)
(* a segment list (cached while its signed URLs are fresh), walks over      *)
(* files that do not load and repeats the whole load once with new URLs.    *)
(* The element, the loader's refs and the flags it sets are one record,     *)
(* tile.  Zoom, name editing and the overlay text are layout.               *)
(***************************************************************************)
EXTENDS Naturals, FiniteSets

CONSTANTS SegOf,      \* SegOf[t]: the segment that covers time t
          Archives,   \* <<recorded, corrupt>>: what the server may hold
          MaxTries,   \* files tried in one pass, 5 in the code
          MaxFaults   \* bound: network faults

ASSUME LoaderAssumption ==
    /\ {MaxTries, MaxFaults} \subseteq Nat
    /\ MaxTries > 0
    /\ \A t \in DOMAIN SegOf : t \in Nat \ {0} /\ SegOf[t] \in Nat \ {0}
    /\ \A a \in Archives : a[2] \subseteq a[1] /\ a[1] \subseteq {SegOf[t] : t \in DOMAIN SegOf}

Times == DOMAIN SegOf
Segs  == {SegOf[t] : t \in Times}
Rates == {1, 2}
NoSource == 0
LiveSource == 99   \* no segment: the stream of the live session

VARIABLES
    isLive,      \* the page's mode
    rate,        \* playbackRate of the transport bar
    globalPaused,
    tile,        \* element, refs and flags of the loader
    timer,       \* time the scrub debounce will load, 0 when not armed
    recorded, corrupt, \* the files on the server
    faults       \* network faults so far

vars == <<isLive, rate, globalPaused, tile, timer, recorded, corrupt, faults>>
server == <<recorded, corrupt>>

(* cands are the files the load has still to try, from the earliest on. *)
Load == [at : {"fetch", "media"}, target : Times, cands : SUBSET Segs,
         auto : BOOLEAN, retry : BOOLEAN, aborted : BOOLEAN]
Message == [kind : {"", "none", "corrupt", "live"}, at : {0} \cup Times]
Tile == [src : {NoSource, LiveSource} \cup Segs, rate : Rates, paused : BOOLEAN,
         cur : {0} \cup Segs, last : {0} \cup Times, segs : SUBSET Segs, age : 0..2,
         loads : SUBSET Load, loading : BOOLEAN, error : Message]

(* The one type invariant. *)
TypeOK ==
    /\ isLive \in BOOLEAN /\ rate \in Rates
    /\ globalPaused \in BOOLEAN
    /\ tile \in Tile
    /\ timer \in {0} \cup Times
    /\ corrupt \subseteq recorded /\ recorded \subseteq Segs
    /\ faults \in 0..MaxFaults

-----------------------------------------------------------------------------
(* The loader, as functions from a tile to the tile after it. *)
NoError == [kind |-> "", at |-> 0]
(* Segment lists are ordered by their start. *)
Earliest(S) == CHOOSE s \in S : \A r \in S : s <= r

(* The index the loader settles on: the segment that contains t, else the   *)
(* last one that starts before t, else the first of the list.               *)
BestSegment(S, t) ==
    LET before == {s \in S : s <= SegOf[t]}
    IN IF before # {} THEN CHOOSE s \in before : \A r \in before : r <= s
       ELSE Earliest(S)
Candidates(S, t) ==
    LET all == {s \in S : BestSegment(S, t) <= s}
    IN {s \in all : Cardinality({r \in all : r < s}) < MaxTries}

(* A new run aborts the one before: a load waiting for the element returns  *)
(* at once, one waiting for the server when its answer comes; all of these   *)
(* do the same then, and one stands for them.                                *)
StaleLoad == [at |-> "fetch", target |-> CHOOSE t \in Times : TRUE, cands |-> {},
              auto |-> FALSE, retry |-> FALSE, aborted |-> TRUE]
KeepRunning(loads) == loads
Aborted(loads) == {StaleLoad : l \in {m \in loads : m.at = "fetch"}}

(* src = ...; load(); playbackRate = ...: load() puts the rate back to 1.    *)
SourceOnly(tl, s) == [tl EXCEPT !.src = s, !.rate = 1]
SetSource(tl, s) == [tl EXCEPT !.src = s, !.rate = rate]

StartFetch(tl, t, auto, retry) ==
    [tl EXCEPT !.error = NoError,
               !.loads = Aborted(tl.loads)
                    \cup {[at |-> "fetch", target |-> t, cands |-> {}, auto |-> auto,
                           retry |-> retry, aborted |-> FALSE]}]

(* Mutants of Finish: the spinner stays on; the file plays under a time that was never asked. *)
FinishStillLoading(tl, l, s) == [tl EXCEPT !.cur = s, !.last = l.target, !.rate = rate, !.paused = ~l.auto, !.loads = @ \ {l}]
FinishAtSegment(tl, l, s) == [tl EXCEPT !.cur = s, !.last = LiveSource, !.loading = FALSE, !.rate = rate, !.paused = ~l.auto, !.loads = @ \ {l}]
Finish(tl, l, s) ==
    [tl EXCEPT !.cur = s, !.last = l.target, !.loading = FALSE, !.rate = rate,
               !.paused = ~l.auto, !.loads = @ \ {l}]

(* Mutant of GiveUp: the first failure is final. *)
GiveUpAtOnce(tl, l) ==
    [tl EXCEPT !.loading = FALSE, !.loads = @ \ {l},
               !.error = [kind |-> IF tl.segs = {} THEN "none" ELSE "corrupt", at |-> l.target]]
(* The catch block: once more from an empty cache, then the message.        *)
GiveUp(tl, l) ==
    IF ~l.retry
    THEN StartFetch([tl EXCEPT !.segs = {}, !.age = 0, !.cur = 0, !.loads = @ \ {l}],
                    l.target, l.auto, TRUE)
    ELSE [tl EXCEPT !.loading = FALSE, !.loads = @ \ {l},
               !.error = [kind |-> IF tl.segs = {} THEN "none" ELSE "corrupt", at |-> l.target]]

(* Try the files left in cs: the one already loaded is not loaded again.    *)
TryNext(tl, l, cs) ==
    IF cs = {} THEN GiveUp(tl, l)
    ELSE IF Earliest(cs) = tl.cur THEN Finish(tl, l, Earliest(cs))
    ELSE LET m == [l EXCEPT !.at = "media", !.cands = cs]
         IN [SetSource(tl, Earliest(cs)) EXCEPT !.loads = (@ \ {l}) \cup {m}]

InCache(tl, t) ==
    /\ tl.age = 0 /\ tl.segs # {}
    /\ \E s \in tl.segs : s <= SegOf[t]
    /\ \E s \in tl.segs : SegOf[t] <= s

loadSegmentForTime(tl, t, auto, quiet) ==
    LET begun == StartFetch([tl EXCEPT !.loading = @ \/ ~quiet], t, auto, FALSE)
        l     == CHOOSE m \in begun.loads : ~m.aborted
    IN IF InCache(tl, t) THEN TryNext(begun, l, Candidates(tl.segs, t)) ELSE begun

(* The live effect: a new session, under either player. *)
LiveStarts(tl) == [tl EXCEPT !.src = LiveSource, !.rate = 1, !.loading = TRUE, !.error = NoError]

Fresh == [src |-> NoSource, rate |-> 1, paused |-> TRUE, cur |-> 0, last |-> 0, segs |-> {},
          age |-> 0, loads |-> {}, loading |-> TRUE, error |-> NoError]

Init ==
    /\ isLive = TRUE /\ rate = 1 /\ globalPaused = FALSE
    /\ tile = LiveStarts(Fresh) /\ timer = 0
    /\ \E a \in Archives : recorded = a[1] /\ corrupt = a[2]
    /\ faults = 0

-----------------------------------------------------------------------------
(* The page changes what it hands down: mode, time, pause, rate. *)

(* The seek effect: nothing at the time of the last load, at once inside the *)
(* loaded segment, else a debounced load.                                    *)
SeekEffect(tl, t) ==
    IF t = tl.last THEN tile' = tl /\ UNCHANGED timer
    ELSE IF tl.cur # 0 /\ SegOf[t] = tl.cur
    THEN /\ tile' = [tl EXCEPT !.last = t, !.paused = @ /\ globalPaused]
         /\ UNCHANGED timer
    ELSE tile' = tl /\ timer' = t

(* A seek from live view.  The live session is closed; the effects of the    *)
(* commit load the new time, arm the debounce for it, and apply the rate.    *)
EnterPlayback(t) ==
    /\ isLive
    /\ isLive' = FALSE
    /\ LET reset == [tile EXCEPT !.src = NoSource, !.rate = rate, !.cur = 0, !.segs = {}, !.age = 0]
       IN SeekEffect(loadSegmentForTime(reset, t, FALSE, FALSE), t)
    /\ UNCHANGED <<rate, globalPaused, server, faults>>

(* What the live session, module LiveTile, tells the tile.                   *)
LiveReady ==
    /\ isLive /\ tile.loading /\ tile' = [tile EXCEPT !.loading = FALSE]
    /\ UNCHANGED <<isLive, rate, globalPaused, timer, server, faults>>
LiveFails ==
    /\ isLive /\ tile.error.kind # "live"
    /\ tile' = [tile EXCEPT !.loading = FALSE, !.error = [kind |-> "live", at |-> 0]]
    /\ UNCHANGED <<isLive, rate, globalPaused, timer, server, faults>>

(* Back to live: the source is dropped and the live effect runs.  A load     *)
(* under way and an armed debounce are left to run.  The page's rate is 1.   *)
EnterLive ==
    /\ ~isLive /\ isLive' = TRUE
    /\ tile' = LiveStarts(tile) /\ rate' = 1
    /\ UNCHANGED <<globalPaused, timer, server, faults>>

Seek(t) ==
    /\ ~isLive
    /\ SeekEffect(tile, t)
    /\ UNCHANGED <<isLive, rate, globalPaused, server, faults>>

(* The debounce fires, in whichever mode the tile is by then. *)
ScrubTimer ==
    /\ timer # 0 /\ timer' = 0
    /\ \E quiet \in BOOLEAN : tile' = loadSegmentForTime(tile, timer, TRUE, quiet)
    /\ UNCHANGED <<isLive, rate, globalPaused, server, faults>>

TogglePause ==
    /\ globalPaused' = ~globalPaused
    /\ tile' = IF isLive THEN tile ELSE [tile EXCEPT !.paused = globalPaused']
    /\ UNCHANGED <<isLive, rate, timer, server, faults>>

StepFrame ==
    /\ ~isLive /\ tile' = [tile EXCEPT !.paused = TRUE]
    /\ UNCHANGED <<isLive, rate, globalPaused, timer, server, faults>>

SetRate(r) ==
    /\ ~isLive /\ rate' = r /\ tile' = [tile EXCEPT !.rate = r]
    /\ UNCHANGED <<isLive, globalPaused, timer, server, faults>>

-----------------------------------------------------------------------------
(* Playback: the loader's awaits *)
Stays == UNCHANGED <<isLive, rate, globalPaused, timer, server>>

(* The server signs the URLs anew with every list; an empty list is final.   *)
FetchReply(l) ==
    /\ l \in tile.loads /\ l.at = "fetch"
    /\ tile' = IF l.aborted THEN [tile EXCEPT !.loads = @ \ {l}]
               ELSE IF recorded = {}
               THEN [tile EXCEPT !.loads = @ \ {l}, !.loading = FALSE,
                                 !.error = [kind |-> "none", at |-> l.target]]
               ELSE TryNext([tile EXCEPT !.segs = recorded, !.age = 0], l,
                            Candidates(recorded, l.target))
    /\ Stays /\ UNCHANGED faults

FetchFails(l) ==
    /\ l \in tile.loads /\ l.at = "fetch" /\ ~l.aborted /\ faults < MaxFaults
    /\ faults' = faults + 1
    /\ tile' = GiveUp(tile, l)
    /\ Stays

(* loadedmetadata: of the file, or of the live stream that replaced it.      *)
MediaLoaded(l) ==
    /\ l \in tile.loads /\ l.at = "media"
    /\ tile.src = LiveSource \/ (tile.src = Earliest(l.cands) /\ tile.src \notin corrupt /\ tile.age < 2)
    /\ tile' = Finish(tile, l, Earliest(l.cands))
    /\ Stays /\ UNCHANGED faults

(* error: the file is corrupt, its token expired, the network failed, or the *)
(* source was taken away under the load.                                     *)
MediaFails(l) ==
    /\ l \in tile.loads /\ l.at = "media"
    /\ \/ tile.src # Earliest(l.cands) /\ UNCHANGED faults
       \/ (Earliest(l.cands) \in corrupt \/ tile.age = 2) /\ UNCHANGED faults
       \/ faults < MaxFaults /\ faults' = faults + 1
    /\ tile' = TryNext(tile, l, l.cands \ {Earliest(l.cands)})
    /\ Stays

(* The segment ends, which pauses the element: on to the next of the list,   *)
(* through the same loader.                                                  *)
Ended ==
    /\ ~isLive /\ tile.src = tile.cur /\ ~tile.paused
    /\ \E next \in tile.segs :
          /\ tile.cur < next /\ ~ \E s \in tile.segs : tile.cur < s /\ s < next
          /\ LET t == CHOOSE u \in Times : SegOf[u] = next /\ \A v \in Times : SegOf[v] = next => u <= v
             IN tile' = loadSegmentForTime([tile EXCEPT !.paused = TRUE], t, TRUE, TRUE)
    /\ UNCHANGED <<isLive, rate, globalPaused, timer, server, faults>>

(* The signed URLs age.  A load is over within the 30 s between the last use  *)
(* of a list and the expiry of its tokens.                                    *)
TokensAge ==
    /\ tile.segs # {} /\ tile.age < 2
    /\ tile.age = 1 => ~ \E l \in tile.loads : l.at = "media"
    /\ tile' = [tile EXCEPT !.age = @ + 1]
    /\ UNCHANGED <<isLive, rate, globalPaused, timer, server, faults>>

-----------------------------------------------------------------------------
LoadAnswered(l) == FetchReply(l) \/ FetchFails(l) \/ MediaLoaded(l) \/ MediaFails(l)
LoadStep == \E l \in tile.loads : LoadAnswered(l)
CurrentLoadStep == \E l \in tile.loads : ~l.aborted /\ LoadAnswered(l)

Next ==
    \/ LiveReady \/ LiveFails
    \/ \E t \in Times : EnterPlayback(t) \/ Seek(t)
    \/ EnterLive \/ ScrubTimer \/ TogglePause \/ StepFrame \/ Ended \/ TokensAge
    \/ \E r \in Rates : SetRate(r)
    \/ LoadStep

(* The request of the load that counts is answered, media events and timers   *)
(* fire, although the operator starts loads again and again.                  *)
Spec == Init /\ [][Next]_vars /\ WF_vars(CurrentLoadStep) /\ WF_vars(ScrubTimer)

-----------------------------------------------------------------------------
(* Of the loads that have not returned at most one may still act: every run  *)
(* of loadSegmentForTime, the retry and the auto-advance included, aborts the *)
(* one before it, so a slow answer never applies after a newer seek began.    *)
OneLoadRuns == \A l, m \in tile.loads : ~l.aborted /\ ~m.aborted => l = m

AllCorrupt(t) == Candidates(recorded, t) \subseteq corrupt

(* What a playback tile says of the recordings is true of the server's files, *)
(* although tokens expire, as long as no more than one request has failed.    *)
(* "Corrupt" means every file the pass may try is; "no recordings" that there *)
(* is none, or that the list was refused after all of those files had proved  *)
(* corrupt.                                                                   *)
ErrorIsTrue ==
    ~isLive /\ faults <= 1 =>
        /\ tile.error.kind = "none" => recorded = {} \/ (faults = 1 /\ AllCorrupt(tile.error.at))
        /\ tile.error.kind = "corrupt" => AllCorrupt(tile.error.at)

(* The speed chosen in the transport bar is the element's speed throughout    *)
(* playback: through loads, retries, skipped files and auto-advance, each of  *)
(* which replaces the source and so resets the element to 1.                  *)
RateSurvivesLoads == ~isLive => tile.rate = rate

(* Loading ends in playback once the operator stops scrubbing: whatever was   *)
(* aborted, fails or is retried, some load clears the flag or the tile goes   *)
(* live.                                                                      *)
LoadingEnds == <>[](timer = 0) => ((tile.loading /\ ~isLive) ~> (~tile.loading \/ isLive))

(* The tile shows what there is: the types, a message that is true of the     *)
(* server's files, and the speed the transport bar says.                      *)
TileInvariant == TypeOK /\ ErrorIsTrue /\ RateSurvivesLoads
==============================================================================
