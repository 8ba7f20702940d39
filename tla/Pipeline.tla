------------------------------ MODULE Pipeline ------------------------------
(***************************************************************************)
(* One rotation inside the worker (whirl-worker/pipeline.rs: rotate, fill, *)
(* warm and the filter stages; sources/wallhaven.rs and http.rs for what a *)
(* source answers and how long a request takes).                           *)
(*                                                                         *)
(* A candidate is what the filters and the bytes tell apart: what its      *)
(* source says of it and what its bytes turn out to be. Digests, names and *)
(* counters are left out; Cache has the files, HeadWindow the header.      *)
(* The clock advances inside requests, and the daemon kills at Deadline.   *)
(***************************************************************************)
EXTENDS Naturals, Sequences, FiniteSets, SequencesExt, FiniteSetsExt

CONSTANTS Feeds,       \* the configured sources, by position: 1 .. n
          Mode,        \* of each: "url" (wallhaven), "copy" or "reference" (local)
          Offers,      \* the candidates a source may offer
          MaxOffered,  \* bound: candidates per enumeration
          Pages,       \* `pages` of a wallhaven source
          Recent,      \* the ids in the history ring's window
          Held,        \* the ids whose index entry names a file with its bytes
          Weights,     \* the weights a source may have
          Prefetch,    \* prefetch
          Deadline,    \* schedule.worker_deadline_seconds
          Slow         \* the longest a request takes: curl's max-time

\* What a candidate is: `said` is its declared size in pixels against the floor, `bytes`
\* its declared length against the cap, `named` the extension of its origin, `holds` what
\* really arrives.
Candidates ==
  [id : Nat, said : {"unknown", "under", "above", "skewed"}, bytes : {"unknown", "over", "fine"},
   named : {"none", "settable", "alien"}, holds : {"image", "small", "huge", "junk"}]

ASSUME PipelineAssumption ==
  /\ IsFiniteSet(Feeds) /\ Feeds = 1 .. Cardinality(Feeds)
  /\ Mode \in [Feeds -> {"url", "copy", "reference"}]
  /\ Offers \subseteq Candidates /\ MaxOffered \in Nat
  /\ Weights \subseteq Nat /\ Prefetch \in Nat /\ Pages \in Nat \ {0}
  /\ Deadline \in Nat \ {0} /\ Slow \in Nat \ {0}

VARIABLES
  turn,      \* the sources not asked yet, in the order of the walk
  kept,      \* the admitted candidates of the source being walked, not offered yet
  feed,      \* that source
  page,      \* the page of its listing that is asked for, or 0
  act,       \* what the worker does: see Acts
  hand,      \* the candidate in hand, with the route its bytes took
  shunned,   \* `bad`: the ids refused in this run
  refusals,  \* set_failures.len()
  spoilt,    \* fill_failures is not empty
  warmedUp,  \* `stored` of warm
  elapsed,   \* since `started`
  outcome,   \* "none" until rotate returns, then its code
  shown,     \* what the setter has accepted, and when
  inquired,  \* history: the sources enumerated, in order
  failed,    \* history: the ids that failed in the walk of rotate, and on what
  retried    \* history: one of them was in hand again

walk == <<turn, kept, feed, page>>
tally == <<shunned, refusals, spoilt, warmedUp>>
record == <<inquired, failed, retried>>
pipeVars == <<turn, kept, feed, page, act, hand, shunned, refusals, spoilt, warmedUp, elapsed,
              outcome, shown, inquired, failed, retried>>

\* "walk": before the next source or candidate; "list": a listing is asked for; "fill",
\* "set": a candidate in hand; "warm", "fetch": as "walk" and "fill", after the set.
Acts == {"draw", "walk", "list", "fill", "set", "warm", "fetch", "over", "killed"}
NoHand == [id |-> 0]
Nothing == [id |-> 0]

-----------------------------------------------------------------------------
\* weighted_order: the source the draw points at, then the others by descending weight,
\* ties in config order. Weight 0 takes no part.
WeightOf(w, feeds) == FoldFunctionOnSet(+, 0, w, feeds)
DrawnFirst(w, draw, f) == f = Min({g \in Feeds : w[g] > 0 /\ draw % WeightOf(w, Feeds) < WeightOf(w, 1 .. g)})
Precedes(w, f, g) == w[f] > w[g] \/ (w[f] = w[g] /\ f < g)

WeightedOrders(w, draw) == {order \in SetToSeqs({f \in Feeds : w[f] > 0}) :
  \A i \in DOMAIN order : /\ i = 1 => DrawnFirst(w, draw, order[i])
                          /\ i \notin {1, Len(order)} => Precedes(w, order[i], order[i + 1])}

\* The stages of filter_pipeline. What a source did not say rejects nothing.
StageResolution(c) == c.said # "under"
StageRatio(c) == c.said # "skewed"
StageSize(c) == c.bytes # "over"
StageType(c) == c.named # "alien"
StageRecent(c) == c.id \notin Recent
Admitted(c) == StageResolution(c) /\ StageRatio(c) /\ StageSize(c) /\ StageType(c) /\ StageRecent(c)

PipeInit ==
  /\ turn = <<>> /\ kept = <<>> /\ feed = 0 /\ page = 0 /\ act = "draw" /\ hand = NoHand
  /\ shunned = {} /\ refusals = 0 /\ spoilt = FALSE /\ warmedUp = 0 /\ elapsed = 0
  /\ outcome = "none" /\ shown = Nothing /\ inquired = <<>>
  /\ failed = {} /\ retried = FALSE

\* A request, a directory walk or a read takes its time; nothing starts after the kill.
Takes == elapsed < Deadline /\ \E t \in {0, 1, Slow} : elapsed' = Min({elapsed + t, Deadline})
AtOnce == elapsed < Deadline /\ UNCHANGED elapsed

\* The prefetch ends with its share of the deadline, its count, or the walk.
Budget == Deadline \div 2

\* Mutant: the prefetch has no deadline of its own.
WarmsPastBudget == warmedUp >= Prefetch \/ (kept = <<>> /\ turn = <<>>)

WarmsNoMore ==
  \/ warmedUp >= Prefetch \/ (kept = <<>> /\ turn = <<>>) \/ elapsed >= Budget

Ends(code) == act' = "over" /\ outcome' = code

-----------------------------------------------------------------------------
\* The walk of rotate.

Draw ==
  /\ act = "draw" /\ act' = "walk" /\ AtOnce
  /\ \E w \in [Feeds -> Weights] : \E draw \in 0 .. WeightOf(w, Feeds) :
       turn' \in WeightedOrders(w, draw)
  /\ UNCHANGED <<kept, feed, page, hand, tally, outcome, shown, record>>

\* The walk of rotate and the one of warm ask the next source alike.
Asks == kept = <<>> /\ turn # <<>> /\ (act = "walk" \/ (act = "warm" /\ ~WarmsNoMore))
Resumes == IF shown = Nothing THEN "walk" ELSE "warm"

AskNext ==
  /\ Asks /\ turn' = Tail(turn) /\ feed' = Head(turn) /\ inquired' = Append(inquired, Head(turn))
  /\ UNCHANGED <<hand, tally, outcome, shown, failed, retried>>

\* A directory is walked in one go; one that cannot be read yields nothing.
Answers(n) == {<<>>} \cup UNION {{s \in [1 .. i -> Offers] : IsInjective(s)} : i \in 1 .. n}

ListDirectory ==
  /\ AskNext /\ Mode[Head(turn)] # "url" /\ Takes
  /\ \E s \in Answers(MaxOffered) : kept' = SelectSeq(s, Admitted)
  /\ UNCHANGED <<page, act>>

\* refuse: a source whose key or collection cannot be had is asked nothing.
RefuseSource ==
  /\ AskNext /\ Mode[Head(turn)] = "url" /\ Takes
  /\ UNCHANGED <<kept, page, act>>

AskListing ==
  /\ AskNext /\ Mode[Head(turn)] = "url" /\ AtOnce /\ act' = "list" /\ page' = 1
  /\ UNCHANGED kept

\* Every page that arrives contributes. The listing ends with an empty page, with its
\* last one, or with the last one configured.
ListPage ==
  /\ act = "list" /\ Takes
  /\ \E s \in Answers(MaxOffered - Len(kept)), more \in BOOLEAN :
       LET goesOn == s # <<>> /\ more /\ page < Pages
           listed == kept \o s
       IN  /\ page' = IF goesOn THEN page + 1 ELSE 0
           /\ kept' = IF goesOn THEN listed ELSE SelectSeq(listed, Admitted)
           /\ act' = IF goesOn THEN "list" ELSE Resumes
  /\ UNCHANGED <<turn, feed, hand, tally, outcome, shown, record>>

\* "A listing that half-arrived is not a listing": one failing page fails the source.
PageFails ==
  /\ act = "list" /\ Takes /\ page' = 0 /\ kept' = <<>> /\ act' = Resumes
  /\ UNCHANGED <<turn, feed, hand, tally, outcome, shown, record>>

SkipShunned ==
  /\ act = "walk" \/ (act = "warm" /\ ~WarmsNoMore)
  /\ kept # <<>> /\ Head(kept).id \in shunned /\ AtOnce
  /\ kept' = Tail(kept)
  /\ UNCHANGED <<turn, feed, page, act, hand, tally, outcome, shown, record>>

TakeCandidate ==
  /\ act = "walk" /\ kept # <<>> /\ Head(kept).id \notin shunned /\ AtOnce
  /\ hand' = Head(kept) /\ kept' = Tail(kept) /\ act' = "fill"
  /\ UNCHANGED <<turn, feed, page, tally, outcome, shown, record>>

FailsOn(what) == failed' = failed \cup {<<hand.id, what>>}
Opening == retried' = (retried \/ \E f \in failed : f[1] = hand.id)

\* fill, for the three routes. `reference` hashes the user's own file; a candidate the
\* index serves is not fetched; the others are stored.
FromCache(c) == Mode[feed] # "reference" /\ c.id \in Held

ServeCached ==
  /\ act = "fill" /\ FromCache(hand) /\ Takes /\ Opening /\ act' = "set"
  /\ UNCHANGED <<walk, hand, tally, outcome, shown, inquired, failed>>

Reference ==
  /\ act = "fill" /\ Mode[feed] = "reference" /\ Takes /\ Opening
  /\ \/ act' = "set" /\ UNCHANGED outcome
     \/ Ends("not_found")
  /\ UNCHANGED <<walk, hand, tally, shown, inquired, failed>>

\* store: the bytes arrive whole and are an image within the cap.
StoresBytes(c) == c.holds \in {"image", "small"}

Fetched ==
  /\ act = "fill" /\ Mode[feed] # "reference" /\ ~FromCache(hand) /\ Takes /\ Opening
  /\ StoresBytes(hand)
  /\ act' = IF hand.holds = "small" THEN "walk" ELSE "set"   \* the floor, of the header
  /\ hand' = IF hand.holds = "small" THEN NoHand ELSE hand
  /\ UNCHANGED <<walk, tally, outcome, shown, inquired, failed>>

\* Mutant: the failure is kept for the code of the run, and the candidate is not marked.
BytesFailUnmarked ==
  /\ act = "fill" /\ Mode[feed] # "reference" /\ ~FromCache(hand) /\ Takes /\ Opening
  /\ spoilt' = TRUE /\ FailsOn("bytes") /\ act' = "walk" /\ hand' = NoHand
  /\ UNCHANGED <<walk, shunned, refusals, warmedUp, outcome, shown, inquired>>

\* candidate_failure: offline, too_large, not_an_image.
BytesFail ==
  /\ act = "fill" /\ Mode[feed] # "reference" /\ ~FromCache(hand) /\ Takes /\ Opening
  /\ shunned' = shunned \cup {hand.id} /\ spoilt' = TRUE /\ FailsOn("bytes")
  /\ act' = "walk" /\ hand' = NoHand
  /\ UNCHANGED <<walk, refusals, warmedUp, outcome, shown, inquired>>

\* The cache cannot be written: the rotation ends, with the part file removed.
CacheFails ==
  /\ act = "fill" /\ Mode[feed] # "reference" /\ ~FromCache(hand) /\ Takes /\ Opening
  /\ Ends("cache") /\ UNCHANGED <<walk, hand, tally, shown, inquired, failed>>

SetterAccepts ==
  /\ act = "set" /\ Takes
  /\ shown' = [id |-> hand.id, said |-> hand.said, holds |-> hand.holds, feed |-> feed,
               at |-> elapsed']
  /\ act' = "warm" /\ hand' = NoHand
  /\ UNCHANGED <<walk, tally, outcome, record>>

\* The candidate is marked bad; the second refusal ends the rotation.
SetterRefuses ==
  /\ act = "set" /\ Takes /\ hand' = NoHand /\ FailsOn("setter")
  /\ shunned' = shunned \cup {hand.id} /\ refusals' = refusals + 1
  /\ IF refusals' >= 2 THEN Ends("set_failed") ELSE act' = "walk" /\ UNCHANGED outcome
  /\ UNCHANGED <<walk, spoilt, warmedUp, shown, inquired, retried>>

\* Nothing is left: a setter's refusal, else the last failure of bytes, else the filters.
WalkFails ==
  /\ act = "walk" /\ kept = <<>> /\ turn = <<>> /\ AtOnce
  /\ Ends(IF refusals > 0 THEN "set_failed" ELSE IF spoilt THEN "bytes" ELSE "no_candidates")
  /\ UNCHANGED <<walk, hand, tally, shown, record>>

-----------------------------------------------------------------------------
\* warm: the same walk goes on from where the set left it, for half of the deadline.

EndWarm ==
  /\ act = "warm" /\ WarmsNoMore /\ AtOnce /\ Ends("ok")
  /\ UNCHANGED <<walk, hand, tally, shown, record>>

\* warm_one: nothing to hold for the user's own file or for what the index serves.
NothingToWarm ==
  /\ act = "warm" /\ ~WarmsNoMore /\ kept # <<>> /\ Head(kept).id \notin shunned
  /\ Mode[feed] = "reference" \/ FromCache(Head(kept))
  /\ Takes /\ kept' = Tail(kept)
  /\ UNCHANGED <<turn, feed, page, act, hand, tally, outcome, shown, record>>

WarmCandidate ==
  /\ act = "warm" /\ ~WarmsNoMore /\ kept # <<>> /\ Head(kept).id \notin shunned
  /\ Mode[feed] # "reference" /\ ~FromCache(Head(kept)) /\ AtOnce
  /\ hand' = Head(kept) /\ kept' = Tail(kept) /\ act' = "fetch"
  /\ UNCHANGED <<turn, feed, page, tally, outcome, shown, record>>

\* Stored and above the floor counts; stored and below it, or bytes that fail, does not,
\* and the walk goes on without marking it: another source's offer of it is tried too.
WarmedOne ==
  /\ act = "fetch" /\ Takes /\ Opening
  /\ \/ StoresBytes(hand) /\ warmedUp' = warmedUp + (IF hand.holds = "small" THEN 0 ELSE 1)
     \/ UNCHANGED warmedUp
  /\ act' = "warm" /\ hand' = NoHand
  /\ UNCHANGED <<walk, shunned, refusals, spoilt, outcome, shown, inquired, failed>>

\* A cache that cannot be written ends the prefetch, not the rotation.

\* Mutant: a prefetch that cannot write its file fails the rotation.
WarmFailsRotation ==
  /\ act = "fetch" /\ Takes /\ Opening /\ Ends("cache")
  /\ UNCHANGED <<walk, hand, tally, shown, inquired, failed>>

WarmStops ==
  /\ act = "fetch" /\ Takes /\ Opening /\ Ends("ok")
  /\ UNCHANGED <<walk, hand, tally, shown, inquired, failed>>

\* The daemon does not read what a worker wrote that it kills for the deadline.
DeadlineKills ==
  /\ act \notin {"over", "killed"} /\ elapsed = Deadline
  /\ act' = "killed"
  /\ UNCHANGED <<walk, hand, tally, elapsed, outcome, shown, record>>

-----------------------------------------------------------------------------
PipeNext ==
  \/ Draw \/ ListDirectory \/ RefuseSource \/ AskListing \/ ListPage \/ PageFails
  \/ SkipShunned \/ TakeCandidate
  \/ ServeCached \/ Reference \/ Fetched \/ BytesFail \/ CacheFails
  \/ SetterAccepts \/ SetterRefuses \/ WalkFails
  \/ EndWarm \/ NothingToWarm \/ WarmCandidate \/ WarmedOne \/ WarmStops
  \/ DeadlineKills

PipeSpec == PipeInit /\ [][PipeNext]_pipeVars
-----------------------------------------------------------------------------
\* features.md 1.4: at most one enumeration per source per rotation, prefetch included;
\* and a candidate that has failed on its bytes or was refused by the setter in the walk
\* of rotate is not tried again in this run, whichever source offers it, by the walk or by
\* the prefetch after it. One that fails in the prefetch itself is not marked, and is
\* asked for again when another source offers it.
NothingTwice == IsInjective(inquired) /\ ~retried

\* The code names what the candidates did: `ok` goes with an image shown and with nothing
\* else, a prefetch that fails included; the setter is blamed for a refusal, the bytes when
\* nothing but bytes has failed, and "no candidates" is said of a run in which no candidate
\* that was tried has failed; the last two when nothing is left to ask. A source that cannot
\* be listed counts as one with no candidates.
OutcomeIsHonest ==
  /\ outcome = "ok" <=> (shown # Nothing /\ act = "over")
  /\ outcome = "set_failed" => \E f \in failed : f[2] = "setter"
  /\ outcome = "bytes" => failed # {} /\ \A f \in failed : f[2] = "bytes"
  /\ outcome = "no_candidates" => failed = {}
  /\ outcome \in {"no_candidates", "bytes"} => turn = <<>> /\ kept = <<>>

\* "So it spends PREFETCH_DEADLINE_DIVISOR's share of the deadline and no more": with a
\* deadline of twice the longest listing, a set made within the first half of it is not
\* lost to the prefetch.
PrefetchKeepsTheSet ==
  act = "killed" /\ shown # Nothing /\ 2 * Pages * Slow <= Deadline => shown.at >= Budget
=============================================================================
