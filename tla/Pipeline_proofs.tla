--------------------------- MODULE Pipeline_proofs ---------------------------
(***************************************************************************)
(* What a rotation promises of its outcome, and that the prefetch does not *)
(* lose the set, for every number of sources, pages and candidates, every  *)
(* deadline and every length of a request; and that nothing is asked twice.*)
(* Then the walk of a directory source, which shares no state with it.     *)
(***************************************************************************)
EXTENDS Pipeline, LocalSource, SequenceTheorems, FiniteSetTheorems, TLAPS

\* The inductive invariant, in parts. Course: where the run is, against what it has shown
\* and what it has answered.
Course ==
  /\ act \in Acts
  /\ outcome = "none" <=> act # "over"
  /\ act \in {"draw", "walk", "fill", "set"} => shown = Nothing
  /\ act \in {"warm", "fetch"} => shown # Nothing
  /\ outcome = "ok" <=> (shown # Nothing /\ act = "over")

\* Reasons: what the run counts of its failures, against the candidates that failed, and the
\* code of a run that ended empty-handed against both.
Reasons ==
  /\ refusals \in Nat
  /\ refusals > 0 => \E f \in failed : f[2] = "setter"
  /\ refusals = 0 => \A f \in failed : f[2] = "bytes"
  /\ spoilt => failed # {}
  /\ failed # {} => refusals > 0 \/ spoilt
  /\ outcome = "set_failed" => refusals > 0
  /\ outcome = "bytes" => refusals = 0 /\ failed # {}
  /\ outcome = "no_candidates" => failed = {}
  /\ outcome \in {"no_candidates", "bytes"} => turn = <<>> /\ kept = <<>>

\* Clock: how late it can be at each step of the prefetch of a set made in time.
MadeInTime == shown # Nothing /\ shown.at < Budget

Clock ==
  /\ elapsed \in 0 .. Deadline
  /\ act = "killed" => elapsed = Deadline
  /\ act = "list" => page \in 1 .. Pages
  /\ shown # Nothing => shown.at \in Nat
  /\ MadeInTime /\ act \in {"warm", "over", "killed"} => elapsed < Budget + Pages * Slow
  /\ MadeInTime /\ act = "fetch" => elapsed < Budget
  /\ MadeInTime /\ act = "list" => elapsed < Budget + (page - 1) * Slow

PipeInv == Course /\ Reasons /\ Clock

-----------------------------------------------------------------------------
\* The smaller of two numbers, for the clock that stops at the deadline.
LEMMA MinOfTwo ==
  ASSUME NEW a \in Int, NEW b \in Int
  PROVE  Min({a, b}) = IF a <= b THEN a ELSE b
<1> DEFINE m == IF a <= b THEN a ELSE b
<1>1. m \in {a, b} /\ \A y \in {a, b} : m <= y
  OBVIOUS
<1>2. \A x \in {a, b} : (\A y \in {a, b} : x <= y) => x = m
  OBVIOUS
<1> HIDE DEF m
<1>3. (CHOOSE x \in {a, b} : \A y \in {a, b} : x <= y) = m
  BY <1>1, <1>2
<1> QED
  BY <1>3 DEF Min, m

\* A request moves the clock by at most Slow, and never past the deadline.
LEMMA Later ==
  Takes /\ elapsed \in 0 .. Deadline =>
    elapsed' \in 0 .. Deadline /\ elapsed <= elapsed' /\ elapsed' <= elapsed + Slow
BY MinOfTwo, PipelineAssumption DEF Takes

\* What the pages of one listing cost: each at most Slow, all at most Pages of them.
LEMMA Shares ==
  /\ Pages * Slow \in Nat /\ Slow <= Pages * Slow /\ Budget \in Nat
  /\ \A p \in 1 .. Pages :
       /\ (p - 1) * Slow \in Nat /\ p * Slow \in Nat
       /\ (p - 1) * Slow + Slow = p * Slow /\ p * Slow <= Pages * Slow
<1>0. Pages \in Nat \ {0} /\ Slow \in Nat \ {0} /\ Deadline \in Nat \ {0}
  BY PipelineAssumption
<1>1. Budget \in Nat
  BY <1>0 DEF Budget
<1>2. ASSUME NEW a \in Nat, NEW b \in Nat, a <= b PROVE a * Slow <= b * Slow
  BY <1>0, <1>2
<1>3. \A a \in Nat : a * Slow \in Nat
  BY <1>0
<1>4. Pages * Slow \in Nat /\ 1 * Slow <= Pages * Slow
  BY <1>0, <1>2, <1>3
<1>5. ASSUME NEW p \in 1 .. Pages
      PROVE  /\ (p - 1) * Slow \in Nat /\ p * Slow \in Nat
             /\ (p - 1) * Slow + Slow = p * Slow /\ p * Slow <= Pages * Slow
  <2>1. p \in Nat /\ p - 1 \in Nat /\ p <= Pages
    BY <1>0
  <2>2. (p - 1) * Slow + Slow = p * Slow
    BY <2>1, <1>0
  <2> QED
    BY <2>1, <2>2, <1>0, <1>2, <1>3
<1> QED
  BY <1>0, <1>1, <1>4, <1>5

\* What one request costs in each part of the prefetch.
LEMMA Request ==
  ASSUME elapsed \in 0 .. Deadline, Takes
  PROVE  /\ elapsed' \in 0 .. Deadline
         /\ elapsed < Budget => elapsed' < Budget + Pages * Slow
         /\ page \in 1 .. Pages /\ elapsed < Budget + (page - 1) * Slow =>
              /\ elapsed' < Budget + Pages * Slow
              /\ page' = page + 1 => elapsed' < Budget + (page' - 1) * Slow
<1>1. elapsed \in Nat /\ elapsed' \in Nat /\ elapsed' <= elapsed + Slow /\ elapsed' \in 0 .. Deadline
  BY Later, PipelineAssumption
<1>2. Pages * Slow \in Nat /\ Slow <= Pages * Slow /\ Budget \in Nat /\ Slow \in Nat
  BY Shares, PipelineAssumption
<1>3. elapsed < Budget => elapsed' < Budget + Pages * Slow
  BY <1>1, <1>2
<1>4. ASSUME page \in 1 .. Pages, elapsed < Budget + (page - 1) * Slow
      PROVE  /\ elapsed' < Budget + Pages * Slow
             /\ page' = page + 1 => elapsed' < Budget + (page' - 1) * Slow
  <2> DEFINE before == (page - 1) * Slow
             after == page * Slow
             all == Pages * Slow
  <2>1. before \in Nat /\ after \in Nat /\ all \in Nat /\ before + Slow = after /\ after <= all
    BY <1>4, Shares
  <2>2. elapsed < Budget + before
    BY <1>4
  <2>3. page' = page + 1 => (page' - 1) * Slow = after
    <3>1. page \in Nat
      BY <1>4, PipelineAssumption
    <3> QED
      BY <3>1
  <2> HIDE DEF before, after, all
  <2>4. elapsed' < Budget + after /\ elapsed' < Budget + all
    BY <1>1, <1>2, <2>1, <2>2
  <2> QED
    BY <2>3, <2>4 DEF all
<1> QED
  BY <1>1, <1>3, <1>4

\* A clock that is right for a step of the prefetch is right for its end.
LEMMA InShare ==
  /\ elapsed \in 0 .. Deadline /\ elapsed < Budget => elapsed < Budget + Pages * Slow
  /\ elapsed \in 0 .. Deadline /\ page \in 1 .. Pages /\ elapsed < Budget + (page - 1) * Slow =>
       elapsed < Budget + Pages * Slow
<1> SUFFICES ASSUME elapsed \in 0 .. Deadline
             PROVE  /\ elapsed < Budget => elapsed < Budget + Pages * Slow
                    /\ page \in 1 .. Pages /\ elapsed < Budget + (page - 1) * Slow =>
                         elapsed < Budget + Pages * Slow
  OBVIOUS
<1>1. elapsed \in Nat /\ Slow \in Nat /\ Pages * Slow \in Nat /\ Budget \in Nat
  BY Shares, PipelineAssumption
<1>2. ASSUME page \in 1 .. Pages, elapsed < Budget + (page - 1) * Slow
      PROVE  elapsed < Budget + Pages * Slow
  <2> DEFINE before == (page - 1) * Slow
             all == Pages * Slow
  <2>1. before \in Nat /\ all \in Nat /\ before <= all
    BY <1>1, <1>2, Shares
  <2>2. elapsed < Budget + before
    BY <1>2
  <2> HIDE DEF before, all
  <2>3. elapsed < Budget + all
    BY <1>1, <2>1, <2>2
  <2> QED
    BY <2>3 DEF all
<1>3. elapsed < Budget => elapsed < Budget + Pages * Slow
  BY <1>1
<1> QED
  BY <1>2, <1>3

\* The prefetch goes on only within its share of the deadline.
LEMMA WithinBudget ==
  elapsed \in 0 .. Deadline /\ ~WarmsNoMore => elapsed < Budget
BY Shares, PipelineAssumption DEF WarmsNoMore

\* What a setter accepted is a record of its own.
LEMMA ShownIsSomething ==
  ASSUME NEW a, NEW b, NEW c, NEW d, NEW e
  PROVE  [id |-> a, said |-> b, holds |-> c, feed |-> d, at |-> e] # Nothing
<1> DEFINE r == [id |-> a, said |-> b, holds |-> c, feed |-> d, at |-> e]
<1>1. "at" \in DOMAIN r
  OBVIOUS
<1>2. "at" \notin DOMAIN Nothing
  BY DEF Nothing
<1> HIDE DEF r
<1>3. r # Nothing
  BY <1>1, <1>2
<1> QED
  BY <1>3 DEF r

-----------------------------------------------------------------------------
\* Every step keeps the course.
LEMMA CourseStep == Course /\ [PipeNext]_pipeVars => Course'
<1> SUFFICES ASSUME Course, [PipeNext]_pipeVars PROVE Course'
  OBVIOUS
<1>1. CASE Draw
  BY <1>1 DEF Draw, Course, Acts
<1>2. CASE ListDirectory
  BY <1>2 DEF ListDirectory, AskNext, Asks, Course, Acts
<1>3. CASE RefuseSource
  BY <1>3 DEF RefuseSource, AskNext, Asks, Course, Acts
<1>4. CASE AskListing
  BY <1>4 DEF AskListing, AskNext, Asks, Course, Acts
<1>5. CASE ListPage
  BY <1>5 DEF ListPage, Resumes, Course, Acts
<1>6. CASE PageFails
  BY <1>6 DEF PageFails, Resumes, Course, Acts
<1>7. CASE SkipShunned
  BY <1>7 DEF SkipShunned, Course, Acts
<1>8. CASE TakeCandidate
  BY <1>8 DEF TakeCandidate, Course, Acts
<1>9. CASE ServeCached
  BY <1>9 DEF ServeCached, Course, Acts
<1>10. CASE Reference
  BY <1>10 DEF Reference, Ends, Course, Acts
<1>11. CASE Fetched
  BY <1>11 DEF Fetched, Course, Acts
<1>12. CASE BytesFail
  BY <1>12 DEF BytesFail, Course, Acts
<1>13. CASE CacheFails
  BY <1>13 DEF CacheFails, Ends, Course, Acts
<1>14. CASE SetterAccepts
  BY <1>14, ShownIsSomething DEF SetterAccepts, Course, Acts
<1>15. CASE SetterRefuses
  BY <1>15 DEF SetterRefuses, Ends, Course, Acts
<1>16. CASE WalkFails
  BY <1>16 DEF WalkFails, Ends, Course, Acts
<1>17. CASE EndWarm
  BY <1>17 DEF EndWarm, Ends, Course, Acts
<1>18. CASE NothingToWarm
  BY <1>18 DEF NothingToWarm, Course, Acts
<1>19. CASE WarmCandidate
  BY <1>19 DEF WarmCandidate, Course, Acts
<1>20. CASE WarmedOne
  BY <1>20 DEF WarmedOne, Course, Acts
<1>21. CASE WarmStops
  BY <1>21 DEF WarmStops, Ends, Course, Acts
<1>22. CASE DeadlineKills
  BY <1>22 DEF DeadlineKills, Course, Acts
<1>23. CASE UNCHANGED pipeVars
  BY <1>23 DEF pipeVars, Course
<1> QED
  BY <1>1, <1>2, <1>3, <1>4, <1>5, <1>6, <1>7, <1>8, <1>9, <1>10, <1>11, <1>12, <1>13,
      <1>14, <1>15, <1>16, <1>17, <1>18, <1>19, <1>20, <1>21, <1>22, <1>23
    DEF PipeNext

\* Every step keeps the reasons.
LEMMA ReasonsStep == Course /\ Reasons /\ [PipeNext]_pipeVars => Reasons'
<1> SUFFICES ASSUME Course /\ Reasons, [PipeNext]_pipeVars PROVE Reasons'
  OBVIOUS
<1>1. CASE Draw
  BY <1>1 DEF Draw, walk, tally, record, Course, Reasons
<1>2. CASE ListDirectory
  BY <1>2 DEF ListDirectory, AskNext, Asks, walk, tally, record, Course, Reasons
<1>3. CASE RefuseSource
  BY <1>3 DEF RefuseSource, AskNext, Asks, walk, tally, record, Course, Reasons
<1>4. CASE AskListing
  BY <1>4 DEF AskListing, AskNext, Asks, walk, tally, record, Course, Reasons
<1>5. CASE ListPage
  BY <1>5 DEF ListPage, Resumes, walk, tally, record, Course, Reasons
<1>6. CASE PageFails
  BY <1>6 DEF PageFails, Resumes, walk, tally, record, Course, Reasons
<1>7. CASE SkipShunned
  BY <1>7 DEF SkipShunned, walk, tally, record, Course, Reasons
<1>8. CASE TakeCandidate
  BY <1>8 DEF TakeCandidate, walk, tally, record, Course, Reasons
<1>9. CASE ServeCached
  BY <1>9 DEF ServeCached, walk, tally, record, Course, Reasons
<1>10. CASE Reference
  BY <1>10 DEF Reference, Ends, walk, tally, record, Course, Reasons
<1>11. CASE Fetched
  BY <1>11 DEF Fetched, walk, tally, record, Course, Reasons
<1>12. CASE BytesFail
  <2> DEFINE mark == <<hand.id, "bytes">>
  <2>1. failed' = failed \cup {mark} /\ mark[2] = "bytes"
    BY <1>12 DEF BytesFail, FailsOn
  <2>2. spoilt' = TRUE /\ UNCHANGED <<refusals, outcome>> /\ act = "fill"
    BY <1>12 DEF BytesFail
  <2>3. outcome = "none"
    BY <2>2 DEF Course
  <2> HIDE DEF mark
  <2> QED
    BY <2>1, <2>2, <2>3 DEF Reasons
<1>13. CASE CacheFails
  BY <1>13 DEF CacheFails, Ends, walk, tally, record, Course, Reasons
<1>14. CASE SetterAccepts
  BY <1>14 DEF SetterAccepts, walk, tally, record, Course, Reasons
<1>15. CASE SetterRefuses
  <2> DEFINE mark == <<hand.id, "setter">>
  <2>1. failed' = failed \cup {mark} /\ mark[2] = "setter"
    BY <1>15 DEF SetterRefuses, FailsOn
  <2>2. /\ refusals' = refusals + 1 /\ spoilt' = spoilt /\ act = "set"
        /\ outcome' = outcome \/ outcome' = "set_failed"
    BY <1>15 DEF SetterRefuses, Ends, walk
  <2>3. outcome = "none"
    BY <2>2 DEF Course
  <2> HIDE DEF mark
  <2> QED
    BY <2>1, <2>2, <2>3 DEF Reasons
<1>16. CASE WalkFails
  BY <1>16 DEF WalkFails, Ends, walk, tally, record, Course, Reasons
<1>17. CASE EndWarm
  BY <1>17 DEF EndWarm, Ends, walk, tally, record, Course, Reasons
<1>18. CASE NothingToWarm
  BY <1>18 DEF NothingToWarm, walk, tally, record, Course, Reasons
<1>19. CASE WarmCandidate
  BY <1>19 DEF WarmCandidate, walk, tally, record, Course, Reasons
<1>20. CASE WarmedOne
  BY <1>20 DEF WarmedOne, walk, tally, record, Course, Reasons
<1>21. CASE WarmStops
  BY <1>21 DEF WarmStops, Ends, walk, tally, record, Course, Reasons
<1>22. CASE DeadlineKills
  BY <1>22 DEF DeadlineKills, walk, tally, record, Course, Reasons
<1>23. CASE UNCHANGED pipeVars
  BY <1>23 DEF pipeVars, Reasons
<1> QED
  BY <1>1, <1>2, <1>3, <1>4, <1>5, <1>6, <1>7, <1>8, <1>9, <1>10, <1>11, <1>12, <1>13,
      <1>14, <1>15, <1>16, <1>17, <1>18, <1>19, <1>20, <1>21, <1>22, <1>23
    DEF PipeNext

\* Every step keeps the clock.
LEMMA ClockStep == Course /\ Clock /\ [PipeNext]_pipeVars => Clock'
<1> SUFFICES ASSUME Course /\ Clock, [PipeNext]_pipeVars PROVE Clock'
  OBVIOUS
<1>1. CASE Draw
  BY <1>1, Shares DEF Draw, AtOnce, walk, Course, Clock, MadeInTime
<1>2. CASE ListDirectory
  BY <1>2, Request, WithinBudget
    DEF ListDirectory, AskNext, Asks, walk, Course, Clock, MadeInTime
<1>3. CASE RefuseSource
  BY <1>3, Request, WithinBudget
    DEF RefuseSource, AskNext, Asks, walk, Course, Clock, MadeInTime
<1>4. CASE AskListing
  BY <1>4, Shares, PipelineAssumption
    DEF AskListing, AskNext, Asks, AtOnce, WarmsNoMore, walk, Course, Clock, MadeInTime
<1>5. CASE ListPage
  BY <1>5, Request, PipelineAssumption DEF ListPage, Resumes, walk, Course, Clock, MadeInTime
<1>6. CASE PageFails
  BY <1>6, Request DEF PageFails, Resumes, walk, Course, Clock, MadeInTime
<1>7. CASE SkipShunned
  BY <1>7, Shares DEF SkipShunned, AtOnce, WarmsNoMore, walk, Course, Clock, MadeInTime
<1>8. CASE TakeCandidate
  BY <1>8, Shares DEF TakeCandidate, AtOnce, walk, Course, Clock, MadeInTime
<1>9. CASE ServeCached
  BY <1>9, Request DEF ServeCached, walk, Course, Clock, MadeInTime
<1>10. CASE Reference
  BY <1>10, Request DEF Reference, Ends, walk, Course, Clock, MadeInTime
<1>11. CASE Fetched
  BY <1>11, Request DEF Fetched, walk, Course, Clock, MadeInTime
<1>12. CASE BytesFail
  BY <1>12, Request DEF BytesFail, walk, Course, Clock, MadeInTime
<1>13. CASE CacheFails
  BY <1>13, Request DEF CacheFails, Ends, walk, Course, Clock, MadeInTime
<1>14. CASE SetterAccepts
  <2>1. elapsed' \in 0 .. Deadline /\ act' = "warm" /\ shown'.at = elapsed'
    BY <1>14, Request DEF SetterAccepts, Clock
  <2> QED
    BY <2>1, Shares, PipelineAssumption DEF Clock, MadeInTime
<1>15. CASE SetterRefuses
  BY <1>15, Request DEF SetterRefuses, Ends, walk, Course, Clock, MadeInTime
<1>16. CASE WalkFails
  BY <1>16, Shares DEF WalkFails, Ends, AtOnce, walk, Course, Clock, MadeInTime
<1>17. CASE EndWarm
  BY <1>17, Shares DEF EndWarm, Ends, AtOnce, WarmsNoMore, walk, Course, Clock, MadeInTime
<1>18. CASE NothingToWarm
  BY <1>18, Request, WithinBudget DEF NothingToWarm, walk, Course, Clock, MadeInTime
<1>19. CASE WarmCandidate
  BY <1>19, Shares DEF WarmCandidate, AtOnce, WarmsNoMore, walk, Course, Clock, MadeInTime
<1>20. CASE WarmedOne
  BY <1>20, Request DEF WarmedOne, walk, Course, Clock, MadeInTime
<1>21. CASE WarmStops
  BY <1>21, Request DEF WarmStops, Ends, walk, Course, Clock, MadeInTime
<1>22. CASE DeadlineKills
  BY <1>22, InShare DEF DeadlineKills, Acts, walk, Course, Clock, MadeInTime
<1>23. CASE UNCHANGED pipeVars
  BY <1>23 DEF pipeVars, Clock, MadeInTime
<1> QED
  BY <1>1, <1>2, <1>3, <1>4, <1>5, <1>6, <1>7, <1>8, <1>9, <1>10, <1>11, <1>12, <1>13,
      <1>14, <1>15, <1>16, <1>17, <1>18, <1>19, <1>20, <1>21, <1>22, <1>23
    DEF PipeNext

\* The course, the reasons and the clock hold at every step of a rotation (pipeline.rs).
THEOREM PipeInvHolds == PipeSpec => []PipeInv
<1>1. PipeInit => PipeInv
  BY Shares, PipelineAssumption
  DEF PipeInit, PipeInv, Course, Reasons, Clock, MadeInTime, Acts, Nothing
<1>2. PipeInv /\ [PipeNext]_pipeVars => PipeInv'
  BY CourseStep, ReasonsStep, ClockStep DEF PipeInv
<1> QED
  BY <1>1, <1>2, PTL DEF PipeSpec

\* The code a rotation ends with names what its candidates did, for any sources and offers:
\* ok an image shown, whatever the prefetch met, set_failed a refusal, the bytes' own code
\* failures of bytes alone, no_candidates that none that was tried has failed, the last two
\* with nothing left to ask (pipeline.rs: rotate, warm). A source that cannot be listed is
\* one without candidates here as there.
THEOREM OutcomeHonest == PipeSpec => []OutcomeIsHonest
<1>1. PipeInv => OutcomeIsHonest
  BY DEF PipeInv, Course, Reasons, OutcomeIsHonest
<1> QED
  BY <1>1, PipeInvHolds, PTL

\* A set made within the first half of the deadline is not lost to its prefetch, whatever
\* requests take, when the deadline is twice the longest listing (pipeline.rs: warm,
\* PREFETCH_DEADLINE_DIVISOR).
THEOREM PrefetchIsBounded == PipeSpec => []PrefetchKeepsTheSet
<1>1. PipeInv => PrefetchKeepsTheSet
  <2> SUFFICES ASSUME PipeInv, act = "killed", shown # Nothing, 2 * Pages * Slow <= Deadline
               PROVE  shown.at >= Budget
    BY DEF PrefetchKeepsTheSet
  <2>1. elapsed = Deadline /\ shown.at \in Nat /\ (shown.at < Budget => elapsed < Budget + Pages * Slow)
    BY DEF PipeInv, Clock, MadeInTime
  <2>2. Deadline \in Nat /\ Budget \in Nat /\ Pages * Slow \in Nat
    BY Shares, PipelineAssumption
  <2>3. 2 * Pages * Slow = 2 * (Pages * Slow)
    BY PipelineAssumption
  <2>4. 2 * Budget <= Deadline
    BY <2>2 DEF Budget
  <2> QED
    BY <2>1, <2>2, <2>3, <2>4
<1> QED
  BY <1>1, PipeInvHolds, PTL

-----------------------------------------------------------------------------
\* What is asked once: the sources asked and the ones still to be asked are different, and
\* a candidate in hand has not failed in the walk, as `bad` has all that have.
Apart(s, t) == /\ s \in Seq(Feeds) /\ t \in Seq(Feeds)
               /\ IsInjective(s) /\ IsInjective(t)
               /\ \A i \in DOMAIN s, j \in DOMAIN t : s[i] # t[j]
Once ==
  /\ Apart(inquired, turn)
  /\ act = "draw" => inquired = <<>>
  /\ act \in {"fill", "fetch"} => hand.id \notin shunned
  /\ \A f \in failed : f[1] \in shunned
  /\ ~retried

\* The head of what is left becomes the last of what was asked.
LEMMA NextIsApart ==
  ASSUME NEW s, NEW t, Apart(s, t), t # <<>>
  PROVE  Apart(Append(s, Head(t)), Tail(t))
<1> DEFINE n == Len(s)  m == Len(t)
           u == Append(s, Head(t))  r == Tail(t)
<1>1. /\ s \in Seq(Feeds) /\ t \in Seq(Feeds) /\ n \in Nat /\ m \in Nat /\ m > 0
      /\ DOMAIN s = 1 .. n /\ DOMAIN t = 1 .. m
  BY LenProperties, EmptySeq DEF Apart
<1>2. /\ r \in Seq(Feeds) /\ DOMAIN r = 1 .. m - 1 /\ \A j \in 1 .. m - 1 : r[j] = t[j + 1]
      /\ Head(t) = t[1] /\ Head(t) \in Feeds
  BY <1>1, HeadTailProperties, LenProperties
<1>3. /\ u \in Seq(Feeds) /\ DOMAIN u = 1 .. n + 1 /\ u[n + 1] = t[1]
      /\ \A i \in 1 .. n : u[i] = s[i]
  BY <1>1, <1>2, AppendProperties, LenProperties
<1> HIDE DEF n, m, u, r
<1>4. IsInjective(u)
  <2> SUFFICES ASSUME NEW i \in 1 .. n + 1, NEW j \in 1 .. n + 1, u[i] = u[j] PROVE i = j
    BY <1>3 DEF IsInjective
  <2>1. \A k \in 1 .. n : s[k] # t[1]
    BY <1>1 DEF Apart
  <2>2. \A k, l \in 1 .. n : s[k] = s[l] => k = l
    BY <1>1 DEF Apart, IsInjective
  <2> QED BY <1>1, <1>3, <2>1, <2>2
<1>5. IsInjective(r)
  <2> SUFFICES ASSUME NEW i \in 1 .. m - 1, NEW j \in 1 .. m - 1, r[i] = r[j] PROVE i = j
    BY <1>2 DEF IsInjective
  <2>1. \A k, l \in 1 .. m : t[k] = t[l] => k = l
    BY <1>1 DEF Apart, IsInjective
  <2>2. t[i + 1] = t[j + 1] /\ i + 1 \in 1 .. m /\ j + 1 \in 1 .. m
    BY <1>1, <1>2
  <2>3. i + 1 = j + 1
    BY <2>1, <2>2
  <2> QED BY <2>3
<1>6. ASSUME NEW i \in 1 .. n + 1, NEW j \in 1 .. m - 1 PROVE u[i] # r[j]
  <2>1. r[j] = t[j + 1] /\ j + 1 \in 1 .. m /\ j + 1 # 1 /\ 1 \in 1 .. m
    BY <1>1, <1>2
  <2>2. CASE i = n + 1
    <3>1. t[1] # t[j + 1]
      BY <1>1, <2>1 DEF Apart, IsInjective
    <3> QED BY <1>3, <2>1, <2>2, <3>1
  <2>3. CASE i \in 1 .. n
    BY <1>1, <1>3, <2>1, <2>3 DEF Apart
  <2> QED BY <1>1, <2>2, <2>3
<1> QED
  BY <1>2, <1>3, <1>4, <1>5, <1>6 DEF Apart, u, r

\* A source has one place in an order.
LEMMA OrdersAreApart ==
  ASSUME NEW w, NEW drawn, NEW order \in WeightedOrders(w, drawn)
  PROVE  Apart(<<>>, order)
<1> DEFINE E == {f \in Feeds : w[f] > 0}
           n == Cardinality(E)
<1>1. n \in Nat /\ E \subseteq Feeds
  BY PipelineAssumption, FS_Subset, FS_CardinalityType
<1>2. order \in [1 .. n -> E] /\ \A i, j \in 1 .. n : i # j => order[i] # order[j]
  BY DEF WeightedOrders, SetToSeqs
<1> HIDE DEF E, n
<1>3. order \in Seq(Feeds) /\ DOMAIN order = 1 .. n
  <2>1. order \in [1 .. n -> Feeds]
    BY <1>1, <1>2
  <2> QED BY <1>1, <2>1, SeqDef
<1>4. IsInjective(order)
  BY <1>2, <1>3 DEF IsInjective
<1>5. <<>> \in Seq(Feeds) /\ DOMAIN <<>> = {}
  OBVIOUS
<1> QED
  BY <1>3, <1>4, <1>5 DEF Apart, IsInjective

\* Every step asks for what was not asked for, or for nothing.
LEMMA OnceStep == Once /\ [PipeNext]_pipeVars => Once'
<1> SUFFICES ASSUME Once, [PipeNext]_pipeVars PROVE Once'
  OBVIOUS
<1>1. CASE Draw
  <2>1. PICK w \in [Feeds -> Weights] : \E d \in 0 .. WeightOf(w, Feeds) : turn' \in WeightedOrders(w, d)
    BY <1>1 DEF Draw
  <2>2. Apart(<<>>, turn')
    BY <2>1, OrdersAreApart
  <2>3. /\ inquired' = <<>> /\ act' = "walk"
        /\ UNCHANGED <<failed, shunned, retried>>
    BY <1>1 DEF Draw, record, tally, Once
  <2> QED BY <2>2, <2>3 DEF Once
<1>2. ASSUME AskNext, act' \in {"walk", "warm", "list"} PROVE Once'
  <2>1. /\ turn # <<>> /\ turn' = Tail(turn) /\ inquired' = Append(inquired, Head(turn))
        /\ UNCHANGED <<failed, shunned, retried>>
    BY <1>2 DEF AskNext, Asks, tally
  <2>2. Apart(inquired', turn')
    BY <2>1, NextIsApart DEF Once
  <2> QED BY <1>2, <2>1, <2>2 DEF Once
<1>3. CASE ListDirectory
  BY <1>2, <1>3 DEF ListDirectory, AskNext, Asks
<1>4. CASE RefuseSource
  BY <1>2, <1>4 DEF RefuseSource, AskNext, Asks
<1>5. CASE AskListing
  BY <1>2, <1>5 DEF AskListing
\* No other step asks a source.
<1>6. ASSUME turn' = turn, inquired' = inquired, act' # "draw",
             act' \in {"fill", "fetch"} => hand'.id \notin shunned',
             \A f \in failed' : f[1] \in shunned',
             retried' = retried \/ (Opening /\ act \in {"fill", "fetch"})
      PROVE  Once'
  <2>1. Apart(inquired', turn')
    BY <1>6 DEF Once
  <2>2. ~retried'
    BY <1>6 DEF Once, Opening
  <2> QED BY <1>6, <2>1, <2>2 DEF Once
<1>7. CASE ListPage
  BY <1>6, <1>7 DEF ListPage, Resumes, record, walk, tally, Once
<1>8. CASE PageFails
  BY <1>6, <1>8 DEF PageFails, Resumes, record, walk, tally, Once
<1>9. CASE SkipShunned
  BY <1>6, <1>9 DEF SkipShunned, record, walk, tally, Once
<1>10. CASE TakeCandidate
  BY <1>6, <1>10 DEF TakeCandidate, record, tally, walk, Once
<1>11. CASE ServeCached
  BY <1>6, <1>11 DEF ServeCached, record, walk, tally, Once
<1>12. CASE Reference
  BY <1>6, <1>12 DEF Reference, Ends, walk, tally, record, Once
<1>13. CASE Fetched
  BY <1>6, <1>13 DEF Fetched, walk, tally, record, Once
<1>14. CASE BytesFail
  BY <1>6, <1>14 DEF BytesFail, FailsOn, walk, tally, record, Once
<1>15. CASE CacheFails
  BY <1>6, <1>15 DEF CacheFails, Ends, walk, tally, record, Once
<1>16. CASE SetterAccepts
  BY <1>6, <1>16 DEF SetterAccepts, walk, record, tally, Once
<1>17. CASE SetterRefuses
  BY <1>6, <1>17 DEF SetterRefuses, FailsOn, Ends, walk, record, tally, Once
<1>18. CASE WalkFails
  BY <1>6, <1>18 DEF WalkFails, Ends, walk, record, tally, Once
<1>19. CASE EndWarm
  BY <1>6, <1>19 DEF EndWarm, Ends, walk, record, tally, Once
<1>20. CASE NothingToWarm
  BY <1>6, <1>20 DEF NothingToWarm, record, walk, tally, Once
<1>21. CASE WarmCandidate
  BY <1>6, <1>21 DEF WarmCandidate, tally, record, walk, Once
<1>22. CASE WarmedOne
  BY <1>6, <1>22 DEF WarmedOne, walk, tally, record, Once
<1>23. CASE WarmStops
  BY <1>6, <1>23 DEF WarmStops, Ends, walk, tally, record, Once
<1>24. CASE DeadlineKills
  BY <1>6, <1>24 DEF DeadlineKills, walk, record, tally, Once
<1>25. CASE UNCHANGED pipeVars
  BY <1>25 DEF pipeVars, Once
<1> QED
  BY <1>1, <1>3, <1>4, <1>5, <1>7, <1>8, <1>9, <1>10, <1>11, <1>12, <1>13, <1>14, <1>15, <1>16,
     <1>17, <1>18, <1>19, <1>20, <1>21, <1>22, <1>23, <1>24, <1>25 DEF PipeNext

\* No source is enumerated twice in a run, the prefetch included, and no candidate that
\* failed on its bytes or was refused by the setter in the walk of rotate is tried again, by
\* that walk or by the prefetch, whatever is offered and by however many sources
\* (pipeline.rs: rotate, fill, warm). What fails in the prefetch is not covered.
THEOREM NothingAskedTwice == PipeSpec => []NothingTwice
<1>1. PipeInit => Once
  <2>1. Apart(<<>>, <<>>)
    BY DEF Apart, IsInjective
  <2> QED BY <2>1 DEF PipeInit, Once
<1>2. Once => NothingTwice
  BY DEF Once, Apart, NothingTwice
<1> QED
  BY OnceStep, <1>1, <1>2, PTL DEF PipeSpec

-----------------------------------------------------------------------------
(* LocalSource *)

\* Sequences: their elements, and what a push, a pop and an append leave of them.
LEMMA ElementsOf == \A S : \A s \in Seq(S) : \A i \in DOMAIN s : s[i] \in S
OBVIOUS

LEMMA PushFacts ==
  ASSUME NEW S, NEW s \in Seq(S), NEW x \in S
  PROVE  /\ <<x>> \o s \in Seq(S) /\ DOMAIN (<<x>> \o s) = 1 .. Len(s) + 1
         /\ (<<x>> \o s)[1] = x /\ \A i \in DOMAIN s : (<<x>> \o s)[i + 1] = s[i]
         /\ \A i \in 2 .. Len(s) + 1 : i - 1 \in DOMAIN s /\ (<<x>> \o s)[i] = s[i - 1]
OBVIOUS

LEMMA TailFacts ==
  ASSUME NEW S, NEW s \in Seq(S), s # <<>>
  PROVE  /\ Tail(s) \in Seq(S) /\ Head(s) \in S /\ Head(s) = s[1] /\ 1 \in DOMAIN s
         /\ \A i \in DOMAIN Tail(s) : i + 1 \in DOMAIN s /\ Tail(s)[i] = s[i + 1] /\ i + 1 # 1
         /\ \A i \in DOMAIN s : i = 1 \/ (i - 1 \in DOMAIN Tail(s) /\ Tail(s)[i - 1] = s[i])
OBVIOUS

LEMMA TailRange ==
  ASSUME NEW S, NEW s \in Seq(S), s # <<>>
  PROVE  /\ Range(s) = {Head(s)} \cup Range(Tail(s))
         /\ IsInjective(s) => IsInjective(Tail(s)) /\ Head(s) \notin Range(Tail(s))
<1>1. Range(s) = {Head(s)} \cup Range(Tail(s))
  <2>1. ASSUME NEW i \in DOMAIN s PROVE s[i] \in {Head(s)} \cup Range(Tail(s))
    <3>1. i = 1 \/ (i - 1 \in DOMAIN Tail(s) /\ Tail(s)[i - 1] = s[i])
      BY TailFacts
    <3>2. Head(s) = s[1]
      BY TailFacts
    <3> QED BY <3>1, <3>2 DEF Range
  <2>2. ASSUME NEW i \in DOMAIN Tail(s) PROVE Tail(s)[i] \in Range(s)
    <3>1. i + 1 \in DOMAIN s /\ Tail(s)[i] = s[i + 1]
      BY TailFacts
    <3> QED BY <3>1 DEF Range
  <2>3. Head(s) \in Range(s)
    BY TailFacts DEF Range
  <2> QED BY <2>1, <2>2, <2>3 DEF Range
<1>2. ASSUME IsInjective(s) PROVE IsInjective(Tail(s)) /\ Head(s) \notin Range(Tail(s))
  <2>1. ASSUME NEW i \in DOMAIN Tail(s), NEW j \in DOMAIN Tail(s), Tail(s)[i] = Tail(s)[j] PROVE i = j
    <3>1. i + 1 \in DOMAIN s /\ j + 1 \in DOMAIN s /\ s[i + 1] = s[j + 1] /\ i \in Nat /\ j \in Nat
      BY <2>1, TailFacts
    <3>2. i + 1 = j + 1
      BY <1>2, <3>1 DEF IsInjective
    <3> QED BY <3>1, <3>2
  <2>2. ASSUME NEW i \in DOMAIN Tail(s), Tail(s)[i] = Head(s) PROVE FALSE
    <3>1. i + 1 \in DOMAIN s /\ s[i + 1] = s[1] /\ 1 \in DOMAIN s /\ i + 1 # 1
      BY <2>2, TailFacts
    <3> QED BY <1>2, <3>1 DEF IsInjective
  <2> QED BY <2>1, <2>2 DEF IsInjective, Range
<1> QED
  BY <1>1, <1>2

LEMMA AppendFacts ==
  ASSUME NEW S, NEW s \in Seq(S), NEW x \in S
  PROVE  /\ Append(s, x) \in Seq(S) /\ Len(Append(s, x)) = Len(s) + 1 /\ Last(Append(s, x)) = x
         /\ DOMAIN Append(s, x) = DOMAIN s \cup {Len(s) + 1} /\ Len(s) + 1 \notin DOMAIN s
         /\ Append(s, x)[Len(s) + 1] = x /\ \A i \in DOMAIN s : Append(s, x)[i] = s[i]
BY DEF Last

LEMMA AppendOnce ==
  ASSUME NEW S, NEW s \in Seq(S), NEW x \in S, IsInjective(s), x \notin Range(s)
  PROVE  IsInjective(Append(s, x)) /\ Range(Append(s, x)) = Range(s) \cup {x}
BY AppendFacts DEF IsInjective, Range

\* Contains of the community modules, as a range.
LEMMA Within == \A S : \A s \in Seq(S) : \A x : Contains(s, x) <=> x \in Range(s)
BY DEF Contains, Range

\* A directory being walked, and the types of the walk.
Frames == [path : Seq(Nodes), level : Nat, left : Seq(Nodes)]

WalkTypes ==
  /\ tree \in FileSystems /\ follow \in BOOLEAN /\ recursive \in BOOLEAN /\ depth \in Nat
  /\ roots \in Seq(Nodes) /\ rootsLeft \in Seq(Nodes) /\ stack \in Seq(Frames)
  /\ visited \subseteq Nodes /\ blind \in BOOLEAN /\ listed \in Seq(Nodes)
  /\ found \in Seq(Seq(Nodes)) /\ lost \in BOOLEAN
  /\ walkAct \in {"idle", "validate", "walk", "done", "refused"}
  /\ walkAct = "idle" => roots = <<>>
  /\ walkAct # "idle" => tree \in Trees
  /\ walkAct \in {"idle", "validate"} => /\ stack = <<>> /\ found = <<>> /\ listed = <<>>
                                         /\ visited = {}
  /\ walkAct = "done" => stack = <<>> /\ rootsLeft = <<>>

\* Taking the next entry changes the innermost directory only, and leaves it without it.
LEMMA OnwardFacts ==
  ASSUME NEW s \in Seq(Frames), s # <<>>, Head(s).left # <<>>
  PROVE  LET entry == Head(Head(s).left)
             on == <<[Head(s) EXCEPT !.left = Tail(@)]>> \o Tail(s)
         IN  /\ entry \in Nodes /\ on \in Seq(Frames) /\ DOMAIN on = DOMAIN s /\ 1 \in DOMAIN s
             /\ \A j \in DOMAIN s : /\ on[j].path = s[j].path /\ on[j].level = s[j].level
                                    /\ j # 1 => on[j] = s[j]
             /\ Head(s) = s[1] /\ on[1].left = Tail(s[1].left)
             /\ Range(s[1].left) = {entry} \cup Range(on[1].left)
             /\ IsInjective(s[1].left) => IsInjective(on[1].left) /\ entry \notin Range(on[1].left)
<1> DEFINE top == [Head(s) EXCEPT !.left = Tail(@)]
           entry == Head(Head(s).left)
           on == <<top>> \o Tail(s)
<1>1. Head(s) \in Frames /\ Head(s) = s[1] /\ 1 \in DOMAIN s /\ Tail(s) \in Seq(Frames)
  BY TailFacts
<1>2. Head(s).left \in Seq(Nodes)
  BY <1>1 DEF Frames
<1>3. entry \in Nodes /\ Tail(Head(s).left) \in Seq(Nodes)
  BY <1>2, TailFacts
<1>4. /\ top \in Frames /\ top.path = s[1].path /\ top.level = s[1].level /\ top.left = Tail(s[1].left)
  BY <1>1, <1>3 DEF Frames
<1> HIDE DEF top
<1>5. on \in Seq(Frames) /\ DOMAIN on = 1 .. Len(Tail(s)) + 1 /\ on[1] = top
  BY <1>1, <1>4, PushFacts
<1>6. \A i \in 2 .. Len(Tail(s)) + 1 : i - 1 \in DOMAIN Tail(s) /\ on[i] = Tail(s)[i - 1]
  BY <1>1, <1>4, PushFacts
<1> HIDE DEF on
<1>7. Len(Tail(s)) + 1 = Len(s) /\ DOMAIN s = 1 .. Len(s) /\ Len(s) \in Nat
  BY SMT
<1>8. \A j \in DOMAIN s : j # 1 => on[j] = s[j]
  <2> TAKE j \in DOMAIN s
  <2>1. ASSUME j # 1 PROVE on[j] = s[j]
    <3>1. j \in 2 .. Len(Tail(s)) + 1
      BY <1>7, <2>1
    <3>2. on[j] = Tail(s)[j - 1]
      BY <1>6, <3>1
    <3> QED BY <2>1, <3>2, TailFacts
  <2> QED BY <2>1
<1>9. /\ Range(s[1].left) = {entry} \cup Range(Tail(s[1].left))
      /\ IsInjective(s[1].left) => IsInjective(Tail(s[1].left)) /\ entry \notin Range(Tail(s[1].left))
  BY <1>1, <1>2, TailRange
<1>10. DOMAIN on = DOMAIN s
  BY <1>5, <1>7
<1>11. \A j \in DOMAIN s : on[j].path = s[j].path /\ on[j].level = s[j].level
  BY <1>4, <1>5, <1>8
<1>12. on[1].left = Tail(s[1].left)
  BY <1>4, <1>5
<1> QED
  BY <1>1, <1>3, <1>5, <1>8, <1>9, <1>10, <1>11, <1>12 DEF top, on

\* What a file system gives of a node.
LEMMA RealFacts ==
  ASSUME tree \in FileSystems
  PROVE  /\ \A n \in Nodes : KindOf(n) = "dir" => Real(n) \in Nodes
         /\ \A n \in Nodes : tree.kind[n] \in NodeKinds /\ tree.inside[n] \in Seq(Nodes)
         /\ \A n \in Nodes : tree.kind[n] # "link" => Real(n) = n /\ KindOf(n) = tree.kind[n]
<1>1. /\ tree.kind \in [Nodes -> NodeKinds] /\ tree.inside \in [Nodes -> Seq(Nodes)]
      /\ tree.to \in [Nodes -> Nodes \cup {Nowhere}] /\ Nowhere \notin Nodes
  BY LocalAssumption DEF FileSystems
<1> QED
  BY <1>1 DEF KindOf, Real, NodeKinds

\* The frame of a directory that has been read.
Opened(real, path, level) == [path |-> path, level |-> level, left |-> tree.inside[real]]

\* walk on a directory: too deep, unreadable, or opened.
LEMMA EntersFacts ==
  ASSUME WalkTypes, NEW rest \in Seq(Frames), NEW read \in Seq(Nodes), NEW real \in Nodes,
         NEW path \in Seq(Nodes), NEW level \in Nat, Enters(rest, read, real, path, level)
  PROVE  /\ \/ level > depth /\ stack' = rest /\ listed' = read /\ lost' = lost
            \/ level <= depth /\ listed' = Append(read, real) /\ stack' = rest /\ lost' = TRUE
            \/ /\ level <= depth /\ listed' = Append(read, real) /\ lost' = lost
               /\ stack' = <<Opened(real, path, level)>> \o rest
         /\ Opened(real, path, level) \in Frames
         /\ stack' \in Seq(Frames) /\ listed' \in Seq(Nodes) /\ lost' \in BOOLEAN
<1>1. Opened(real, path, level) \in Frames
  BY RealFacts DEF Opened, Frames, WalkTypes
<1>2. \/ level > depth /\ stack' = rest /\ listed' = read /\ lost' = lost
      \/ level <= depth /\ listed' = Append(read, real) /\ stack' = rest /\ lost' = TRUE
      \/ /\ level <= depth /\ listed' = Append(read, real) /\ lost' = lost
         /\ stack' = <<Opened(real, path, level)>> \o rest
  BY DEF Enters, Opened
<1>3. <<Opened(real, path, level)>> \o rest \in Seq(Frames) /\ Append(read, real) \in Seq(Nodes)
  BY <1>1, PushFacts, AppendFacts
<1>4. lost \in BOOLEAN
  BY DEF WalkTypes
<1> QED
  BY <1>1, <1>2, <1>3, <1>4

\* Where the walk stands, and what is left of it once its next entry is taken.
LEMMA WalkingFacts ==
  ASSUME WalkTypes, Walking
  PROVE  /\ Onward \in Seq(Frames) /\ DOMAIN Onward = DOMAIN stack /\ 1 \in DOMAIN stack
         /\ \A j \in DOMAIN stack : /\ Onward[j].path = stack[j].path /\ Onward[j].level = stack[j].level
                                    /\ j # 1 => Onward[j] = stack[j]
         /\ Range(stack[1].left) = {Entry} \cup Range(Onward[1].left)
         /\ IsInjective(stack[1].left) => IsInjective(Onward[1].left) /\ Entry \notin Range(Onward[1].left)
         /\ Entry \in Nodes /\ Head(stack) = stack[1] /\ stack[1] \in Frames
         /\ Here = Append(stack[1].path, Entry) /\ Here \in Seq(Nodes) /\ stack[1].path \in Seq(Nodes)
         /\ tree \in Trees /\ walkAct = "walk"
<1>1. stack \in Seq(Frames) /\ stack # <<>> /\ Head(stack).left # <<>> /\ walkAct = "walk"
  BY DEF WalkTypes, Walking
<1>2. Head(stack) = stack[1] /\ stack[1] \in Frames /\ 1 \in DOMAIN stack
  BY <1>1, TailFacts
<1>3. stack[1].path \in Seq(Nodes)
  BY <1>2 DEF Frames
<1>4. Entry \in Nodes /\ Onward \in Seq(Frames)
  BY <1>1, OnwardFacts DEF Entry, Onward
<1>5. Here = Append(stack[1].path, Entry) /\ Here \in Seq(Nodes)
  BY <1>2, <1>3, <1>4, AppendFacts DEF Here
<1>6. tree \in Trees
  BY <1>1 DEF WalkTypes
<1> QED
  BY <1>1, <1>2, <1>3, <1>4, <1>5, <1>6, OnwardFacts DEF Entry, Onward

\* Every step keeps the types.
LEMMA WalkTypesStep == WalkTypes /\ [LocalNext]_localVars => WalkTypes'
<1> SUFFICES ASSUME WalkTypes, [LocalNext]_localVars PROVE WalkTypes'
  OBVIOUS
<1>1. CASE UNCHANGED localVars
  BY <1>1 DEF localVars, WalkTypes
<1>2. CASE Configured
  BY <1>2, LocalAssumption DEF Configured, WalkTypes
<1>3. CASE Validate
  BY <1>3 DEF Validate, options, WalkTypes
<1>4. CASE NextRoot
  <2>1. /\ walkAct = "walk" /\ rootsLeft # <<>> /\ rootsLeft' = Tail(rootsLeft) /\ stack = <<>>
        /\ RootWalks(Head(rootsLeft)) /\ visited' \subseteq {Real(Head(rootsLeft))} /\ blind' \in BOOLEAN
        /\ Enters(<<>>, <<>>, Real(Head(rootsLeft)), <<Head(rootsLeft)>>, 1)
        /\ UNCHANGED <<tree, roots, follow, recursive, depth, found, walkAct>>
    BY <1>4 DEF NextRoot, options
  <2>2. /\ rootsLeft \in Seq(Nodes) /\ Head(rootsLeft) \in Nodes /\ Tail(rootsLeft) \in Seq(Nodes)
        /\ tree \in FileSystems
    BY <2>1, TailFacts DEF WalkTypes
  <2>3. Real(Head(rootsLeft)) \in Nodes
    BY <2>1, <2>2, RealFacts DEF RootWalks
  <2>4. stack' \in Seq(Frames) /\ listed' \in Seq(Nodes) /\ lost' \in BOOLEAN
    <3>1. <<>> \in Seq(Frames) /\ <<>> \in Seq(Nodes) /\ <<Head(rootsLeft)>> \in Seq(Nodes) /\ 1 \in Nat
      BY <2>2
    <3> QED BY <2>1, <2>3, <3>1, EntersFacts
  <2> QED BY <2>1, <2>2, <2>3, <2>4 DEF WalkTypes
<1>5. CASE SkipRoot
  <2>1. rootsLeft # <<>> /\ rootsLeft' = Tail(rootsLeft) /\ walkAct = "walk"
        /\ UNCHANGED <<tree, roots, follow, recursive, depth, stack, visited, blind, listed, found, lost, walkAct>>
    BY <1>5 DEF SkipRoot, options
  <2>2. rootsLeft \in Seq(Nodes) /\ Tail(rootsLeft) \in Seq(Nodes)
    BY <2>1, TailFacts DEF WalkTypes
  <2> QED BY <2>1, <2>2 DEF WalkTypes
<1>6. CASE SkipEntry \/ Unreadable \/ SkipVisited
  <2>1. /\ Walking /\ stack' = Onward /\ lost' \in {lost, TRUE}
        /\ UNCHANGED <<tree, roots, follow, recursive, depth, rootsLeft, visited, blind, listed, found, walkAct>>
    BY <1>6 DEF SkipEntry, Unreadable, SkipVisited, options
  <2>2. Onward \in Seq(Frames) /\ walkAct = "walk"
    BY <2>1, WalkingFacts
  <2> QED BY <2>1, <2>2 DEF WalkTypes
<1>7. CASE EnterDirectory \/ EnterBlind
  <2>1. /\ Walking /\ KindOf(Entry) = "dir" /\ visited' \in {visited, visited \cup {Real(Entry)}}
        /\ blind' \in {blind, TRUE}
        /\ Enters(Onward, listed, Real(Entry), Here, Head(stack).level + 1)
        /\ UNCHANGED <<tree, roots, follow, recursive, depth, rootsLeft, found, walkAct>>
    BY <1>7 DEF EnterDirectory, EnterBlind, options
  <2>2. /\ Onward \in Seq(Frames) /\ walkAct = "walk" /\ Real(Entry) \in Nodes /\ Here \in Seq(Nodes)
        /\ Head(stack).level + 1 \in Nat /\ listed \in Seq(Nodes)
    <3>1. tree \in FileSystems /\ listed \in Seq(Nodes)
      BY DEF WalkTypes
    <3>2. Head(stack).level \in Nat
      BY <2>1, WalkingFacts DEF Frames
    <3> QED BY <2>1, <3>1, <3>2, WalkingFacts, RealFacts
  <2>3. stack' \in Seq(Frames) /\ listed' \in Seq(Nodes) /\ lost' \in BOOLEAN
    BY <2>1, <2>2, EntersFacts
  <2> QED BY <2>1, <2>2, <2>3 DEF WalkTypes
<1>8. CASE TakeFile
  <2>1. /\ Walking /\ stack' = Onward /\ found' = Append(found, Here)
        /\ UNCHANGED <<tree, roots, follow, recursive, depth, rootsLeft, visited, blind, listed, lost, walkAct>>
    BY <1>8 DEF TakeFile, options
  <2>2. Onward \in Seq(Frames) /\ walkAct = "walk" /\ Append(found, Here) \in Seq(Seq(Nodes))
    BY <2>1, WalkingFacts, AppendFacts DEF WalkTypes
  <2> QED BY <2>1, <2>2 DEF WalkTypes
<1>9. CASE LeaveDirectory
  <2>1. /\ walkAct = "walk" /\ stack # <<>> /\ stack' = Tail(stack)
        /\ UNCHANGED <<tree, roots, follow, recursive, depth, rootsLeft, visited, blind, listed, found, lost, walkAct>>
    BY <1>9 DEF LeaveDirectory, options
  <2>2. Tail(stack) \in Seq(Frames)
    BY <2>1, TailFacts DEF WalkTypes
  <2> QED BY <2>1, <2>2 DEF WalkTypes
<1>10. CASE EndWalk
  BY <1>10 DEF EndWalk, options, WalkTypes
<1> QED
  BY <1>1, <1>2, <1>3, <1>4, <1>5, <1>6, <1>7, <1>8, <1>9, <1>10 DEF LocalNext

\* A way down through directories, links only where they are followed.
Chain(p) ==
  /\ \A i \in 1 .. Len(p) : KindOf(p[i]) = "dir" /\ (tree.kind[p[i]] = "link" => follow)
  /\ \A i \in 1 .. Len(p) - 1 : Contains(tree.inside[Real(p[i])], p[i + 1])

\* A directory being walked: the way to it, no deeper than the depth, and entries of it, each once.
Sound(f) ==
  /\ f.level = Len(f.path) /\ f.level \in 1 .. depth /\ (f.level > 1 => recursive) /\ Chain(f.path)
  /\ \A n \in Range(f.left) : Contains(tree.inside[Real(Last(f.path))], n)
  /\ IsInjective(f.left)

\* One entry further down the way goes on, or ends at a picture that belongs to the tree.
LEMMA ChainGrows ==
  ASSUME depth \in Nat, NEW p \in Seq(Nodes), NEW e \in Nodes, Chain(p), p # <<>>,
         Contains(tree.inside[Real(Last(p))], e), tree.kind[e] = "link" => follow
  PROVE  /\ KindOf(e) = "dir" => Chain(Append(p, e))
         /\ KindOf(e) = "picture" /\ Len(p) \in 1 .. depth /\ (Len(p) > 1 => recursive)
              => Belongs(Append(p, e))
<1> DEFINE q == Append(p, e)
           l == Len(p)
<1>1. /\ q \in Seq(Nodes) /\ Len(q) = l + 1 /\ l \in Nat /\ l > 0 /\ q[l + 1] = e /\ Last(q) = e
      /\ \A i \in 1 .. l : q[i] = p[i]
  BY AppendFacts
<1> HIDE DEF q
<1>2. \A i \in 1 .. l : KindOf(q[i]) = "dir" /\ (tree.kind[q[i]] = "link" => follow)
  BY <1>1 DEF Chain
<1>3. ASSUME NEW i \in 1 .. l PROVE Contains(tree.inside[Real(q[i])], q[i + 1])
  <2>1. CASE i = l
    BY <1>1, <2>1 DEF Last
  <2>2. CASE i # l
    <3>1. i \in 1 .. Len(p) - 1 /\ i + 1 \in 1 .. l
      BY <1>1, <2>2
    <3> QED BY <1>1, <3>1 DEF Chain
  <2> QED BY <2>1, <2>2
<1>4. ASSUME KindOf(e) = "dir" PROVE Chain(q)
  <2>1. \A i \in 1 .. l + 1 : i \in 1 .. l \/ i = l + 1
    BY <1>1
  <2>2. \A i \in 1 .. l + 1 : KindOf(q[i]) = "dir" /\ (tree.kind[q[i]] = "link" => follow)
    BY <1>1, <1>2, <1>4, <2>1
  <2>3. (l + 1) - 1 = l
    BY <1>1
  <2> QED BY <1>1, <1>3, <2>2, <2>3 DEF Chain
<1>5. ASSUME KindOf(e) = "picture", l \in 1 .. depth, l > 1 => recursive PROVE Belongs(q)
  <2>1. Len(q) \in 2 .. depth + 1 /\ (recursive \/ Len(q) = 2) /\ Len(q) - 1 = l
    BY <1>1, <1>5
  <2>2. DOMAIN q = 1 .. l + 1
    BY <1>1
  <2>3. \A i \in DOMAIN q : tree.kind[q[i]] = "link" => follow
    <3>1. \A i \in 1 .. l + 1 : i \in 1 .. l \/ i = l + 1
      BY <1>1
    <3> QED BY <1>1, <1>2, <2>2, <3>1
  <2> QED BY <1>1, <1>2, <1>3, <1>5, <2>1, <2>3 DEF Belongs
<1> QED
  BY <1>4, <1>5 DEF q

\* A directory the depth allows is opened with its entries, each once.
LEMMA OpenedSound ==
  ASSUME tree \in Trees, NEW p \in Seq(Nodes), p # <<>>, Chain(p), Len(p) <= depth, depth \in Nat,
         Len(p) > 1 => recursive
  PROVE  Sound(Opened(Real(Last(p)), p, Len(p)))
<1>1. Len(p) \in 1 .. depth /\ Last(p) \in Nodes /\ KindOf(Last(p)) = "dir"
  BY DEF Last, Chain
<1>2. tree \in FileSystems /\ IsTree(tree)
  BY LocalAssumption
<1>3. Real(Last(p)) \in Nodes /\ tree.inside[Real(Last(p))] \in Seq(Nodes)
  BY <1>1, <1>2, RealFacts
<1>4. IsInjective(tree.inside[Real(Last(p))])
  BY <1>2, <1>3 DEF IsTree
<1> QED
  BY <1>1, <1>3, <1>4, Within DEF Sound, Opened

\* The directories stay sound as their entries are taken.
LEMMA OnwardSound ==
  ASSUME WalkTypes, Walking, \A j \in DOMAIN stack : Sound(stack[j])
  PROVE  \A j \in DOMAIN Onward : Sound(Onward[j])
<1>1. ASSUME NEW j \in DOMAIN Onward PROVE Sound(Onward[j])
  <2>1. Sound(stack[j]) /\ Onward[j].path = stack[j].path /\ Onward[j].level = stack[j].level
    BY <1>1, WalkingFacts
  <2>2. CASE j = 1
    <3>1. Range(Onward[1].left) \subseteq Range(stack[1].left) /\ IsInjective(Onward[1].left)
      BY <2>1, <2>2, WalkingFacts DEF Sound
    <3> QED BY <2>1, <2>2, <3>1 DEF Sound
  <2>3. CASE j # 1
    BY <1>1, <2>1, <2>3, WalkingFacts
  <2> QED BY <2>2, <2>3
<1> QED
  BY <1>1

\* The entry that is next, where it may be taken.
LEMMA EntryFacts ==
  ASSUME WalkTypes, Walking, Follows, Sound(stack[1])
  PROVE  /\ stack[1].path # <<>> /\ Len(Here) = stack[1].level + 1 /\ Last(Here) = Entry
         /\ KindOf(Entry) = "dir" => Chain(Here)
         /\ KindOf(Entry) = "picture" => Belongs(Here)
<1>1. /\ stack[1].path \in Seq(Nodes) /\ Entry \in Nodes /\ Here = Append(stack[1].path, Entry)
      /\ Entry \in Range(stack[1].left)
  BY WalkingFacts
<1>2. /\ stack[1].level = Len(stack[1].path) /\ stack[1].level \in 1 .. depth
      /\ stack[1].level > 1 => recursive
      /\ Chain(stack[1].path) /\ Contains(tree.inside[Real(Last(stack[1].path))], Entry)
  BY <1>1 DEF Sound
<1>3. stack[1].path # <<>> /\ Len(Here) = stack[1].level + 1 /\ Last(Here) = Entry /\ depth \in Nat
  <2>1. Len(Here) = Len(stack[1].path) + 1 /\ Last(Here) = Entry
    BY <1>1, AppendFacts
  <2>2. depth \in Nat
    BY DEF WalkTypes
  <2>3. stack[1].path # <<>>
    BY <1>1, <1>2, <2>2
  <2> QED BY <1>2, <2>1, <2>2, <2>3
<1> QED
  BY <1>1, <1>2, <1>3, ChainGrows DEF Follows

\* What is sound and what belongs depends on the tree and the options only.
LEMMA OptionsStay == UNCHANGED options => /\ \A f : Sound(f)' = Sound(f)
                                          /\ \A p : Belongs(p)' = Belongs(p)
BY DEF options, Sound, Chain, Belongs, KindOf, Real

\* Every directory with a canonical path is read once; what is offered is in the tree.
WalkSound ==
  /\ \A j \in DOMAIN stack : Sound(stack[j])
  /\ \A i \in DOMAIN found : Belongs(found[i])
  /\ ~blind => IsInjective(listed) /\ Range(listed) \subseteq visited

\* And so does a directory that is entered; of those read it stays the only one, if it is new.
LEMMA EntersSound ==
  ASSUME WalkTypes, UNCHANGED options,
         NEW rest \in Seq(Frames), NEW read \in Seq(Nodes), NEW path \in Seq(Nodes),
         path # <<>>, Real(Last(path)) \in Nodes, Len(path) > 1 => recursive,
         \A j \in DOMAIN rest : Sound(rest[j]), tree \in Trees, Chain(path),
         Enters(rest, read, Real(Last(path)), path, Len(path))
  PROVE  /\ \A j \in DOMAIN stack' : Sound(stack'[j])
         /\ IsInjective(read) /\ Real(Last(path)) \notin Range(read) =>
              IsInjective(listed') /\ Range(listed') \subseteq Range(read) \cup {Real(Last(path))}
<1> DEFINE real == Real(Last(path))
           frame == Opened(real, path, Len(path))
<1>0. Len(path) \in Nat /\ depth \in Nat
  BY DEF WalkTypes
<1>1. /\ \/ Len(path) > depth /\ stack' = rest /\ listed' = read
         \/ listed' = Append(read, real) /\ stack' = rest
         \/ Len(path) <= depth /\ listed' = Append(read, real) /\ stack' = <<frame>> \o rest
      /\ frame \in Frames
  BY <1>0, EntersFacts
<1>2. IsInjective(read) /\ real \notin Range(read) =>
        IsInjective(Append(read, real)) /\ Range(Append(read, real)) = Range(read) \cup {real}
  BY AppendOnce
<1>3. ASSUME Len(path) <= depth, stack' = <<frame>> \o rest PROVE \A j \in DOMAIN stack' : Sound(stack'[j])
  <2>1. Sound(frame)
    BY <1>0, <1>3, OpenedSound
  <2> HIDE DEF frame
  <2>2. /\ DOMAIN stack' = 1 .. Len(rest) + 1 /\ stack'[1] = frame
        /\ \A i \in 2 .. Len(rest) + 1 : i - 1 \in DOMAIN rest /\ stack'[i] = rest[i - 1]
    BY <1>1, <1>3, PushFacts
  <2>3. \A j \in DOMAIN stack' : j = 1 \/ j \in 2 .. Len(rest) + 1
    BY <2>2
  <2> QED BY <2>1, <2>2, <2>3
<1> QED
  BY <1>1, <1>2, <1>3

\* Every step keeps that.
LEMMA WalkSoundStep == WalkTypes /\ WalkSound /\ [LocalNext]_localVars => WalkSound'
<1> SUFFICES ASSUME WalkTypes, WalkSound, [LocalNext]_localVars PROVE WalkSound'
  OBVIOUS
<1>0. /\ \A j \in DOMAIN stack : Sound(stack[j])
      /\ \A i \in DOMAIN found : Belongs(found[i])
      /\ ~blind => IsInjective(listed) /\ Range(listed) \subseteq visited
  BY DEF WalkSound
<1> DEFINE Kept == /\ UNCHANGED options /\ \A j \in DOMAIN stack' : Sound(stack'[j])
                   /\ \A i \in DOMAIN found' : Belongs(found'[i])
                   /\ ~blind' => IsInjective(listed') /\ Range(listed') \subseteq visited'
<1>1. Kept => WalkSound'
  BY OptionsStay DEF WalkSound
<1>2. CASE UNCHANGED localVars
  BY <1>0, <1>1, <1>2 DEF localVars, options
<1>3. CASE Configured
  <2>1. stack' = <<>> /\ found' = <<>> /\ listed' = <<>>
    BY <1>3 DEF Configured, WalkTypes
  <2>2. DOMAIN stack' = {} /\ DOMAIN found' = {} /\ DOMAIN listed' = {}
    BY <2>1
  <2> QED BY <2>2 DEF WalkSound, IsInjective, Range
<1>4. CASE Validate
  BY <1>0, <1>1, <1>4 DEF Validate, options
<1>5. CASE NextRoot
  <2> DEFINE n == Head(rootsLeft)
  <2>1. /\ walkAct = "walk" /\ rootsLeft # <<>> /\ RootWalks(n) /\ (~blind' => visited' = {Real(n)})
        /\ Enters(<<>>, <<>>, Real(n), <<n>>, 1) /\ UNCHANGED <<options, found>>
    BY <1>5 DEF NextRoot
  <2>2. n \in Nodes /\ tree \in Trees /\ tree \in FileSystems
    BY <2>1, TailFacts DEF WalkTypes
  <2>3. Real(n) \in Nodes /\ KindOf(n) = "dir" /\ (tree.kind[n] = "link" => follow)
    BY <2>1, <2>2, RealFacts DEF RootWalks
  <2> HIDE DEF n
  <2>4. /\ <<n>> \in Seq(Nodes) /\ <<n>> # <<>> /\ Len(<<n>>) = 1 /\ Last(<<n>>) = n /\ Chain(<<n>>)
        /\ ~ (Len(<<n>>) > 1)
    BY <2>2, <2>3 DEF Last, Chain
  <2>5. /\ <<>> \in Seq(Frames) /\ <<>> \in Seq(Nodes) /\ IsInjective(<<>>) /\ Range(<<>>) = {}
        /\ \A j \in DOMAIN <<>> : Sound(<<>>[j])
    BY DEF IsInjective, Range
  <2>6. /\ \A j \in DOMAIN stack' : Sound(stack'[j])
        /\ IsInjective(listed') /\ Range(listed') \subseteq Range(<<>>) \cup {Real(n)}
    BY <2>1, <2>2, <2>3, <2>4, <2>5, EntersSound
  <2> QED BY <1>0, <1>1, <2>1, <2>5, <2>6
<1>6. CASE SkipRoot
  BY <1>0, <1>1, <1>6 DEF SkipRoot
<1>7. CASE SkipEntry \/ Unreadable \/ SkipVisited
  <2>1. Walking /\ stack' = Onward /\ UNCHANGED <<options, visited, blind, listed, found>>
    BY <1>7 DEF SkipEntry, Unreadable, SkipVisited
  <2> QED BY <1>0, <1>1, <2>1, OnwardSound
<1>8. CASE EnterDirectory \/ EnterBlind
  <2>1. /\ Walking /\ Follows /\ KindOf(Entry) = "dir" /\ recursive /\ UNCHANGED <<options, found>>
        /\ \/ Real(Entry) \notin visited /\ visited' = visited \cup {Real(Entry)} /\ blind' = blind
           \/ blind'
        /\ Enters(Onward, listed, Real(Entry), Here, Head(stack).level + 1)
    BY <1>8 DEF EnterDirectory, EnterBlind
  <2>2. /\ Onward \in Seq(Frames) /\ Here \in Seq(Nodes) /\ Entry \in Nodes /\ tree \in Trees
        /\ Head(stack) = stack[1] /\ Sound(stack[1]) /\ tree \in FileSystems /\ listed \in Seq(Nodes)
    BY <1>0, <2>1, WalkingFacts DEF WalkTypes
  <2>3. /\ Len(Here) = stack[1].level + 1 /\ Last(Here) = Entry /\ Chain(Here) /\ Real(Entry) \in Nodes
        /\ Len(Here) # 0
    <3>1. stack[1].level \in Nat
      BY <2>2 DEF Sound, Frames, WalkTypes
    <3> QED BY <2>1, <2>2, <3>1, EntryFacts, RealFacts
  <2>4. /\ \A j \in DOMAIN stack' : Sound(stack'[j])
        /\ IsInjective(listed) /\ Real(Entry) \notin Range(listed) =>
             IsInjective(listed') /\ Range(listed') \subseteq Range(listed) \cup {Real(Entry)}
    BY <1>0, <2>1, <2>2, <2>3, OnwardSound, EntersSound
  <2> QED BY <1>0, <1>1, <2>1, <2>4
<1>9. CASE TakeFile
  <2>1. /\ Walking /\ Follows /\ KindOf(Entry) = "picture" /\ stack' = Onward
        /\ found' = Append(found, Here) /\ UNCHANGED <<options, visited, blind, listed>>
    BY <1>9 DEF TakeFile
  <2>2. Belongs(Here) /\ found \in Seq(Seq(Nodes)) /\ Here \in Seq(Nodes)
    BY <1>0, <2>1, WalkingFacts, EntryFacts DEF WalkTypes
  <2>3. \A i \in DOMAIN found' : Belongs(found'[i])
    BY <1>0, <2>1, <2>2, AppendFacts
  <2> QED BY <1>0, <1>1, <2>1, <2>3, OnwardSound
<1>10. CASE LeaveDirectory
  <2>1. stack # <<>> /\ stack' = Tail(stack) /\ UNCHANGED <<options, visited, blind, listed, found>>
    BY <1>10 DEF LeaveDirectory
  <2>2. \A j \in DOMAIN stack' : Sound(stack'[j])
    BY <1>0, <2>1, TailFacts DEF WalkTypes
  <2> QED BY <1>0, <1>1, <2>1, <2>2
<1>11. CASE EndWalk
  BY <1>0, <1>1, <1>11 DEF EndWalk
<1> QED
  BY <1>2, <1>3, <1>4, <1>5, <1>6, <1>7, <1>8, <1>9, <1>10, <1>11 DEF LocalNext

\* A path that goes through an entry the walk has still to take.
Pending(f, p) ==
  /\ Len(f.path) < Len(p) /\ \A i \in 1 .. Len(f.path) : p[i] = f.path[i]
  /\ p[Len(f.path) + 1] \in Range(f.left)

\* Nothing that was offered, and no directory being walked, is still to come.
OnceIn(frames, offered, toCome) ==
  /\ IsInjective(offered) /\ IsInjective(toCome)
  /\ \A i \in DOMAIN offered : /\ offered[i][1] \notin Range(toCome)
                               /\ \A j \in DOMAIN frames : ~Pending(frames[j], offered[i])
  /\ \A j \in DOMAIN frames : frames[j].path[1] \notin Range(toCome)
  /\ \A j, k \in DOMAIN frames : j < k => /\ frames[k].level < frames[j].level
                                          /\ ~Pending(frames[k], frames[j].path)

\* Each path once, where each root is given once.
FoundOnce == IsInjective(roots) => OnceIn(stack, found, rootsLeft)

\* What is pending behind the next entry, once it is taken.
LEMMA PendingHere ==
  ASSUME WalkTypes, Walking, Sound(stack[1]), NEW q \in Seq(Nodes)
  PROVE  /\ \A j \in DOMAIN stack : Pending(Onward[j], q) => Pending(stack[j], q)
         /\ Pending(stack[1], q) => /\ Pending(Onward[1], q)
                                    \/ /\ Len(Here) <= Len(q)
                                       /\ \A i \in 1 .. Len(Here) : q[i] = Here[i]
         /\ \A real, level : Pending(Opened(real, Here, level), q) => Pending(stack[1], q)
         /\ Pending(stack[1], Here) /\ ~Pending(Onward[1], Here)
<1> DEFINE path == stack[1].path
           l == Len(path)
<1>1. /\ path \in Seq(Nodes) /\ l \in Nat /\ Here = Append(path, Entry) /\ Onward[1].path = path
      /\ Range(stack[1].left) = {Entry} \cup Range(Onward[1].left) /\ Entry \notin Range(Onward[1].left)
      /\ Entry \in Nodes /\ 1 \in DOMAIN stack
  BY WalkingFacts DEF Sound
<1>2. /\ Len(Here) = l + 1 /\ Here[l + 1] = Entry /\ \A i \in 1 .. l : Here[i] = path[i]
  BY <1>1, AppendFacts
<1>3. ASSUME NEW j \in DOMAIN stack, Pending(Onward[j], q) PROVE Pending(stack[j], q)
  BY <1>1, <1>3, WalkingFacts DEF Pending
<1>4. ASSUME Pending(stack[1], q), ~Pending(Onward[1], q)
      PROVE  Len(Here) <= Len(q) /\ \A i \in 1 .. Len(Here) : q[i] = Here[i]
  <2>1. l < Len(q) /\ (\A i \in 1 .. l : q[i] = path[i]) /\ q[l + 1] = Entry
    BY <1>1, <1>4 DEF Pending
  <2>2. Len(Here) <= Len(q)
    BY <1>1, <1>2, <2>1
  <2>3. \A i \in 1 .. l + 1 : i \in 1 .. l \/ i = l + 1
    BY <1>1
  <2>4. \A i \in 1 .. l + 1 : q[i] = Here[i]
    BY <1>2, <2>1, <2>3
  <2> QED BY <1>2, <2>2, <2>4
<1>5. ASSUME NEW real, NEW level, Pending(Opened(real, Here, level), q) PROVE Pending(stack[1], q)
  <2>1. Len(Here) < Len(q) /\ \A i \in 1 .. Len(Here) : q[i] = Here[i]
    BY <1>5 DEF Pending, Opened
  <2>2. l < Len(q) /\ q[l + 1] = Entry
    <3>1. l + 1 \in 1 .. Len(Here) /\ l < Len(Here) /\ Len(Here) \in Nat /\ Len(q) \in Nat
      BY <1>1, <1>2
    <3>2. q[l + 1] = Here[l + 1]
      BY <2>1, <3>1
    <3> QED BY <1>2, <2>1, <3>1, <3>2
  <2>3. \A i \in 1 .. l : q[i] = path[i]
    BY <1>1, <1>2, <2>1
  <2> QED BY <1>1, <2>2, <2>3 DEF Pending
<1>6. Pending(stack[1], Here) /\ ~Pending(Onward[1], Here)
  BY <1>1, <1>2 DEF Pending
<1> QED
  BY <1>3, <1>4, <1>5, <1>6

\* The next path is new, and taking its entry leaves nothing of it pending.
LEMMA OnwardOnce ==
  ASSUME WalkTypes, Walking, \A j \in DOMAIN stack : Sound(stack[j]), OnceIn(stack, found, rootsLeft)
  PROVE  /\ OnceIn(Onward, found, rootsLeft)
         /\ Here \notin Range(found) /\ Here[1] \notin Range(rootsLeft)
         /\ \A j \in DOMAIN Onward : ~Pending(Onward[j], Here) /\ Onward[j].level < Len(Here)
         /\ \A i \in DOMAIN found : \A real, level : ~Pending(Opened(real, Here, level), found[i])
<1> DEFINE path == stack[1].path
           l == Len(path)
<1>1. /\ path \in Seq(Nodes) /\ l \in Nat /\ Here = Append(path, Entry) /\ Here \in Seq(Nodes)
      /\ 1 \in DOMAIN stack /\ DOMAIN Onward = DOMAIN stack /\ found \in Seq(Seq(Nodes)) /\ Entry \in Nodes
      /\ \A j \in DOMAIN stack : Onward[j].path = stack[j].path /\ Onward[j].level = stack[j].level
  BY WalkingFacts DEF WalkTypes
<1>2. \A j \in DOMAIN stack : stack[j].level = Len(stack[j].path) /\ stack[j].level \in Nat
  BY DEF Sound, WalkTypes
<1>3. l > 0
  BY <1>1 DEF Sound
<1>4. Len(Here) = l + 1 /\ \A i \in 1 .. l : Here[i] = path[i]
  BY <1>1, AppendFacts
<1>5. stack \in Seq(Frames) /\ \A j \in DOMAIN stack : stack[j] \in Frames
  BY ElementsOf DEF WalkTypes
<1>6. \A j \in DOMAIN stack : j = 1 \/ (1 < j /\ stack[j].level < stack[1].level /\ ~Pending(stack[j], path))
  <2>1. \A j \in DOMAIN stack : j = 1 \/ 1 < j
    BY <1>5
  <2> QED BY <1>1, <2>1 DEF OnceIn
<1>7. ASSUME NEW j \in DOMAIN stack PROVE ~Pending(Onward[j], Here) /\ Onward[j].level < Len(Here)
  <2>1. CASE j = 1
    BY <1>1, <1>2, <1>4, <2>1, PendingHere
  <2>2. CASE j # 1
    <3>1. Len(stack[j].path) < l /\ Len(stack[j].path) \in Nat /\ ~Pending(stack[j], path)
      BY <1>1, <1>2, <1>6, <2>2
    <3>2. ~Pending(stack[j], Here)
      BY <1>1, <1>4, <3>1 DEF Pending
    <3>3. ~Pending(Onward[j], Here)
      BY <1>1, <3>2, PendingHere
    <3> QED BY <1>1, <1>2, <1>4, <3>1, <3>3
  <2> QED BY <2>1, <2>2
<1>8. ASSUME NEW i \in DOMAIN found, NEW j \in DOMAIN stack PROVE ~Pending(Onward[j], found[i])
  <2>1. found[i] \in Seq(Nodes) /\ ~Pending(stack[j], found[i])
    BY <1>1 DEF OnceIn
  <2> QED BY <1>1, <2>1, PendingHere
<1>9. ASSUME NEW j \in DOMAIN stack, NEW k \in DOMAIN stack, j < k PROVE ~Pending(Onward[k], Onward[j].path)
  <2>1. stack[j].path \in Seq(Nodes)
    BY <1>5, <1>9 DEF Frames
  <2>2. ~Pending(stack[k], stack[j].path)
    BY <1>9 DEF OnceIn
  <2> QED BY <1>1, <2>1, <2>2, PendingHere
<1>10. ASSUME NEW i \in DOMAIN found
       PROVE  found[i] # Here /\ \A real, level : ~Pending(Opened(real, Here, level), found[i])
  <2>1. found[i] \in Seq(Nodes) /\ ~Pending(stack[1], found[i])
    BY <1>1 DEF OnceIn
  <2> QED BY <1>1, <2>1, PendingHere
<1>11. Here[1] = path[1] /\ path[1] \notin Range(rootsLeft)
  BY <1>1, <1>3, <1>4 DEF OnceIn
<1>12. OnceIn(Onward, found, rootsLeft)
  BY <1>1, <1>8, <1>9 DEF OnceIn
<1> QED
  BY <1>1, <1>7, <1>10, <1>11, <1>12 DEF Range

\* A directory may be opened of which nothing is offered and nothing else is pending.
LEMMA PushOnce ==
  ASSUME NEW rest \in Seq(Frames), NEW offered, NEW toCome, NEW f \in Frames, OnceIn(rest, offered, toCome),
         \A i \in DOMAIN offered : ~Pending(f, offered[i]), f.path[1] \notin Range(toCome),
         \A j \in DOMAIN rest : ~Pending(rest[j], f.path) /\ rest[j].level < f.level
  PROVE  OnceIn(<<f>> \o rest, offered, toCome)
<1> DEFINE frames == <<f>> \o rest
<1>1. /\ DOMAIN frames = 1 .. Len(rest) + 1 /\ frames[1] = f
      /\ \A i \in 2 .. Len(rest) + 1 : i - 1 \in DOMAIN rest /\ frames[i] = rest[i - 1]
  BY PushFacts
<1> HIDE DEF frames
<1>2. \A j \in DOMAIN frames : j = 1 \/ j \in 2 .. Len(rest) + 1
  BY <1>1
<1>3. \A j \in DOMAIN frames : j = 1 \/ (j - 1 \in DOMAIN rest /\ frames[j] = rest[j - 1])
  BY <1>1, <1>2
<1>4. \A i \in DOMAIN offered : \A j \in DOMAIN frames : ~Pending(frames[j], offered[i])
  BY <1>1, <1>3 DEF OnceIn
<1>5. \A j \in DOMAIN frames : frames[j].path[1] \notin Range(toCome)
  BY <1>1, <1>3 DEF OnceIn
<1>6. ASSUME NEW j \in DOMAIN frames, NEW k \in DOMAIN frames, j < k
      PROVE  frames[k].level < frames[j].level /\ ~Pending(frames[k], frames[j].path)
  <2>1. j \in Nat /\ k \in Nat /\ k # 1 /\ j >= 1
    BY <1>1, <1>6
  <2>2. k - 1 \in DOMAIN rest /\ frames[k] = rest[k - 1]
    BY <1>3, <2>1
  <2>3. CASE j = 1
    BY <1>1, <2>2, <2>3
  <2>4. CASE j # 1
    <3>1. j - 1 \in DOMAIN rest /\ frames[j] = rest[j - 1] /\ j - 1 < k - 1
      BY <1>3, <1>6, <2>1, <2>4
    <3> QED BY <2>2, <3>1 DEF OnceIn
  <2> QED BY <2>3, <2>4
<1> QED
  BY <1>4, <1>5, <1>6 DEF OnceIn, frames

\* Every step offers what is new.
LEMMA FoundOnceStep ==
  WalkTypes /\ WalkSound /\ FoundOnce /\ [LocalNext]_localVars => FoundOnce'
<1> SUFFICES ASSUME WalkTypes, WalkSound, FoundOnce, [LocalNext]_localVars, IsInjective(roots')
             PROVE  OnceIn(stack', found', rootsLeft')
  BY DEF FoundOnce
<1>1. CASE Configured
  <2>1. stack' = <<>> /\ found' = <<>> /\ rootsLeft' = roots'
    BY <1>1 DEF Configured, WalkTypes
  <2>2. DOMAIN stack' = {} /\ DOMAIN found' = {}
    BY <2>1
  <2> QED BY <2>1, <2>2 DEF OnceIn, IsInjective
<1>2. CASE ~Configured
  <2>0. UNCHANGED options
    BY <1>2 DEF LocalNext, localVars, options, Validate, NextRoot, SkipRoot, SkipEntry, Unreadable,
                EnterDirectory, EnterBlind, SkipVisited, TakeFile, LeaveDirectory, EndWalk
  <2>1. OnceIn(stack, found, rootsLeft)
    BY <2>0 DEF FoundOnce, options
  <2>2. \A j \in DOMAIN stack : Sound(stack[j])
    BY DEF WalkSound
  <2>3. rootsLeft \in Seq(Nodes) /\ found \in Seq(Seq(Nodes)) /\ stack \in Seq(Frames)
    BY DEF WalkTypes
  <2>4. CASE UNCHANGED <<stack, found, rootsLeft>>
    BY <2>1, <2>4
  <2>5. CASE NextRoot
    <3> DEFINE n == Head(rootsLeft)
               frame == Opened(Real(n), <<n>>, 1)
    <3>1. /\ walkAct = "walk" /\ rootsLeft # <<>> /\ stack = <<>>
          /\ RootWalks(n) /\ rootsLeft' = Tail(rootsLeft)
          /\ Enters(<<>>, <<>>, Real(n), <<n>>, 1) /\ found' = found
      BY <2>5 DEF NextRoot
    <3>2. n \in Nodes /\ tree \in FileSystems
      BY <3>1, TailFacts DEF WalkTypes
    <3>3. Real(n) \in Nodes
      BY <3>1, <3>2, RealFacts DEF RootWalks
    <3>4. /\ Range(rootsLeft) = {n} \cup Range(rootsLeft')
          /\ IsInjective(rootsLeft') /\ n \notin Range(rootsLeft')
      BY <2>1, <2>3, <3>1, TailRange DEF OnceIn
    <3> HIDE DEF n
    <3>5. OnceIn(<<>>, found, rootsLeft')
      BY <2>1, <3>1, <3>4 DEF OnceIn
    <3>6. <<n>> \in Seq(Nodes) /\ <<>> \in Seq(Frames) /\ <<>> \in Seq(Nodes) /\ 1 \in Nat
      BY <3>2
    <3>7. (stack' = <<>> \/ stack' = <<frame>> \o <<>>) /\ frame \in Frames
      BY <3>1, <3>3, <3>6, EntersFacts
    <3>8. frame.path = <<n>> /\ frame.path[1] = n /\ Len(frame.path) = 1
      BY DEF Opened
    <3>9. \A i \in DOMAIN found : found[i][1] # n
      BY <2>1, <3>4 DEF OnceIn
    <3> HIDE DEF frame
    <3>10. \A i \in DOMAIN found : ~Pending(frame, found[i])
      BY <3>8, <3>9 DEF Pending
    <3>11. \A j \in DOMAIN <<>> : ~Pending(<<>>[j], frame.path) /\ <<>>[j].level < frame.level
      OBVIOUS
    <3>12. OnceIn(<<frame>> \o <<>>, found, rootsLeft')
      BY <3>4, <3>5, <3>6, <3>7, <3>8, <3>10, <3>11, PushOnce
    <3> QED BY <3>1, <3>5, <3>7, <3>12
  <2>6. CASE SkipRoot
    <3>1. rootsLeft # <<>> /\ stack = <<>> /\ rootsLeft' = Tail(rootsLeft) /\ UNCHANGED <<stack, found>>
      BY <2>6 DEF SkipRoot
    <3>2. Range(rootsLeft') \subseteq Range(rootsLeft) /\ IsInjective(rootsLeft')
      BY <2>1, <2>3, <3>1, TailRange DEF OnceIn
    <3> QED BY <2>1, <3>1, <3>2 DEF OnceIn
  <2>7. CASE SkipEntry \/ Unreadable \/ SkipVisited
    <3>1. Walking /\ stack' = Onward /\ UNCHANGED <<found, rootsLeft>>
      BY <2>7 DEF SkipEntry, Unreadable, SkipVisited
    <3> QED BY <2>1, <2>2, <3>1, OnwardOnce
  <2>8. CASE EnterDirectory \/ EnterBlind
    <3> DEFINE level == Head(stack).level + 1
               frame == Opened(Real(Entry), Here, level)
    <3>1. /\ Walking /\ Follows /\ KindOf(Entry) = "dir" /\ UNCHANGED <<found, rootsLeft>>
          /\ Enters(Onward, listed, Real(Entry), Here, level)
      BY <2>8 DEF EnterDirectory, EnterBlind
    <3>2. /\ Onward \in Seq(Frames) /\ Here \in Seq(Nodes) /\ Entry \in Nodes /\ tree \in FileSystems
          /\ Head(stack) = stack[1] /\ Sound(stack[1]) /\ listed \in Seq(Nodes) /\ stack[1].level \in Nat
      BY <2>2, <3>1, WalkingFacts DEF WalkTypes, Frames
    <3>3. level \in Nat /\ Real(Entry) \in Nodes /\ level = Len(Here)
      BY <3>1, <3>2, EntryFacts, RealFacts
    <3> HIDE DEF level
    <3>4. (stack' = Onward \/ stack' = <<frame>> \o Onward) /\ frame \in Frames
      BY <3>1, <3>2, <3>3, EntersFacts
    <3>5. frame.path = Here /\ frame.level = Len(Here)
      BY <3>3 DEF Opened
    <3>6. \A i \in DOMAIN found : ~Pending(frame, found[i])
      BY <2>1, <2>2, <3>1, OnwardOnce
    <3> HIDE DEF frame
    <3>7. OnceIn(Onward, found, rootsLeft)
      BY <2>1, <2>2, <3>1, OnwardOnce
    <3>8. OnceIn(<<frame>> \o Onward, found, rootsLeft)
      <4>1. /\ frame.path[1] \notin Range(rootsLeft)
            /\ \A j \in DOMAIN Onward : ~Pending(Onward[j], frame.path) /\ Onward[j].level < frame.level
        BY <2>1, <2>2, <3>1, <3>5, OnwardOnce
      <4> QED BY <3>2, <3>4, <3>6, <3>7, <4>1, PushOnce
    <3> QED BY <3>1, <3>4, <3>7, <3>8
  <2>9. CASE TakeFile
    <3>1. Walking /\ Follows /\ stack' = Onward /\ found' = Append(found, Here) /\ rootsLeft' = rootsLeft
      BY <2>9 DEF TakeFile
    <3>2. Here \in Seq(Nodes)
      BY <3>1, WalkingFacts
    <3>3. /\ OnceIn(Onward, found, rootsLeft) /\ Here \notin Range(found) /\ Here[1] \notin Range(rootsLeft)
          /\ \A j \in DOMAIN Onward : ~Pending(Onward[j], Here)
      BY <2>1, <2>2, <3>1, OnwardOnce
    <3>4. IsInjective(found')
      BY <2>3, <3>1, <3>2, <3>3, AppendOnce DEF OnceIn
    <3>5. \A i \in DOMAIN found' : found'[i] = Here \/ (i \in DOMAIN found /\ found'[i] = found[i])
      BY <2>3, <3>1, <3>2, AppendFacts
    <3> QED BY <3>1, <3>3, <3>4, <3>5 DEF OnceIn
  <2>10. CASE LeaveDirectory
    <3>1. stack # <<>> /\ stack' = Tail(stack) /\ UNCHANGED <<found, rootsLeft>>
      BY <2>10 DEF LeaveDirectory
    <3>2. \A j \in DOMAIN stack' : j \in Nat /\ j + 1 \in DOMAIN stack /\ stack'[j] = stack[j + 1]
      BY <2>3, <3>1, TailFacts
    <3>3. ASSUME NEW j \in DOMAIN stack', NEW k \in DOMAIN stack', j < k
          PROVE  stack'[k].level < stack'[j].level /\ ~Pending(stack'[k], stack'[j].path)
      <4>1. j + 1 < k + 1 /\ j + 1 \in DOMAIN stack /\ k + 1 \in DOMAIN stack
        BY <3>2, <3>3
      <4>2. stack[k + 1].level < stack[j + 1].level /\ ~Pending(stack[k + 1], stack[j + 1].path)
        BY <2>1, <4>1 DEF OnceIn
      <4> QED BY <3>2, <4>2
    <3>4. \A j \in DOMAIN stack' : stack'[j].path[1] \notin Range(rootsLeft')
      BY <2>1, <3>1, <3>2 DEF OnceIn
    <3>5. \A i \in DOMAIN found' : \A j \in DOMAIN stack' : ~Pending(stack'[j], found'[i])
      BY <2>1, <3>1, <3>2 DEF OnceIn
    <3>6. /\ IsInjective(found') /\ IsInjective(rootsLeft')
          /\ \A i \in DOMAIN found' : found'[i][1] \notin Range(rootsLeft')
      BY <2>1, <3>1 DEF OnceIn
    <3> QED BY <3>3, <3>4, <3>5, <3>6 DEF OnceIn
  <2> QED
    BY <1>2, <2>4, <2>5, <2>6, <2>7, <2>8, <2>9, <2>10 DEF LocalNext, localVars, Validate, EndWalk
<1> QED
  BY <1>1, <1>2

\* The directories entered hang together under one root, none of them is still to come, and
\* each has one frame at most.
Hangs(entered, frames) ==
  /\ \A v \in entered : tree.kind[v] = "dir"
  /\ \E root : \A v \in entered : v = root \/ \E d \in entered : Contains(tree.inside[d], v)
  /\ \A j \in DOMAIN frames : /\ Last(frames[j].path) \in entered
                              /\ Range(frames[j].left) \cap entered = {}
  /\ \A j, k \in DOMAIN frames : Last(frames[j].path) = Last(frames[k].path) => j = k

\* Where no link is followed, those that were recorded are among directories of that kind.
TreeWalk == ~follow => \E entered \in SUBSET Nodes : visited \subseteq entered /\ Hangs(entered, stack)

\* Each of these directories is in another of them, the first one apart.
Hanging(some, root) == \A v \in some : v = root \/ \E d \in some : Contains(tree.inside[d], v)

\* In a tree, what is in a directory that is new is new too.
LEMMA InsideIsNew ==
  ASSUME tree \in Trees, NEW some \in SUBSET Nodes, NEW dir \in Nodes, NEW root,
         dir \notin some, tree.kind[dir] = "dir", \A v \in some : tree.kind[v] = "dir",
         Hanging(some, root),
         some # {} => \E d \in some : Contains(tree.inside[d], dir)
  PROVE  \A n \in Range(tree.inside[dir]) : n \notin some \cup {dir}
<1>1. tree \in FileSystems /\ IsTree(tree)
  BY LocalAssumption
<1> DEFINE dirs == {n \in Nodes : tree.kind[n] = "dir"}
<1>2. /\ \A d, e, n \in dirs : Contains(tree.inside[d], n) /\ Contains(tree.inside[e], n) => d = e
      /\ \A set \in (SUBSET dirs) \ {{}} : \E n \in set : \A d \in set : ~Contains(tree.inside[d], n)
  BY <1>1 DEF IsTree
<1>3. tree.inside[dir] \in Seq(Nodes) /\ dir \in dirs /\ some \subseteq dirs
  BY <1>1, RealFacts
<1> HIDE DEF dirs
<1>4. ASSUME NEW n \in Range(tree.inside[dir]), n \in some \cup {dir} PROVE FALSE
  <2>1. Contains(tree.inside[dir], n) /\ n \in dirs
    BY <1>3, <1>4, Within
  <2>2. CASE n = dir
    <3>1. {dir} \in (SUBSET dirs) \ {{}}
      BY <1>3
    <3>2. PICK m \in {dir} : \A d \in {dir} : ~Contains(tree.inside[d], m)
      BY <1>2, <3>1
    <3> QED BY <2>1, <2>2, <3>2
  <2>3. CASE n \in some
    <3>1. \A d \in some : ~Contains(tree.inside[d], n)
      BY <1>2, <1>3, <2>1
    <3>2. n = root
      BY <2>3, <3>1 DEF Hanging
    <3>3. some \cup {dir} \in (SUBSET dirs) \ {{}}
      BY <1>3
    <3>4. PICK m \in some \cup {dir} : \A d \in some \cup {dir} : ~Contains(tree.inside[d], m)
      BY <1>2, <3>3
    <3>5. CASE m = dir
      BY <2>3, <3>4, <3>5
    <3>6. CASE m = root
      BY <2>1, <3>2, <3>4, <3>6
    <3>7. CASE m \in some /\ m # root
      BY <3>4, <3>7 DEF Hanging
    <3> QED BY <3>4, <3>5, <3>6, <3>7
  <2> QED BY <1>4, <2>2, <2>3
<1> QED
  BY <1>4

\* Every step keeps the visited apart from what is to come.
LEMMA TreeWalkStep ==
  WalkTypes /\ WalkSound /\ TreeWalk /\ [LocalNext]_localVars => TreeWalk'
<1> SUFFICES ASSUME WalkTypes, WalkSound, TreeWalk, [LocalNext]_localVars PROVE TreeWalk'
  OBVIOUS
<1>1. CASE Configured
  <2>1. stack' = <<>> /\ visited' = {}
    BY <1>1 DEF Configured, WalkTypes
  <2>2. DOMAIN stack' = {} /\ {} \in SUBSET Nodes
    BY <2>1
  <2>3. Hangs({}, stack)'
    BY <2>2 DEF Hangs
  <2> QED BY <2>1, <2>2, <2>3 DEF TreeWalk
<1>2. CASE ~Configured
  <2>1. UNCHANGED options
    BY <1>2 DEF LocalNext, localVars, options, Validate, NextRoot, SkipRoot, SkipEntry, Unreadable,
                EnterDirectory, EnterBlind, SkipVisited, TakeFile, LeaveDirectory, EndWalk
  <2>2. CASE follow
    BY <2>1, <2>2 DEF TreeWalk, options
  <2>3. CASE ~follow
    <3>0. PICK entered \in SUBSET Nodes : visited \subseteq entered /\ Hangs(entered, stack)
      BY <2>3 DEF TreeWalk
    <3> DEFINE dirs == \A v \in entered : tree.kind[v] = "dir"
               hangs(root) == \A v \in entered : v = root \/ \E d \in entered : Contains(tree.inside[d], v)
    <3>1. PICK root : hangs(root)
      BY <3>0 DEF Hangs
    <3>2. /\ dirs /\ \A j \in DOMAIN stack : /\ Last(stack[j].path) \in entered
                                               /\ Range(stack[j].left) \cap entered = {}
          /\ \A j, k \in DOMAIN stack : Last(stack[j].path) = Last(stack[k].path) => j = k
      BY <3>0 DEF Hangs
    <3>3. \A j \in DOMAIN stack : Sound(stack[j])
      BY DEF WalkSound
    <3>4. stack \in Seq(Frames) /\ tree \in FileSystems /\ entered \subseteq Nodes
      BY <3>0 DEF WalkTypes
    <3>5. ASSUME NEW new \in SUBSET Nodes, visited' \subseteq new,
                 \A v \in new : tree.kind[v] = "dir",
                 \E r : \A v \in new : v = r \/ \E d \in new : Contains(tree.inside[d], v),
                 \A j \in DOMAIN stack' : /\ Last(stack'[j].path) \in new
                                         /\ Range(stack'[j].left) \cap new = {},
                 \A j, k \in DOMAIN stack' : Last(stack'[j].path) = Last(stack'[k].path) => j = k
          PROVE  TreeWalk'
      <4>1. tree' = tree
        BY <2>1 DEF options
      <4>2. Hangs(new, stack)'
        BY <3>5, <4>1 DEF Hangs
      <4> QED BY <3>5, <4>2 DEF TreeWalk
    <3>6. CASE UNCHANGED <<stack, visited>>
      BY <3>0, <3>1, <3>2, <3>5, <3>6
    <3>7. CASE NextRoot
      <4> DEFINE n == Head(rootsLeft)
                 frame == Opened(Real(n), <<n>>, 1)
      <4>1. /\ walkAct = "walk" /\ rootsLeft # <<>> /\ stack = <<>> /\ RootWalks(n) /\ visited' \subseteq {Real(n)}
            /\ Enters(<<>>, <<>>, Real(n), <<n>>, 1)
        BY <3>7 DEF NextRoot
      <4>2. n \in Nodes /\ tree \in Trees
        BY <4>1, TailFacts DEF WalkTypes
      <4>3. Real(n) = n /\ tree.kind[n] = "dir"
        BY <2>3, <3>4, <4>1, <4>2, RealFacts DEF RootWalks
      <4> HIDE DEF n
      <4>4. <<n>> \in Seq(Nodes) /\ <<>> \in Seq(Frames) /\ <<>> \in Seq(Nodes) /\ 1 \in Nat /\ Last(<<n>>) = n
        BY <4>2 DEF Last
      <4>5. (stack' = <<>> \/ stack' = <<frame>> \o <<>>) /\ frame \in Frames
        BY <4>1, <4>2, <4>3, <4>4, EntersFacts
      <4>6. frame.path = <<n>> /\ frame.left = tree.inside[n]
        BY <4>3 DEF Opened
      <4>7. \A m \in Range(tree.inside[n]) : m # n
        <5>1. /\ {} \in SUBSET Nodes /\ n \notin {} /\ \A v \in {} : tree.kind[v] = "dir"
              /\ Hanging({}, n)
          BY DEF Hanging
        <5> QED BY <4>2, <4>3, <5>1, InsideIsNew
      <4> HIDE DEF frame
      <4>8. \A j \in DOMAIN stack' : j = 1 /\ stack'[j] = frame
        BY <4>5
      <4>9. /\ \A j \in DOMAIN stack' : /\ Last(stack'[j].path) \in {n}
                                        /\ Range(stack'[j].left) \cap {n} = {}
            /\ \A j, k \in DOMAIN stack' : Last(stack'[j].path) = Last(stack'[k].path) => j = k
        BY <4>1, <4>3, <4>4, <4>6, <4>7, <4>8
      <4>10. /\ \A v \in {n} : tree.kind[v] = "dir"
             /\ \A v \in {n} : v = n \/ \E d \in {n} : Contains(tree.inside[d], v)
        BY <4>1, <4>3
      <4>11. {n} \in SUBSET Nodes /\ visited' \subseteq {n}
        BY <4>1, <4>2, <4>3
      <4> QED BY <3>5, <4>9, <4>10, <4>11
    <3>8. CASE Walking /\ stack' = Onward /\ visited' = visited
      <4>1. /\ \A j \in DOMAIN stack' : /\ Last(stack'[j].path) \in entered
                                        /\ Range(stack'[j].left) \cap entered = {}
            /\ \A j, k \in DOMAIN stack' : Last(stack'[j].path) = Last(stack'[k].path) => j = k
        BY <3>2, <3>8, WalkingFacts
      <4>2. visited' \subseteq entered /\ \E r : \A v \in entered : v = r \/ \E d \in entered : Contains(tree.inside[d], v)
        BY <3>0, <3>1, <3>8
      <4> QED BY <3>0, <3>2, <3>5, <4>1, <4>2
    <3>9. CASE EnterDirectory \/ EnterBlind
      <4> DEFINE level == Head(stack).level + 1
                 frame == Opened(Real(Entry), Here, level)
                 above == Last(stack[1].path)
                 new == entered \cup {Entry}
      <4>1. /\ Walking /\ Follows /\ KindOf(Entry) = "dir"
            /\ visited' \subseteq visited \cup {Real(Entry)} /\ Enters(Onward, listed, Real(Entry), Here, level)
        BY <3>9 DEF EnterDirectory, EnterBlind
      <4>2. /\ Onward \in Seq(Frames) /\ Here \in Seq(Nodes) /\ Entry \in Nodes /\ tree \in Trees
            /\ Head(stack) = stack[1] /\ Sound(stack[1]) /\ listed \in Seq(Nodes) /\ stack[1].level \in Nat
            /\ Entry \in Range(stack[1].left) /\ 1 \in DOMAIN stack /\ stack[1] \in Frames
        BY <3>3, <4>1, WalkingFacts DEF WalkTypes, Frames
      <4>3. Real(Entry) = Entry /\ tree.kind[Entry] = "dir" /\ Entry \notin entered
        <5>1. Entry \notin entered
          BY <3>2, <4>2
        <5> QED BY <2>3, <3>4, <4>1, <4>2, <5>1, RealFacts DEF Follows
      <4>4. level \in Nat /\ Last(Here) = Entry
        BY <4>1, <4>2, EntryFacts
      <4> HIDE DEF level
      <4>5. (stack' = Onward \/ stack' = <<frame>> \o Onward) /\ frame \in Frames
        <5>1. /\ Onward \in Seq(Frames) /\ listed \in Seq(Nodes) /\ Real(Entry) \in Nodes
              /\ Here \in Seq(Nodes) /\ level \in Nat
              /\ Enters(Onward, listed, Real(Entry), Here, level)
          BY <4>1, <4>2, <4>3, <4>4
        <5> QED BY <5>1, EntersFacts
      <4>6. frame.path = Here /\ frame.left = tree.inside[Entry]
        BY <4>3 DEF Opened
      <4> HIDE DEF frame
      <4>7. /\ above \in entered /\ above \in Nodes /\ tree.kind[above] = "dir"
            /\ Contains(tree.inside[above], Entry)
        <5>1. above \in entered
          BY <3>2, <4>2
        <5>2. Real(above) = above
          BY <3>2, <3>4, <5>1, RealFacts
        <5> QED BY <3>2, <3>4, <4>2, <5>1, <5>2 DEF Sound
      <4>8. \A n \in Range(tree.inside[Entry]) : n \notin entered \cup {Entry}
        <5>1. /\ tree \in Trees /\ entered \in SUBSET Nodes /\ Entry \in Nodes /\ Entry \notin entered
              /\ tree.kind[Entry] = "dir" /\ (\A v \in entered : tree.kind[v] = "dir")
              /\ Hanging(entered, root)
              /\ entered # {} => \E d \in entered : Contains(tree.inside[d], Entry)
          BY <3>1, <3>2, <3>4, <4>2, <4>3, <4>7 DEF Hanging
        <5> QED BY <5>1, InsideIsNew
      <4>9. ASSUME NEW j \in DOMAIN Onward
            PROVE  /\ Last(Onward[j].path) \in entered /\ Last(Onward[j].path) # Entry
                   /\ Range(Onward[j].left) \cap entered = {} /\ Entry \notin Range(Onward[j].left)
        <5>1. /\ j \in DOMAIN stack /\ Last(Onward[j].path) = Last(stack[j].path)
              /\ Range(Onward[j].left) \subseteq Range(stack[j].left)
          BY <4>1, <4>9, WalkingFacts
        <5>2. CASE j = 1
          BY <3>2, <4>1, <4>2, <4>3, <5>1, <5>2, WalkingFacts DEF Sound
        <5>3. CASE j # 1
          <6>1. Last(stack[j].path) \in entered /\ Last(stack[j].path) # above
            BY <3>2, <4>2, <5>1, <5>3
          <6>2. Real(Last(stack[j].path)) = Last(stack[j].path) /\ tree.kind[Last(stack[j].path)] = "dir"
            BY <3>2, <3>4, <6>1, RealFacts
          <6>3. IsTree(tree)
            BY <4>2, LocalAssumption
          <6>4. ~Contains(tree.inside[Last(stack[j].path)], Entry)
            BY <3>4, <4>2, <4>3, <4>7, <6>1, <6>2, <6>3 DEF IsTree
          <6>5. Entry \notin Range(stack[j].left)
            BY <3>3, <5>1, <6>2, <6>4 DEF Sound
          <6> QED BY <3>2, <4>1, <4>3, <5>1, <6>5
        <5> QED BY <5>2, <5>3
      <4>10. \A j, k \in DOMAIN Onward : Last(Onward[j].path) = Last(Onward[k].path) => j = k
        BY <3>2, <4>1, WalkingFacts
      <4>11. /\ \A j \in DOMAIN stack' : /\ Last(stack'[j].path) \in new
                                         /\ Range(stack'[j].left) \cap new = {}
             /\ \A j, k \in DOMAIN stack' : Last(stack'[j].path) = Last(stack'[k].path) => j = k
        <5>1. CASE stack' = Onward
          BY <4>1, <4>3, <4>9, <4>10, <5>1
        <5>2. CASE stack' = <<frame>> \o Onward
          <6>1. /\ DOMAIN stack' = 1 .. Len(Onward) + 1 /\ stack'[1] = frame
                /\ \A i \in 2 .. Len(Onward) + 1 : i - 1 \in DOMAIN Onward /\ stack'[i] = Onward[i - 1]
            BY <4>2, <4>5, <5>2, PushFacts
          <6>2. \A j \in DOMAIN stack' : j \in Nat /\ (j = 1 \/ j \in 2 .. Len(Onward) + 1)
            BY <6>1
          <6>3. \A j \in DOMAIN stack' : j = 1 \/ (j - 1 \in DOMAIN Onward /\ stack'[j] = Onward[j - 1])
            BY <6>1, <6>2
          <6>4. \A j \in DOMAIN stack' : /\ Last(stack'[j].path) \in new
                                         /\ Range(stack'[j].left) \cap new = {}
            BY <4>1, <4>3, <4>4, <4>6, <4>8, <4>9, <6>1, <6>3
          <6>5. ASSUME NEW j \in DOMAIN stack', NEW k \in DOMAIN stack',
                       Last(stack'[j].path) = Last(stack'[k].path)
                PROVE  j = k
            <7>1. \A i \in DOMAIN stack' : i # 1 => Last(stack'[i].path) # Entry
              BY <4>9, <6>3
            <7>2. Last(stack'[1].path) = Entry
              BY <4>4, <4>6, <6>1
            <7>3. CASE j = 1 \/ k = 1
              BY <6>5, <7>1, <7>2, <7>3
            <7>4. CASE j # 1 /\ k # 1
              <8>1. j - 1 = k - 1
                BY <4>10, <6>3, <6>5, <7>4
              <8> QED BY <6>2, <8>1
            <7> QED BY <7>3, <7>4
          <6> QED BY <6>4, <6>5
        <5> QED BY <4>5, <5>1, <5>2
      <4>12. /\ \A v \in new : tree.kind[v] = "dir"
             /\ \A v \in new : v = root \/ \E d \in new : Contains(tree.inside[d], v)
        BY <3>1, <3>2, <4>1, <4>3, <4>7
      <4>13. new \in SUBSET Nodes /\ visited' \subseteq new
        BY <3>0, <4>1, <4>2, <4>3
      <4> HIDE DEF new
      <4> QED BY <3>5, <4>11, <4>12, <4>13
    <3>10. CASE LeaveDirectory
      <4>1. stack # <<>> /\ stack' = Tail(stack) /\ visited' = visited
        BY <3>10 DEF LeaveDirectory
      <4>2. \A j \in DOMAIN stack' : j \in Nat /\ j + 1 \in DOMAIN stack /\ stack'[j] = stack[j + 1]
        BY <3>4, <4>1, TailFacts
      <4>3. /\ \A j \in DOMAIN stack' : /\ Last(stack'[j].path) \in entered
                                        /\ Range(stack'[j].left) \cap entered = {}
        BY <3>2, <4>1, <4>2
      <4>4. ASSUME NEW j \in DOMAIN stack', NEW k \in DOMAIN stack', Last(stack'[j].path) = Last(stack'[k].path)
            PROVE  j = k
        <5>1. j + 1 = k + 1
          BY <3>2, <4>2, <4>4
        <5> QED BY <4>2, <5>1
      <4>5. /\ visited' \subseteq entered /\ \A v \in entered : tree.kind[v] = "dir"
            /\ \E r : \A v \in entered : v = r \/ \E d \in entered : Contains(tree.inside[d], v)
        BY <3>0, <3>1, <3>2, <4>1
      <4> QED BY <3>5, <4>3, <4>4, <4>5
    <3> QED
      BY <1>2, <3>6, <3>7, <3>8, <3>9, <3>10
      DEF LocalNext, localVars, Validate, SkipRoot, SkipEntry, Unreadable, SkipVisited, TakeFile, EndWalk
  <2> QED BY <2>2, <2>3
<1> QED
  BY <1>1, <1>2

\* Where no link is followed and everything could be read, what belongs to the tree has
\* been offered or is still to come.
NothingLeftOut ==
  ~follow /\ ~lost =>
    \A p \in Seq(Nodes) : Belongs(p) /\ p[1] \in Range(roots) =>
      \/ p \in Range(found) \/ p[1] \in Range(rootsLeft)
      \/ \E j \in DOMAIN stack : Pending(stack[j], p)

\* A path that goes through the next entry ends there, or goes on inside it.
LEMMA ThroughEntry ==
  ASSUME WalkTypes, Walking, Sound(stack[1]), ~follow, NEW p \in Seq(Nodes), Belongs(p),
         Len(Here) <= Len(p), \A i \in 1 .. Len(Here) : p[i] = Here[i]
  PROVE  /\ tree.kind[Entry] # "link"
         /\ \/ KindOf(Entry) = "picture" /\ p = Here
            \/ /\ KindOf(Entry) = "dir" /\ recursive /\ Len(Here) < Len(p) /\ Len(Here) <= depth
               /\ p[Len(Here) + 1] \in Range(tree.inside[Real(Entry)])
<1> DEFINE m == Len(Here)
<1>1. /\ Here = Append(stack[1].path, Entry) /\ Here \in Seq(Nodes) /\ stack[1].path \in Seq(Nodes)
      /\ Entry \in Nodes /\ tree \in FileSystems /\ depth \in Nat
  BY WalkingFacts DEF WalkTypes
<1>2. m = Len(stack[1].path) + 1 /\ m \in Nat /\ Here[m] = Entry /\ Len(stack[1].path) \in Nat
  BY <1>1, AppendFacts
<1>3. stack[1].path # <<>> /\ Len(stack[1].path) >= 1
  BY DEF Sound, WalkTypes
<1>4. m >= 2 /\ p[m] = Entry /\ m \in 1 .. Len(p) /\ DOMAIN p = 1 .. Len(p) /\ Len(p) \in Nat
  BY <1>2, <1>3
<1>5. tree.kind[Entry] # "link"
  BY <1>4 DEF Belongs
<1>6. CASE m = Len(p)
  <2>1. KindOf(Entry) = "picture"
    BY <1>4, <1>6 DEF Belongs, Last
  <2>2. p = Here
    BY <1>1, <1>6, SeqEqual
  <2> QED BY <1>5, <2>1, <2>2
<1>7. CASE m # Len(p)
  <2>1. m \in 1 .. Len(p) - 1 /\ Len(p) # 2 /\ m < Len(p)
    BY <1>4, <1>7
  <2>2. KindOf(Entry) = "dir" /\ Contains(tree.inside[Real(Entry)], p[m + 1]) /\ recursive
    BY <1>4, <2>1 DEF Belongs
  <2>3. Len(p) \in 2 .. depth + 1
    BY DEF Belongs
  <2>4. m <= depth
    BY <1>1, <1>4, <2>1, <2>3
  <2>5. tree.inside[Real(Entry)] \in Seq(Nodes)
    BY <1>1, <2>2, RealFacts
  <2> QED BY <1>5, <2>1, <2>2, <2>4, <2>5, Within
<1> QED
  BY <1>6, <1>7

\* Every step offers what it takes out of what is to come, or opens it.
LEMMA NothingLeftOutStep ==
  WalkTypes /\ WalkSound /\ TreeWalk /\ NothingLeftOut /\ [LocalNext]_localVars => NothingLeftOut'
<1> SUFFICES ASSUME WalkTypes, WalkSound, TreeWalk, NothingLeftOut, [LocalNext]_localVars,
                    ~follow', ~lost', NEW p \in Seq(Nodes), Belongs(p)', p[1] \in Range(roots')
             PROVE  \/ p \in Range(found') \/ p[1] \in Range(rootsLeft')
                    \/ \E j \in DOMAIN stack' : Pending(stack'[j], p)
  BY DEF NothingLeftOut
<1>1. CASE Configured
  BY <1>1 DEF Configured
<1>2. CASE ~Configured
  <2>1. UNCHANGED options
    BY <1>2 DEF LocalNext, localVars, options, Validate, NextRoot, SkipRoot, SkipEntry, Unreadable,
                EnterDirectory, EnterBlind, SkipVisited, TakeFile, LeaveDirectory, EndWalk
  <2>2. ~follow /\ p[1] \in Range(roots) /\ Belongs(p)
    BY <2>1, OptionsStay DEF options
  <2>3. ~lost
    BY <1>2 DEF LocalNext, localVars, Validate, NextRoot, SkipRoot, SkipEntry, Unreadable, Enters,
                EnterDirectory, EnterBlind, SkipVisited, TakeFile, LeaveDirectory, EndWalk
  <2>4. \/ p \in Range(found) \/ p[1] \in Range(rootsLeft)
        \/ \E j \in DOMAIN stack : Pending(stack[j], p)
    BY <2>2, <2>3 DEF NothingLeftOut
  <2>5. \A j \in DOMAIN stack : Sound(stack[j])
    BY DEF WalkSound
  <2>6. /\ rootsLeft \in Seq(Nodes) /\ stack \in Seq(Frames) /\ found \in Seq(Seq(Nodes))
        /\ tree \in FileSystems /\ depth \in Nat
    BY DEF WalkTypes
  <2>7. Len(p) \in 2 .. depth + 1 /\ KindOf(p[1]) = "dir" /\ tree.kind[p[1]] # "link"
        /\ Contains(tree.inside[Real(p[1])], p[2]) /\ p[1] \in Nodes
    <3>1. Len(p) \in 2 .. depth + 1
      BY <2>2 DEF Belongs
    <3>2. 1 \in 1 .. Len(p) - 1 /\ 1 \in DOMAIN p /\ 1 + 1 = 2
      BY <2>6, <3>1
    <3>3. tree.kind[p[1]] = "link" => follow
      BY <2>2, <3>2 DEF Belongs
    <3>4. KindOf(p[1]) = "dir" /\ Contains(tree.inside[Real(p[1])], p[1 + 1])
      BY <2>2, <3>2 DEF Belongs
    <3>5. p[1] \in Nodes
      BY <3>2
    <3> QED BY <2>2, <3>1, <3>2, <3>3, <3>4, <3>5
  <2>8. CASE UNCHANGED <<stack, found, rootsLeft>>
    BY <2>4, <2>8
  <2>9. CASE NextRoot
    <3> DEFINE n == Head(rootsLeft)
               frame == Opened(Real(n), <<n>>, 1)
    <3>1. /\ rootsLeft # <<>> /\ stack = <<>> /\ RootWalks(n) /\ rootsLeft' = Tail(rootsLeft)
          /\ Enters(<<>>, <<>>, Real(n), <<n>>, 1) /\ found' = found
      BY <2>9 DEF NextRoot
    <3>2. n \in Nodes
      BY <2>6, <3>1, TailFacts
    <3>3. Real(n) \in Nodes /\ tree.inside[Real(n)] \in Seq(Nodes)
      BY <2>6, <3>1, <3>2, RealFacts DEF RootWalks
    <3>4. Range(rootsLeft) = {n} \cup Range(rootsLeft')
      BY <2>6, <3>1, TailRange
    <3> HIDE DEF n
    <3>5. <<n>> \in Seq(Nodes) /\ <<>> \in Seq(Frames) /\ <<>> \in Seq(Nodes) /\ 1 \in Nat /\ DOMAIN <<>> = {}
      BY <3>2
    <3>6. (1 > depth \/ stack' = <<frame>> \o <<>>) /\ frame \in Frames
      BY <3>1, <3>3, <3>5, EntersFacts
    <3>7. stack' = <<frame>> \o <<>>
      BY <2>6, <2>7, <3>6
    <3>8. 1 \in DOMAIN stack' /\ stack'[1] = frame
      <4> HIDE DEF frame
      <4> QED BY <3>5, <3>6, <3>7, PushFacts
    <3>9. CASE p[1] = n
      <4>1. /\ frame.path = <<n>> /\ frame.left = tree.inside[Real(n)] /\ Len(<<n>>) = 1
            /\ \A i \in 1 .. 1 : <<n>>[i] = n /\ i = 1
        BY DEF Opened
      <4>2. p[1 + 1] \in Range(frame.left) /\ 1 < Len(p)
        BY <2>6, <2>7, <3>3, <3>9, <4>1, Within
      <4>3. Pending(frame, p)
        BY <3>9, <4>1, <4>2 DEF Pending
      <4> QED BY <3>8, <4>3
    <3>10. CASE p[1] # n
      BY <2>4, <3>1, <3>4, <3>5, <3>10
    <3> QED BY <3>9, <3>10
  <2>10. CASE SkipRoot
    <3>1. /\ rootsLeft # <<>> /\ rootsLeft' = Tail(rootsLeft) /\ UNCHANGED <<stack, found>>
          /\ ~RootWalks(Head(rootsLeft))
      BY <2>10 DEF SkipRoot
    <3>2. Range(rootsLeft) = {Head(rootsLeft)} \cup Range(rootsLeft')
      BY <2>6, <3>1, TailRange
    <3>3. p[1] # Head(rootsLeft)
      BY <2>7, <3>1 DEF RootWalks
    <3> QED BY <2>4, <3>1, <3>2, <3>3
  <2>11. CASE Walking /\ (stack' = Onward \/ EnterDirectory \/ EnterBlind) /\ rootsLeft' = rootsLeft
    <3>1. /\ Onward \in Seq(Frames) /\ DOMAIN Onward = DOMAIN stack /\ 1 \in DOMAIN stack /\ Entry \in Nodes
          /\ \A j \in DOMAIN stack : j # 1 => Onward[j] = stack[j]
          /\ Here \in Seq(Nodes) /\ Sound(stack[1]) /\ Entry \in Range(stack[1].left)
          /\ Head(stack) = stack[1] /\ found' \in {found, Append(found, Here)}
      BY <1>2, <2>5, <2>11, WalkingFacts
      DEF LocalNext, localVars, Validate, NextRoot, SkipRoot, SkipEntry, Unreadable, Walking,
          EnterDirectory, EnterBlind, SkipVisited, TakeFile, LeaveDirectory, EndWalk
    <3>0. Head(stack).level + 1 \in Nat /\ listed \in Seq(Nodes) /\ stack[1] \in Frames
      <4>1. Head(stack) = stack[1] /\ stack[1] \in Frames
        BY <2>11, WalkingFacts
      <4> QED BY <4>1 DEF WalkTypes, Frames
    <3>2. Range(found) \subseteq Range(found')
      <4>1. Range(found) \subseteq Range(Append(found, Here))
        BY <2>6, <3>1, AppendFacts DEF Range
      <4> QED BY <3>1, <4>1
    <3>3. ASSUME NEW j \in DOMAIN Onward, Pending(Onward[j], p)
          PROVE  \E k \in DOMAIN stack' : Pending(stack'[k], p)
      <4>1. CASE stack' = Onward
        BY <3>3, <4>1
      <4>2. CASE EnterDirectory \/ EnterBlind
        <5>1. Enters(Onward, listed, Real(Entry), Here, Head(stack).level + 1) /\ KindOf(Entry) = "dir"
          BY <4>2 DEF EnterDirectory, EnterBlind
        <5>2. Real(Entry) \in Nodes
          BY <2>6, <3>1, <5>1, RealFacts
        <5>3. \/ stack' = Onward
              \/ \E f \in Frames : stack' = <<f>> \o Onward
          BY <3>0, <3>1, <5>1, <5>2, EntersFacts
        <5>4. ASSUME NEW f \in Frames, stack' = <<f>> \o Onward
              PROVE  \E k \in DOMAIN stack' : Pending(stack'[k], p)
          <6>1. /\ DOMAIN stack' = 1 .. Len(Onward) + 1 /\ stack'[j + 1] = Onward[j]
            BY <3>1, <3>3, <5>4, PushFacts
          <6>2. j + 1 \in DOMAIN stack'
            BY <3>1, <3>3, <6>1
          <6> QED BY <3>3, <6>1, <6>2
        <5> QED BY <3>3, <5>3, <5>4
      <4> QED BY <2>11, <4>1, <4>2
    <3>4. CASE \E j \in DOMAIN Onward : Pending(Onward[j], p)
      BY <3>3, <3>4
    <3>5. CASE p \in Range(found) \/ p[1] \in Range(rootsLeft)
      BY <2>11, <3>2, <3>5
    <3>6. CASE ~(\E j \in DOMAIN Onward : Pending(Onward[j], p)) /\ \E j \in DOMAIN stack : Pending(stack[j], p)
      <4>1. Pending(stack[1], p) /\ ~Pending(Onward[1], p)
        BY <3>1, <3>6
      <4>2. Len(Here) <= Len(p) /\ \A i \in 1 .. Len(Here) : p[i] = Here[i]
        BY <2>11, <3>1, <4>1, PendingHere
      <4>3. /\ tree.kind[Entry] # "link"
            /\ \/ KindOf(Entry) = "picture" /\ p = Here
               \/ /\ KindOf(Entry) = "dir" /\ recursive /\ Len(Here) < Len(p) /\ Len(Here) <= depth
                  /\ p[Len(Here) + 1] \in Range(tree.inside[Real(Entry)])
        BY <2>2, <2>11, <3>1, <4>2, ThroughEntry
      <4>4. CASE TakeFile
        <5>1. KindOf(Entry) = "picture" /\ found' = Append(found, Here)
          BY <4>4 DEF TakeFile
        <5>2. p = Here /\ p \in Range(found')
          BY <2>6, <3>1, <4>3, <5>1, AppendFacts DEF Range
        <5> QED BY <5>2
      <4>5. CASE EnterDirectory \/ EnterBlind
        <5> DEFINE level == Head(stack).level + 1
                   frame == Opened(Real(Entry), Here, level)
        <5>1. KindOf(Entry) = "dir" /\ Follows /\ Enters(Onward, listed, Real(Entry), Here, level)
          BY <4>5 DEF EnterDirectory, EnterBlind
        <5>2. Real(Entry) \in Nodes /\ level \in Nat
          BY <2>6, <3>0, <3>1, <5>1, RealFacts
        <5>3. level = Len(Here)
          BY <2>11, <3>1, <5>1, EntryFacts
        <5> HIDE DEF level
        <5>4. Len(Here) <= depth /\ Len(Here) \in Nat /\ ~ (level > depth)
          BY <2>6, <3>1, <4>3, <5>1, <5>3
        <5>5. stack' = <<frame>> \o Onward /\ frame \in Frames
          BY <3>0, <3>1, <5>1, <5>2, <5>4, EntersFacts
        <5>6. Pending(frame, p)
          BY <4>2, <4>3, <5>1 DEF Pending, Opened
        <5>7. 1 \in DOMAIN stack' /\ stack'[1] = frame
          <6> HIDE DEF frame
          <6> QED BY <3>1, <5>5, PushFacts
        <5> QED BY <5>6, <5>7
      <4>6. CASE SkipEntry
        BY <2>2, <4>3, <4>6 DEF SkipEntry
      <4>7. CASE SkipVisited
        <5>1. Real(Entry) = Entry /\ Entry \in visited
          BY <2>6, <3>1, <4>3, <4>7, RealFacts DEF SkipVisited
        <5> QED BY <2>2, <3>1, <5>1 DEF TreeWalk, Hangs
      <4>8. CASE Unreadable
        BY <4>8 DEF Unreadable
      <4>9. CASE UNCHANGED stack
        BY <3>6, <4>9
      <4> QED
        BY <1>2, <2>11, <4>4, <4>5, <4>6, <4>7, <4>8, <4>9
        DEF LocalNext, localVars, Validate, NextRoot, SkipRoot, LeaveDirectory, EndWalk, Walking
    <3> QED BY <2>4, <3>4, <3>5, <3>6
  <2>12. CASE LeaveDirectory
    <3>1. stack # <<>> /\ Head(stack).left = <<>> /\ stack' = Tail(stack) /\ UNCHANGED <<found, rootsLeft>>
      BY <2>12 DEF LeaveDirectory
    <3>2. /\ Head(stack) = stack[1]
          /\ \A j \in DOMAIN stack : j = 1 \/ (j - 1 \in DOMAIN stack' /\ stack'[j - 1] = stack[j])
      BY <2>6, <3>1, TailFacts
    <3>3. ~Pending(stack[1], p)
      BY <3>1, <3>2 DEF Pending, Range
    <3> QED BY <2>4, <3>1, <3>2, <3>3
  <2> QED
    BY <1>2, <2>8, <2>9, <2>10, <2>11, <2>12
    DEF LocalNext, localVars, Validate, SkipEntry, Unreadable, EnterDirectory, EnterBlind, SkipVisited, TakeFile, EndWalk
<1> QED
  BY <1>1, <1>2

\* What is offered, walked and still to come is under the configured paths.
Rooted ==
  /\ Range(rootsLeft) \subseteq Range(roots)
  /\ \A j \in DOMAIN stack : stack[j].path[1] \in Range(roots)
  /\ \A i \in DOMAIN found : found[i][1] \in Range(roots)

\* One entry further down is under the same path.
LEMMA HereRooted ==
  ASSUME WalkTypes, WalkSound, Walking
  PROVE  Here[1] = stack[1].path[1]
<1>1. Sound(stack[1]) /\ stack[1].path \in Seq(Nodes) /\ Entry \in Nodes /\ Here = Append(stack[1].path, Entry)
  BY WalkingFacts DEF WalkSound
<1>2. 1 \in DOMAIN stack[1].path
  BY <1>1 DEF Sound, WalkTypes
<1> QED
  BY <1>1, <1>2, AppendFacts

\* Every step stays under them.
LEMMA RootedStep == WalkTypes /\ WalkSound /\ Rooted /\ [LocalNext]_localVars => Rooted'
<1> SUFFICES ASSUME WalkTypes, WalkSound, Rooted, [LocalNext]_localVars PROVE Rooted'
  OBVIOUS
<1>1. CASE Configured
  <2>1. stack' = <<>> /\ found' = <<>> /\ rootsLeft' = roots'
    BY <1>1 DEF Configured, WalkTypes
  <2>2. DOMAIN stack' = {} /\ DOMAIN found' = {}
    BY <2>1
  <2> QED BY <2>1, <2>2 DEF Rooted
<1>2. CASE ~Configured
  <2>1. roots' = roots
    BY <1>2 DEF LocalNext, localVars, options, Validate, NextRoot, SkipRoot, SkipEntry, Unreadable,
                EnterDirectory, EnterBlind, SkipVisited, TakeFile, LeaveDirectory, EndWalk
  <2>2. /\ Range(rootsLeft) \subseteq Range(roots)
        /\ \A j \in DOMAIN stack : stack[j].path[1] \in Range(roots)
        /\ \A i \in DOMAIN found : found[i][1] \in Range(roots)
    BY DEF Rooted
  <2>3. rootsLeft \in Seq(Nodes) /\ found \in Seq(Seq(Nodes)) /\ stack \in Seq(Frames) /\ tree \in FileSystems
    BY DEF WalkTypes
  <2>4. CASE UNCHANGED <<stack, found, rootsLeft>>
    BY <2>1, <2>2, <2>4 DEF Rooted
  <2>5. CASE NextRoot
    <3> DEFINE n == Head(rootsLeft)
               frame == Opened(Real(n), <<n>>, 1)
    <3>1. /\ rootsLeft # <<>> /\ stack = <<>> /\ RootWalks(n) /\ rootsLeft' = Tail(rootsLeft)
          /\ Enters(<<>>, <<>>, Real(n), <<n>>, 1) /\ found' = found
      BY <2>5 DEF NextRoot
    <3>2. n \in Nodes /\ Range(rootsLeft) = {n} \cup Range(rootsLeft')
      BY <2>3, <3>1, TailFacts, TailRange
    <3>3. Real(n) \in Nodes
      BY <2>3, <3>1, <3>2, RealFacts DEF RootWalks
    <3> HIDE DEF n
    <3>4. <<n>> \in Seq(Nodes) /\ <<>> \in Seq(Frames) /\ <<>> \in Seq(Nodes) /\ 1 \in Nat
      BY <3>2
    <3>5. stack' = <<>> \/ stack' = <<frame>> \o <<>>
      BY <3>1, <3>3, <3>4, EntersFacts
    <3>6. frame.path[1] = n
      BY DEF Opened
    <3> HIDE DEF frame
    <3>7. \A j \in DOMAIN stack' : stack'[j] = frame
      BY <3>5
    <3> QED BY <2>1, <2>2, <3>1, <3>2, <3>6, <3>7 DEF Rooted
  <2>6. CASE SkipRoot
    <3>1. /\ rootsLeft # <<>> /\ rootsLeft' = Tail(rootsLeft) /\ UNCHANGED <<stack, found>>
      BY <2>6 DEF SkipRoot
    <3> QED BY <2>1, <2>2, <2>3, <3>1, TailRange DEF Rooted
  <2>7. CASE Walking /\ stack' = Onward /\ found' \in {found, Append(found, Here)} /\ rootsLeft' = rootsLeft
    <3>1. \A j \in DOMAIN stack' : stack'[j].path[1] \in Range(roots)
      BY <2>2, <2>7, WalkingFacts
    <3>2. Here \in Seq(Nodes) /\ Here[1] \in Range(roots)
      BY <2>2, <2>7, WalkingFacts, HereRooted
    <3>3. \A i \in DOMAIN found' : found'[i][1] \in Range(roots)
      <4>1. CASE found' = found
        BY <2>2, <4>1
      <4>2. CASE found' = Append(found, Here)
        <5>1. /\ DOMAIN found' = DOMAIN found \cup {Len(found) + 1} /\ found'[Len(found) + 1] = Here
              /\ \A i \in DOMAIN found : found'[i] = found[i]
          BY <2>3, <3>2, <4>2, AppendFacts
        <5> QED BY <2>2, <3>2, <5>1
      <4> QED BY <2>7, <4>1, <4>2
    <3> QED BY <2>1, <2>2, <2>7, <3>1, <3>3 DEF Rooted
  <2>8. CASE EnterDirectory \/ EnterBlind
    <3> DEFINE level == Head(stack).level + 1
               frame == Opened(Real(Entry), Here, level)
    <3>1. /\ Walking /\ KindOf(Entry) = "dir" /\ UNCHANGED <<found, rootsLeft>>
          /\ Enters(Onward, listed, Real(Entry), Here, level)
      BY <2>8 DEF EnterDirectory, EnterBlind
    <3>2. /\ Onward \in Seq(Frames) /\ Here \in Seq(Nodes) /\ Entry \in Nodes /\ DOMAIN Onward = DOMAIN stack
          /\ level \in Nat /\ listed \in Seq(Nodes) /\ Here[1] \in Range(roots)
      <4>1. Here[1] \in Range(roots)
        BY <2>2, <3>1, WalkingFacts, HereRooted
      <4>2. Head(stack) = stack[1] /\ stack[1] \in Frames
        BY <3>1, WalkingFacts
      <4>3. level \in Nat
        BY <4>2 DEF Frames
      <4> HIDE DEF level
      <4> QED BY <3>1, <4>1, <4>3, WalkingFacts DEF WalkTypes
    <3>3. Real(Entry) \in Nodes
      BY <2>3, <3>1, <3>2, RealFacts
    <3> HIDE DEF level
    <3>4. (stack' = Onward \/ stack' = <<frame>> \o Onward) /\ frame \in Frames
      BY <3>1, <3>2, <3>3, EntersFacts
    <3>5. frame.path = Here
      BY DEF Opened
    <3> HIDE DEF frame
    <3>6. \A j \in DOMAIN Onward : Onward[j].path[1] \in Range(roots)
      BY <2>2, <3>1, WalkingFacts
    <3>7. \A j \in DOMAIN stack' : stack'[j].path[1] \in Range(roots)
      <4>1. CASE stack' = Onward
        BY <3>6, <4>1
      <4>2. CASE stack' = <<frame>> \o Onward
        <5>1. /\ DOMAIN stack' = 1 .. Len(Onward) + 1 /\ stack'[1] = frame
              /\ \A i \in 2 .. Len(Onward) + 1 : i - 1 \in DOMAIN Onward /\ stack'[i] = Onward[i - 1]
          BY <3>2, <3>4, <4>2, PushFacts
        <5>2. \A j \in DOMAIN stack' : j = 1 \/ j \in 2 .. Len(Onward) + 1
          BY <5>1
        <5> QED BY <3>2, <3>5, <3>6, <5>1, <5>2
      <4> QED BY <3>4, <4>1, <4>2
    <3> QED BY <2>1, <2>2, <3>1, <3>7 DEF Rooted
  <2>9. CASE LeaveDirectory
    <3>1. stack # <<>> /\ stack' = Tail(stack) /\ UNCHANGED <<found, rootsLeft>>
      BY <2>9 DEF LeaveDirectory
    <3> QED BY <2>1, <2>2, <2>3, <3>1, TailFacts DEF Rooted
  <2> QED
    BY <1>2, <2>4, <2>5, <2>6, <2>7, <2>8, <2>9
    DEF LocalNext, localVars, Validate, SkipEntry, Unreadable, SkipVisited, TakeFile, EndWalk
<1> QED
  BY <1>1, <1>2

\* Of two equal sequences, the shorter beginning is a beginning of the longer one; and where
\* they begin alike they go on alike.
LEMMA BeginsAlike ==
  ASSUME NEW S, NEW a \in Seq(S), NEW b \in Seq(S), NEW s \in Seq(S), NEW t \in Seq(S), a \o s = b \o t
  PROVE  (IsPrefix(a, b) \/ IsPrefix(b, a)) /\ (a = b => s = t)
<1>1. /\ Len(a) \in Nat /\ Len(b) \in Nat /\ Len(s) \in Nat /\ Len(t) \in Nat
      /\ Len(a \o s) = Len(a) + Len(s) /\ Len(b \o t) = Len(b) + Len(t)
  OBVIOUS
<1>2. /\ \A i \in 1 .. Len(a) : (a \o s)[i] = a[i]
      /\ \A i \in 1 .. Len(b) : (a \o s)[i] = b[i]
  OBVIOUS
<1>3. ASSUME Len(a) <= Len(b) PROVE IsPrefix(a, b)
  <2>1. SubSeq(a, 1, Len(a)) = SubSeq(b, 1, Len(a))
    BY <1>1, <1>2, <1>3
  <2> QED BY <1>3, <2>1 DEF IsPrefix
<1>4. ASSUME Len(b) <= Len(a) PROVE IsPrefix(b, a)
  <2>1. SubSeq(b, 1, Len(b)) = SubSeq(a, 1, Len(b))
    BY <1>1, <1>2, <1>4
  <2> QED BY <1>4, <2>1 DEF IsPrefix
<1>5. ASSUME a = b PROVE s = t
  <2>1. Len(s) = Len(t) /\ DOMAIN s = 1 .. Len(s) /\ DOMAIN t = 1 .. Len(t)
    BY <1>1, <1>5
  <2>2. ASSUME NEW i \in 1 .. Len(s) PROVE s[i] = t[i]
    <3>1. (a \o s)[Len(a) + i] = s[i] /\ (b \o t)[Len(b) + i] = t[i]
      BY <2>1
    <3> QED BY <1>5, <3>1
  <2> QED BY <2>1, <2>2, SeqEqual
<1> QED
  BY <1>1, <1>3, <1>4, <1>5

\* Where no root is above another, two candidates of one origin are one: their roots are the
\* same entry of `paths`, and under one root a path is offered once.
LEMMA OneOrigin ==
  ASSUME WalkTypes, WalkSound, FoundOnce, Rooted, ~Overlap,
         NEW i \in DOMAIN found, NEW j \in DOMAIN found, Origin(found[i]) = Origin(found[j])
  PROVE  i = j
<1> DEFINE p == found[i]
           q == found[j]
<1>1. /\ p \in Seq(Nodes) /\ q \in Seq(Nodes) /\ roots \in Seq(Nodes) /\ tree \in FileSystems
      /\ p[1] \in Range(roots) /\ q[1] \in Range(roots)
  BY ElementsOf DEF WalkTypes, Rooted
<1>2. Len(p) >= 2 /\ Len(q) >= 2
  BY DEF WalkSound, Belongs, WalkTypes
<1>3. tree.at \in [Nodes -> Seq(Nodes)]
  BY <1>1 DEF FileSystems
<1>4. PICK m \in DOMAIN roots, n \in DOMAIN roots : roots[m] = p[1] /\ roots[n] = q[1]
  BY <1>1 DEF Range
<1>5. /\ tree.at[p[1]] \in Seq(Nodes) /\ tree.at[q[1]] \in Seq(Nodes)
      /\ Tail(p) \in Seq(Nodes) /\ Tail(q) \in Seq(Nodes) /\ p # <<>> /\ q # <<>>
  <2>1. tree.at[p[1]] \in Seq(Nodes) /\ tree.at[q[1]] \in Seq(Nodes)
    <3>1. p[1] \in Nodes /\ q[1] \in Nodes
      BY <1>1, <1>2
    <3> QED BY <1>3, <3>1
  <2> HIDE DEF p, q
  <2>2. p # <<>> /\ q # <<>>
    BY <1>2
  <2> QED BY <1>1, <2>1, <2>2, TailFacts
<1>6. /\ IsPrefix(tree.at[p[1]], tree.at[q[1]]) \/ IsPrefix(tree.at[q[1]], tree.at[p[1]])
      /\ tree.at[p[1]] = tree.at[q[1]] => Tail(p) = Tail(q)
  <2> DEFINE a == tree.at[p[1]]
             b == tree.at[q[1]]
             c == Tail(p)
             d == Tail(q)
  <2>1. a \in Seq(Nodes) /\ b \in Seq(Nodes) /\ c \in Seq(Nodes) /\ d \in Seq(Nodes) /\ a \o c = b \o d
    BY <1>5 DEF Origin
  <2> HIDE DEF a, b, c, d
  <2>2. (IsPrefix(a, b) \/ IsPrefix(b, a)) /\ (a = b => c = d)
    BY <2>1, BeginsAlike, Zenon
  <2> QED BY <2>2 DEF a, b, c, d
<1>7. m = n
  BY <1>4, <1>6 DEF Overlap
<1>8. p[1] = q[1] /\ Tail(p) = Tail(q)
  BY <1>4, <1>6, <1>7
<1>9. p = q
  <2> HIDE DEF p, q
  <2>1. /\ \A i1 \in DOMAIN p : i1 = 1 \/ (i1 - 1 \in DOMAIN Tail(p) /\ Tail(p)[i1 - 1] = p[i1])
        /\ \A i1 \in DOMAIN q : i1 = 1 \/ (i1 - 1 \in DOMAIN Tail(q) /\ Tail(q)[i1 - 1] = q[i1])
    BY <1>1, <1>5, TailFacts
  <2>2. Len(p) = Len(Tail(p)) + 1 /\ Len(q) = Len(Tail(q)) + 1 /\ DOMAIN p = 1 .. Len(p) /\ DOMAIN q = 1 .. Len(q)
    BY <1>1, <1>5
  <2>3. Len(p) = Len(q) /\ \A k \in 1 .. Len(p) : p[k] = q[k]
    <3>1. Len(p) = Len(q)
      BY <1>8, <2>2
    <3>2. ASSUME NEW k \in DOMAIN p PROVE p[k] = q[k]
      <4>1. CASE k = 1
        BY <1>8, <4>1
      <4>2. CASE k # 1
        <5>1. Tail(p)[k - 1] = p[k]
          BY <2>1, <4>2
        <5>2. Tail(q)[k - 1] = q[k]
          BY <2>1, <2>2, <3>1, <4>2
        <5> QED BY <1>8, <5>1, <5>2
      <4> QED BY <4>1, <4>2
    <3> QED BY <2>2, <3>1, <3>2
  <2> QED BY <1>1, <2>3, SeqEqual
<1>10. IsInjective(found)
  <2>1. ASSUME NEW k \in DOMAIN roots, NEW l \in DOMAIN roots, roots[k] = roots[l] PROVE k = l
    <3>1. IsPrefix(tree.at[roots[k]], tree.at[roots[l]])
      BY <2>1 DEF IsPrefix
    <3> QED BY <2>1, <3>1 DEF Overlap
  <2> QED BY <2>1 DEF FoundOnce, OnceIn, IsInjective
<1> QED
  BY <1>9, <1>10 DEF IsInjective

\* For every tree, roots, depth and options, with cycles of links, directories without a
\* canonical path and entries that cannot be read: no directory with one is read twice under a
\* root, what is offered belongs to the tree, each path once under each root, no absolute path
\* twice where no root is above another, and where no link is followed and nothing was lost it
\* is all that belongs (local.rs: enumerate, walk). Under overlapping roots the code offers an
\* origin twice, and under followed links it may miss a directory it first reached too deep:
\* neither is claimed.
THEOREM TheWalkIsTheTree == LocalSpec => []WalkIsTheTree
<1> DEFINE Inv == WalkTypes /\ WalkSound /\ FoundOnce /\ TreeWalk /\ NothingLeftOut /\ Rooted
<1>1. LocalInit => Inv
  <2> SUFFICES ASSUME LocalInit PROVE Inv
    OBVIOUS
  <2>1. stack = <<>> /\ found = <<>> /\ listed = <<>> /\ roots = <<>> /\ rootsLeft = <<>> /\ visited = {}
    BY DEF LocalInit
  <2>2. /\ DOMAIN stack = {} /\ DOMAIN found = {} /\ DOMAIN listed = {}
        /\ DOMAIN roots = {} /\ DOMAIN rootsLeft = {}
    BY <2>1
  <2>3. tree \in FileSystems
    BY DEF LocalInit, FileSystems, NodeKinds
  <2>4. WalkTypes
    <3>1. <<>> \in Seq(Nodes) /\ <<>> \in Seq(Frames) /\ <<>> \in Seq(Seq(Nodes))
      OBVIOUS
    <3>2. follow = FALSE /\ recursive = FALSE /\ depth = 0 /\ lost = FALSE /\ blind = FALSE /\ walkAct = "idle"
      BY DEF LocalInit
    <3> QED BY <2>1, <2>3, <3>1, <3>2 DEF WalkTypes
  <2>5. WalkSound /\ FoundOnce /\ NothingLeftOut /\ Rooted
    BY <2>1, <2>2 DEF WalkSound, FoundOnce, OnceIn, NothingLeftOut, Rooted, IsInjective, Range
  <2>6. TreeWalk
    <3>1. {} \in SUBSET Nodes /\ Hangs({}, stack)
      BY <2>2 DEF Hangs
    <3> QED BY <2>1, <3>1 DEF TreeWalk
  <2> QED BY <2>4, <2>5, <2>6
<1>2. Inv /\ [LocalNext]_localVars => Inv'
  BY WalkTypesStep, WalkSoundStep, FoundOnceStep, TreeWalkStep, NothingLeftOutStep, RootedStep
<1>3. Inv => WalkIsTheTree
  <2> SUFFICES ASSUME Inv PROVE WalkIsTheTree
    OBVIOUS
  <2>1. /\ (~blind => IsInjective(listed)) /\ (IsInjective(roots) => IsInjective(found))
        /\ \A i \in DOMAIN found : Belongs(found[i])
    BY DEF WalkSound, FoundOnce, OnceIn
  <2>3. ASSUME ~Overlap PROVE \A i, j \in DOMAIN found : Origin(found[i]) = Origin(found[j]) => i = j
    BY <2>3, OneOrigin
  <2>2. ASSUME walkAct = "done", ~follow, ~lost, NEW p \in Paths, Belongs(p), Contains(roots, p[1])
        PROVE  Contains(found, p)
    <3>1. p \in Seq(Nodes)
      BY DEF Paths, WalkTypes
    <3>2. stack = <<>> /\ rootsLeft = <<>> /\ roots \in Seq(Nodes) /\ found \in Seq(Seq(Nodes))
      BY <2>2 DEF WalkTypes
    <3>3. p[1] \in Range(roots) /\ DOMAIN stack = {} /\ Range(rootsLeft) = {}
      BY <2>2, <3>2, Within DEF Range
    <3>4. p \in Range(found)
      BY <2>2, <3>1, <3>3 DEF NothingLeftOut
    <3> QED BY <3>2, <3>4, Within
  <2> QED BY <2>1, <2>2, <2>3 DEF WalkIsTheTree
<1> QED
  BY <1>1, <1>2, <1>3, PTL DEF LocalSpec
=============================================================================
