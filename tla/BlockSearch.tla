----------------------------- MODULE BlockSearch -----------------------------
(***************************************************************************)
(* Finding a block by its time (propose/relay_consensus.rs first_block_at on    *)
(* an edge chain, propose/relay_message.rs execution_height on the hub).  Both    *)
(* widen a window below the latest block by doubling strides and then bisect it;  *)
(* they differ in the lowest block and in what they know of it.                  *)
(***************************************************************************)
EXTENDS Integers

CONSTANTS
    MaxHeight,      \* the highest block
    MaxTime,        \* the latest time
    Stride          \* the first stride, 64 blocks

ASSUME BoundsAssumption == MaxHeight \in Nat \ {0} /\ MaxTime \in Nat
ASSUME StrideAssumption == Stride \in Nat \ {0}

Heights == 0 .. MaxHeight
Times == 0 .. MaxTime

VARIABLES
    search,         \* which of the two searches this is
    time,           \* the timestamp of every block
    want,           \* the time looked for
    latest,         \* the latest block when the search began
    stage, lower, upper, distance

chain == <<search, time, want, latest>>
searchVars == <<chain, stage, lower, upper, distance>>

\* Blocks do not go back in time, several may share one.
Monotone(f) == \A i, j \in Heights : i <= j => f[i] <= f[j]

SearchTypeOK ==
    /\ search \in {"first_block_at", "execution_height"}
    /\ time \in [Heights -> Times]
    /\ want \in Times
    /\ latest \in Heights
    /\ stage \in {"start", "widen", "bisect", "done"}
    /\ lower \in Heights
    /\ upper \in Heights
    /\ distance \in Nat \ {0}

SearchInit ==
    /\ search \in {"first_block_at", "execution_height"}
    /\ time \in {f \in [Heights -> Times] : Monotone(f)}
    /\ want \in Times
    /\ latest \in Heights
    /\ search = "execution_height" => latest > 0
    /\ stage = "start"
    /\ lower = latest
    /\ upper = latest
    /\ distance = Stride

SaturatingSub(a, b, floor) == IF a - b > floor THEN a - b ELSE floor

\* first_block_at: a chain that has not reached the time gives its latest block.
Start ==
    /\ stage = "start"
    /\ search = "first_block_at"
    /\ IF time[latest] < want THEN stage' = "done" /\ UNCHANGED lower
                              ELSE stage' = "widen" /\ lower' = 0
    /\ UNCHANGED <<chain, upper, distance>>

Widen ==
    /\ stage = "widen"
    /\ lower < upper
    /\ LET probe == SaturatingSub(upper, distance, 0)
       IN  IF time[probe] < want
           THEN lower' = probe /\ stage' = "bisect" /\ UNCHANGED <<upper, distance>>
           ELSE upper' = probe /\ distance' = 2 * distance /\ UNCHANGED <<lower, stage>>
    /\ UNCHANGED chain

\* The window reached genesis and genesis is not earlier.
WidenEnd ==
    /\ stage = "widen"
    /\ lower = upper
    /\ stage' = "bisect"
    /\ UNCHANGED <<chain, lower, upper, distance>>

\* execution_height: the lower end moves down until it is earlier, or the first block.
LowerTo(below) ==
    /\ stage = "start"
    /\ search = "execution_height"
    /\ IF lower > 1 /\ time[lower] >= want
       THEN /\ upper' = lower
            /\ lower' = below
            /\ distance' = 2 * distance
            /\ UNCHANGED stage
       ELSE stage' = "bisect" /\ UNCHANGED <<lower, upper, distance>>
    /\ UNCHANGED chain

Lower == LowerTo(SaturatingSub(lower, distance, 1))

Halve(open, bound) ==
    /\ stage = "bisect"
    /\ IF open
       THEN LET mid == lower + (upper - lower) \div 2
            IN  /\ IF time[mid] < bound THEN lower' = mid /\ UNCHANGED upper
                                        ELSE upper' = mid /\ UNCHANGED lower
                /\ UNCHANGED stage
       ELSE stage' = "done" /\ UNCHANGED <<lower, upper>>
    /\ UNCHANGED <<chain, distance>>

\* A bisection that goes on until the window is empty, and one that passes over blocks
\* at the wanted time.
BisectToEmpty == Halve(lower < upper, want)
BisectPastEqual == Halve(lower + 1 < upper, want + 1)

Bisect == Halve(lower + 1 < upper, want)

Finished == stage = "done" /\ UNCHANGED searchVars

SearchNext == Start \/ Widen \/ WidenEnd \/ Lower \/ Bisect \/ Finished

SearchSpec == SearchInit /\ [][SearchNext]_searchVars

SearchFairSpec == SearchSpec /\ WF_searchVars(SearchNext)

-----------------------------------------------------------------------------
(* Properties.                                                               *)

\* The block at or after the wanted time with none before it.
First(h) ==
    /\ time[h] >= want
    /\ \A i \in Heights : i < h => time[i] < want

\* first_block_at returns "the first edge block at or after `time`, ... or the latest
\* block when the chain has not reached `time` yet": the scan for the approval that
\* starts there misses none.
StartsAtTheFirst ==
    stage = "done" /\ search = "first_block_at" =>
        First(upper) \/ (upper = latest /\ time[latest] < want)

\* The blocks find_governance_message scans around the height it was given.
Scanned == upper - 1 .. (IF upper + 5 < latest THEN upper + 5 ELSE latest)

\* "The gov EndBlocker runs at the first block past the voting deadline": if the hub
\* has that block, it is one of those scanned.
ScansTheExecution ==
    stage = "done" /\ search = "execution_height" =>
        \A h \in 1 .. latest :
            (time[h] >= want /\ \A i \in 1 .. h - 1 : time[i] < want) => h \in Scanned

\* A search comes to an end.
Terminates == <>(stage = "done")
=============================================================================
