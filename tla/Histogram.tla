----------------------------- MODULE Histogram ------------------------------
(***************************************************************************)
(* Histogram (fingerprint/src/histogram): which song a snippet is of.      *)
(* A hit is a record of a hash, a song, a delta (the time in the song less *)
(* the time in the snippet) and a copy, which tells two hits with the same *)
(* fields apart.  The hashes of a snippet are numbered by their times.     *)
(***************************************************************************)
EXTENDS Integers, FiniteSets, FiniteSetsExt

CONSTANTS MinDistance,  \* MIN_WASSERSTEIN_DISTANCE
          MaxNoise      \* how many counts noise may have

\* With a smaller distance an empty histogram, whose first group is read though
\* there is none and reads as a count of 0, would match an arbitrary song.
ASSUME HistogramAssumption ==
    /\ MinDistance \in Nat \ {0}
    /\ MaxNoise \in Nat \ {0}

Uncertain == [status |-> "Uncertain"]

Groups(hits) == { [song |-> h.song, delta |-> h.delta] : h \in hits }

Count(hits, g) == Cardinality({h \in hits : h.song = g.song /\ h.delta = g.delta})

groupDeltasByCount(hits) == [g \in Groups(hits) |-> Count(hits, g)]

\* Mutant: the multimap without its comparator, the least count first.
LessFirst(counts, g1, g2) ==
    \/ counts[g1] < counts[g2]
    \/ /\ counts[g1] = counts[g2]
       /\ g1.song < g2.song \/ (g1.song = g2.song /\ g1.delta < g2.delta)

\* The order of the multimap: the greatest count first, and equal counts as the
\* composite index is walked, by song and delta.
Before(counts, g1, g2) ==
    \/ counts[g1] > counts[g2]
    \/ /\ counts[g1] = counts[g2]
       /\ g1.song < g2.song \/ (g1.song = g2.song /\ g1.delta < g2.delta)

Peak(counts) ==
    CHOOSE g \in DOMAIN counts : \A other \in DOMAIN counts \ {g} : Before(counts, g, other)

\* The first groups of songs other than that of the peak.
Noise(counts) ==
    LET others == {g \in DOMAIN counts : g.song # Peak(counts).song}
        size == IF Cardinality(others) < MaxNoise THEN Cardinality(others) ELSE MaxNoise
    IN  CHOOSE noise \in SUBSET others :
            /\ Cardinality(noise) = size
            /\ \A g \in noise, other \in others \ noise : Before(counts, g, other)

\* The Wasserstein distance of one value and the values of noise, none of which
\* is greater, is its difference from their mean; no noise is one value of 1.
IsDistant(value, counts, noise) ==
    IF noise = {} THEN MinDistance < value - 1
    ELSE MinDistance * Cardinality(noise)
            < value * Cardinality(noise) - MapThenSumSet(LAMBDA g : counts[g], noise)

\* The time in the song of the first entry of the group, that of the first hash.
Timestamp(hits, g) ==
    LET hashes == {h.hash : h \in {x \in hits : x.song = g.song /\ x.delta = g.delta}}
    IN  Min(hashes) + g.delta

findDominantPeak(hits) ==
    LET counts == groupDeltasByCount(hits)
        peak == Peak(counts)
    IN  IF hits # {} /\ IsDistant(counts[peak], counts, Noise(counts))
        THEN [status |-> "OK", song |-> peak.song, timestamp |-> Timestamp(hits, peak)]
        ELSE Uncertain
=============================================================================
