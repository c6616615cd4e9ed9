-------------------------- MODULE FingerprintStore --------------------------
(***************************************************************************)
(* What the engine promises a client that makes one request at a time: a   *)
(* store that keeps at most one fingerprint for a song, and whose answers  *)
(* are songs it keeps.                                                     *)
(***************************************************************************)
CONSTANTS Songs, Prints, Calls,
          NoSong,      \* the answer that nothing was found
          Unanswered

VARIABLES stored,  \* stored[s]: the fingerprints kept for song s
          answer   \* answer[c]: what call c was answered

Init ==
    /\ stored = [s \in Songs |-> {}]
    /\ answer = [c \in Calls |-> Unanswered]

Load(s, f) ==
    /\ stored[s] = {}
    /\ stored' = [stored EXCEPT ![s] = {f}]
    /\ UNCHANGED answer

Purge(s) ==
    /\ stored' = [stored EXCEPT ![s] = {}]
    /\ UNCHANGED answer

\* Recognition may fail; it may not invent.
Answer(c, f, s) ==
    /\ answer[c] = Unanswered
    /\ s # NoSong => f \in stored[s]
    /\ answer' = [answer EXCEPT ![c] = s]
    /\ UNCHANGED stored

Next ==
    \/ \E s \in Songs : Purge(s) \/ \E f \in Prints : Load(s, f)
    \/ \E c \in Calls, f \in Prints, s \in Songs : Answer(c, f, s)
    \/ \E c \in Calls, f \in Prints : Answer(c, f, NoSong)

Spec == Init /\ [][Next]_<<stored, answer>>

=============================================================================
