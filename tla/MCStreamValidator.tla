-------------------------- MODULE MCStreamValidator --------------------------
(* Completed streams of two output tokens, and the streams that differ from  *)
(* one of them in one frame: missing, repeated, swapped with the next one,   *)
(* inserted, or replaced.                                                    *)
EXTENDS StreamValidator, FiniteSets, SequencesExt

Choice(n, p, l) == [kind |-> "choice", ids |-> n, prompt |-> p, last |-> l]
Plain(k) == [kind |-> k, ids |-> 0, prompt |-> "none", last |-> FALSE]

ByToken == <<Choice(1, "sent", FALSE), Choice(1, "none", TRUE), Plain("usage"), Plain("done")>>
Grouped == <<Plain("comment"), Choice(2, "sent", FALSE), Choice(0, "none", TRUE),
             Plain("usage"), Plain("done")>>

Others == {Plain(k) : k \in Kinds \ {"choice"}}
          \cup {Choice(1, "none", FALSE), Choice(1, "none", TRUE), Choice(0, "none", FALSE),
                Choice(1, "other", FALSE), Choice(1, "sent", FALSE)}

Rearranged(s) ==
  {s} \cup {RemoveAt(s, i) : i \in DOMAIN s}
      \cup {InsertAt(s, i, s[i]) : i \in DOMAIN s}
      \cup {ReplaceAt(ReplaceAt(s, i, s[i + 1]), i + 1, s[i]) : i \in 1..(Len(s) - 1)}

Altered(s) ==
  Rearranged(s)
      \cup {InsertAt(s, i, f) : i \in 1..(Len(s) + 1), f \in Others}
      \cup {ReplaceAt(s, i, f) : i \in DOMAIN s, f \in Others}

Live == Altered(ByToken) \cup Rearranged(Grouped)
Recorded == Rearranged(ByToken) \cup {Grouped}

\* A live client, with and without a frame clock, and the replay of a capture
\* that lists any frame offsets.
MCStreams ==
  [script : Live, clock : {"live", "none"}] \cup [script : Recorded, clock : {"recorded"}]
=============================================================================
