----------------------------- MODULE MCScoring -----------------------------
(***************************************************************************)
(* Three requests that can be scored, five that cannot, and one each that  *)
(* a check of ingest turns away.  Sanitize makes "m 2" and "m/2" the name  *)
(* of m_2; only the first of them can name an event file.                  *)
(***************************************************************************)
EXTENDS Scoring, TLC

E(player, counters, quantiles) ==
    [ref |-> [player |-> player, match |-> ""], schema |-> "v1",
     counters |-> counters, quantiles |-> quantiles,
     histograms |-> <<[count |-> 0, buckets |-> 3], [count |-> 2, buckets |-> 2]>>]
C(value) == <<[name |-> "snaps", value |-> value], [name |-> "snaps", value |-> 9]>>
Q(name, value) == <<[name |-> name, at |-> [x \in Percentiles |-> IF x = "p99" THEN value ELSE 0]]>>

Of(match, players) == [match |-> match, build |-> "b1", players |-> players]
Signed(id, content) ==
    [id |-> id, content |-> content,
     signature |-> [keyId |-> "game", payload |-> content, key |-> "game"]]

One == Of("m1", <<E("a", C(2), <<>>)>>)

MCRequests ==
    {Signed(1, One),
     Signed(2, Of("m1", <<E("b", <<>>, Q("aim", 7)), E("a", <<>>, Q("aim", 3))>>)),
     Signed(3, Of("m_2", <<E("a", C(4), Q("aim", 3))>>)),
     Signed(4, Of("m 2", <<E("b", C(2), <<>>)>>)),
     Signed(8, Of("m/2", <<E("b", <<>>, <<>>)>>)),
     Signed(5, Of("m_2", <<E("b", <<>>, Q("aim", NaN))>>)),
     Signed(6, Of("m3", <<E("a", C(2), <<>>), E("", C(2), <<>>)>>)),
     Signed(7, Of("m3", <<E("b", <<>>, Q("react", 1))>>)),
     [Signed(10, One) EXCEPT !.signature = Nil],
     [Signed(11, One) EXCEPT !.signature.payload.players = <<>>],
     [Signed(12, One) EXCEPT !.signature.key = "other"],
     Signed(13, [One EXCEPT !.players[1].schema = "v2"]),
     Signed(14, [One EXCEPT !.players[1].ref.match = "m_2"]),
     Signed(15, [One EXCEPT !.players = <<Nil>>])}

MCMatches == {"m1", "m_2", "m 2", "m/2", "m3"}
MCFileOf == [m \in MCMatches |-> IF m \in {"m 2", "m/2"} THEN "m_2" ELSE m]

MCCounters == [snaps |-> [weight |-> 1, normalization |-> 2]]
MCQuantiles ==
    [aim |-> [weight |-> 1, pctl |-> "p99", mean |-> 5, std |-> 1],
     react |-> [weight |-> 1, pctl |-> "p42", mean |-> 0, std |-> 1]]

\* Halves: 1/2, 3/4 of the cap; DecayFactor 1/2.
MCSoft == <<512, 768>>
MCKeep == [h \in 0..3 |-> 64 \div 2^h]
=============================================================================
