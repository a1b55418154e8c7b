--------------------------- MODULE MCCampaignRunner ---------------------------
(* A small instance of CampaignRunner for TLC, and the statistics of its results *)
(* compared with their definitions over bounded inputs.                          *)
EXTENDS CampaignRunner, TLC

ThreeDays == 1..3

Analysis == INSTANCE CampaignStatistics WITH Missing <- 0

Lists == UNION {[1..n -> 1..4] : n \in 1..5}
AtMost(list, x) == Cardinality({i \in 1..Len(list) : list[i] <= x})

\* Nearest rank: the least value that p in a hundred of the values do not exceed.
ASSUME PercentileIsNearestRank ==
    \A list \in Lists, p \in {50, 90, 95, 99} :
        LET v == Analysis!Measured(list)
            x == Analysis!Pct(v, p)
        IN /\ 100 * AtMost(list, x) >= p * Len(list)
           /\ \A i \in 1..Len(list) : list[i] < x => 100 * AtMost(list, list[i]) < p * Len(list)

\* The two scripts call different numbers the median: analyze's p50 is the lower of the
\* two middle values, cost's median their mean.
ASSUME MediansAgreeOnOddLists ==
    \A list \in Lists :
        LET v == Analysis!Measured(list)
        IN /\ 2 * Analysis!Pct(v, 50) <= Analysis!TwiceMedian(v)
           /\ Len(v) % 2 = 1 => 2 * Analysis!Pct(v, 50) = Analysis!TwiceMedian(v)

\* What is missing changes no statistic, and a list of nothing has none.
ASSUME MissingIsIgnored ==
    \A list \in UNION {[1..n -> 0..2] : n \in 0..4} :
        LET kept == SelectSeq(list, LAMBDA x : x # 0)
        IN /\ Analysis!Stats(list) = Analysis!Stats(kept)
           /\ (Analysis!Stats(list) = Analysis!NoStats) <=> (kept = <<>>)

\* Every point of the CDF counts values that are really at most it; the last, all.
ASSUME CdfIsCumulative ==
    \A list \in Lists :
        LET cdf == Analysis!Cdf(Analysis!Measured(list))
        IN \A i \in 1..Len(cdf) :
              /\ cdf[i].below <= AtMost(list, cdf[i].latency)
              /\ i = Len(cdf) \/ cdf[i].latency < cdf[i + 1].latency
                    => cdf[i].below = AtMost(list, cdf[i].latency)

\* The pages make up the listing, up to the limit.
ASSUME PagesAreComplete ==
    \A n \in 0..9 :
        LET listing == [i \in 1..n |-> i]
        IN Analysis!AllPages(listing, 2, 6) = SubSeq(listing, 1, IF n < 6 THEN n ELSE 6)

\* The join has one row per run with a transaction on either leg; with distinct run
\* numbers no transaction is lost.
Run == [run_number : 1..2, lock : 0..2, claim : {0, 3}]
ASSUME JoinKeepsEveryRow ==
    \A runs \in UNION {[1..n -> Run] : n \in 0..2} :
        LET evm == Analysis!Leg(runs, "lock", {1, 2})
            neutron == Analysis!Leg(runs, "claim", {3})
            merged == Analysis!Merged(evm, neutron)
        IN (\A i, j \in 1..Len(runs) : runs[i].run_number = runs[j].run_number => i = j) =>
              \A i \in 1..Len(runs) :
                  \/ runs[i].lock = 0 /\ runs[i].claim = 0
                  \/ merged[runs[i].run_number] =
                        [lockTx |-> runs[i].lock, claimTx |-> runs[i].claim]
=============================================================================
