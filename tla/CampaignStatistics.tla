-------------------------- MODULE CampaignStatistics --------------------------
(***************************************************************************)
(* What campaign-analyze.js and campaign-cost.js compute from the records   *)
(* of a campaign: percentiles and medians of what was measured, the rows    *)
(* of the two legs joined by run, the pages of a listing put together.      *)
(*                                                                          *)
(* Measurements and hashes are numbers, or Missing (undefined, NaN).        *)
(***************************************************************************)
EXTENDS Naturals, Sequences, FiniteSets, SequencesExt

CONSTANT Missing

\* values.filter(finite).sort(..)
Measured(values) == SortSeq(SelectSeq(values, LAMBDA x : x # Missing), LAMBDA x, y : x < y)

CeilDiv(a, b) == (a + b - 1) \div b

\* campaign-analyze.js pct (and pick in campaign-cost.js), for a list that is not empty;
\* the index is capped at both ends.
Pct(sorted, p) ==
    LET rank == CeilDiv(p * Len(sorted), 100)
    IN sorted[IF rank = 0 THEN 1 ELSE IF rank > Len(sorted) THEN Len(sorted) ELSE rank]

\* campaign-cost.js: the middle value, or the mean of the middle two; twice it, to
\* stay with whole numbers.
TwiceMedian(sorted) ==
    sorted[(Len(sorted) - 1) \div 2 + 1] + sorted[CeilDiv(Len(sorted) - 1, 2) + 1]

\* stats, of both scripts: null when nothing was measured.
NoStats == [n |-> 0]
Stats(values) ==
    LET v == Measured(values)
    IN IF v = <<>> THEN NoStats
       ELSE [n |-> Len(v), min |-> v[1], max |-> v[Len(v)],
             p50 |-> Pct(v, 50), p90 |-> Pct(v, 90), p95 |-> Pct(v, 95), p99 |-> Pct(v, 99),
             twiceMedian |-> TwiceMedian(v)]

\* The CDF: i + 1 of the n values are at most the i-th (latency-cdf.csv).
Cdf(sorted) == [i \in 1..Len(sorted) |-> [latency |-> sorted[i], below |-> i]]

----------------------------------------------------------------------------
\* evmLeg and neutronLeg: a run without the transaction's hash, or whose transaction
\* no node knows, has no row.
Leg(runs, hash, known) ==     \* hash: the field it is in
    [i \in {j \in 1..Len(runs) : runs[j][hash] # Missing /\ runs[j][hash] \in known} |->
        [run |-> runs[i].run_number, tx |-> runs[i][hash]]]
Rows(leg) == {leg[i] : i \in DOMAIN leg}

\* byRun: one row per run number, the EVM columns first, the Neutron ones added; of two
\* runs with one number the later row wins.
Latest(leg, run) ==
    LET mine == {i \in DOMAIN leg : leg[i].run = run}
    IN IF mine = {} THEN Missing
       ELSE leg[CHOOSE i \in mine : \A j \in mine : j <= i].tx
Merged(evm, neutron) ==
    [run \in {row.run : row \in Rows(evm) \cup Rows(neutron)} |->
        [lockTx |-> Latest(evm, run), claimTx |-> Latest(neutron, run)]]

\* callbackLeg: pages of PAGE rows from 0 on, until one is short or the limit reached.
Page(listing, from, page) ==
    SubSeq(listing, from + 1, IF from + page < Len(listing) THEN from + page ELSE Len(listing))
AllPages(listing, page, limit) ==
    LET upTo[k \in 0..CeilDiv(limit, page)] ==       \* what the first k pages hold
            IF k = 0 THEN <<>>
            ELSE IF k > 1 /\ Len(Page(listing, (k - 2) * page, page)) < page THEN upTo[k - 1]
            ELSE upTo[k - 1] \o Page(listing, (k - 1) * page, page)
    IN upTo[CeilDiv(limit, page)]
=============================================================================
