------------------------------ MODULE MCAnalytics ------------------------------
(* Instance of the reading side: a review file with a repeated review, three  *)
(* reviews that differ in SKU, week and quality, batches of three, and two    *)
(* loaders over the same file.                                                *)
EXTENDS Analytics, TLC

CONSTANTS a, b, none, l1, l2

MCSkus == {a, b}
MCTier == [s \in {a, b} |-> "mid"]

Row(sku, ext) == [json |-> TRUE, sku |-> sku, long |-> TRUE, ext |-> ext]
MCFile ==
    << Row(a, 1), [Row(none, 9) EXCEPT !.json = FALSE], Row(b, 2), Row(a, 1),
       [Row(a, 9) EXCEPT !.long = FALSE], Row(b, 3) >>

Aspect(doc, k, sku, week, aspect, sentiment, good) ==
    [doc |-> doc, k |-> k, sku |-> sku, week |-> week, aspect |-> aspect,
     sentiment |-> sentiment, good |-> good]

\* The third review has nothing of sufficient quality: its week is not shown.
MCMentions ==
    { Aspect(1, 1, a, 1, 1, "negative", TRUE),
      Aspect(2, 1, b, 1, 1, "positive", TRUE),
      Aspect(2, 2, b, 1, 2, "neutral", TRUE),
      Aspect(3, 1, b, 2, 2, "neutral", FALSE) }

MCLoaders == {l1, l2}
MCSymmetry == Permutations(MCLoaders)

\* A request sees rows, never what a loader holds in memory.  What pages say beside
\* inserts is checked with one loader at work, and with two the loaders alone: once the
\* second has started nobody reads and no mention is committed.
ReadersOrTwoLoaders ==
    (\A l \in Loaders : load[l].pc # "idle") =>
        stored = {} /\ shown = {} /\ \A r \in Readers : req[r].pc = "idle"

Of(skus, weeks) == [Everything EXCEPT !.skus = skus, !.weeks = weeks]
MCScopes ==
    [kind \in Kinds |->
        CASE kind = "weeks" -> {Everything}
          [] kind = "overview" -> {Of({}, {w}) : w \in {1, 2}}
          [] kind = "detail" -> {Of({b}, {w}) : w \in {1, 2}}
          [] kind = "evidence" -> {[Of({b}, {1}) EXCEPT !.sentiments = {"positive"}]}
          [] kind = "sku_trends" -> {Of({b}, Weeks)}
          [] kind = "review_count" -> {Everything, Of({a}, {1})}
          [] kind = "sentiment_distribution" -> {Of({b}, {1})}
          [] kind = "aspect_distribution" -> {Everything, [Everything EXCEPT !.limit = 2]}
          [] kind = "trend" -> {Everything, [Everything EXCEPT !.iso = FALSE]}
          [] OTHER -> {Of({a, b}, {1})}]
=============================================================================
