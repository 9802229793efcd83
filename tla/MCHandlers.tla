----------------------------- MODULE MCHandlers -----------------------------
EXTENDS Handlers, SequencesExt

\* Two tokens and two proxies, which they like to different degrees; the page
\* and one other console.  Three tokens are spread, whatever they like and were
\* bound to.
TwoTokens == {1, 2}
TwoProxies == {1, 2}
ThreeTokens == 1..3
OneLikesOne == [x \in TwoTokens \X TwoProxies |-> IF x[1] = 1 THEN x[2] ELSE 1]
AllScores == [ThreeTokens -> [TwoProxies -> 0..1]]

\* A job that hydrates and one that probes; a list is shorter than the jobs.
HomeOf == [w \in {"h", "p"} |-> IF w = "h" THEN "hydrate_metadata" ELSE "admin_proxy_endpoint_probe"]

\* Two ways to write one image, of different length, and junk: all texts of up to
\* two lines, and longer ones.
SomeLines == {"a", "a2", "c"}
ImageOf == [l \in SomeLines |-> IF l = "c" THEN "junk" ELSE "A"]
SizeOf == [l \in SomeLines |-> IF l = "a2" THEN 2 ELSE 1]
SomeTexts == BoundedSeq(SomeLines, 2) \union
             {<<"a2", "c", "a2">>, <<"c", "c", "a">>}

\* Two workers and two pages; names that differ in case, within an answer and
\* between answers, and an answer that lacks an address.
FoldOf == [n \in {"a", "A", "b"} |-> IF n = "A" THEN "a" ELSE n]
Tag(n, t) == [name |-> n, translation |-> t]
SomeDetails == {
  [pages |-> <<0, 1>>, page_count |-> 2, x_restrict |-> 0,
   tags |-> <<Tag("a", FALSE), Tag("A", TRUE)>>],
  [pages |-> <<0, 1>>, page_count |-> 2, x_restrict |-> 3,
   tags |-> <<Tag("A", FALSE), Tag("b", FALSE)>>],
  [pages |-> <<0>>, page_count |-> 2, x_restrict |-> 0, tags |-> <<>>],
  [pages |-> <<0>>, page_count |-> 1, x_restrict |-> 1, tags |-> <<>>]}

\* Up to three rows, of three kinds: not hydrated, and two that are; the queries
\* use every parameter, alone or with others.
Meta(x, o, w, h, u, named, ts) ==
  [xRestrict |-> x, orientation |-> o, width |-> w, height |-> h, userId |-> u,
   named |-> named, tags |-> ts]
SomeMetadata == {Meta(-1, -1, -1, -1, -1, FALSE, {}),
                 Meta(0, 1, 1, 2, 1, TRUE, {1}),
                 Meta(1, 2, 3, 2, 2, FALSE, {1, 2})}
Query == [format |-> "absent", redirect |-> "absent", attempts |-> -1,
          r18 |-> -1, strict |-> "absent", orientation |-> "absent",
          min_width |-> -1, min_height |-> -1, min_pixels |-> -1,
          included_tags |-> {}, excluded_tags |-> {}, user_id |-> -1]
SomeAsks ==
  {Query,
   [Query EXCEPT !.attempts = 2, !.r18 = 0, !.strict = "on", !.orientation = "any",
                 !.redirect = "1"],
   [Query EXCEPT !.attempts = 0, !.r18 = 1, !.min_pixels = 4, !.included_tags = {1, 2}],
   [Query EXCEPT !.format = "json", !.orientation = "portrait", !.user_id = 1,
                 !.included_tags = {1}, !.excluded_tags = {2}, !.min_width = 1, !.min_height = 2],
   [Query EXCEPT !.min_pixels = -2]}
ThreeIds == 1..3

\* Nothing tells one caller of PixivDetail from another.
CallersAlike == Permutations(Callers)
=============================================================================
