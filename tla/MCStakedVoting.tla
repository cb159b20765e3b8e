--------------------------- MODULE MCStakedVoting ---------------------------
(* A small instance of StakedVoting: two stakers and two NFTs. *)
EXTENDS StakedVoting

CONSTANTS alice, bob, dao, vault, tracker, n1, n2

Instantiate(asset, duration, threshold) ==
    [asset |-> asset, duration |-> duration, threshold |-> threshold]

MCMsgs == [k \in {"token", "cw20", "cw721", "onft"} |->
    {Instantiate("existing", {1}, {}), Instantiate("existing", {0}, {})} \cup
    IF k = "onft" THEN {} ELSE {
     Instantiate("new", {}, AbsoluteCount(2)), Instantiate("new", {}, AbsoluteCount(9)),
     Instantiate("factory", {1}, Percentage(3))}]

Balances(a, b, d) == [h \in Holders |-> CASE h = alice -> a [] h = bob -> b [] h = dao -> d
                                          [] OTHER -> 0]
Owned(a, b) == {[n \in Nfts |-> IF n = n1 THEN a ELSE b]}

MCTokens == [k \in {"token", "cw20", "cw721", "onft"} |->
    CASE k = "token" -> {Balances(2, 1, 0), Balances(0, 0, 3)}
      [] k = "cw20"  -> {Balances(2, 1, 0)}
      [] k = "cw721" -> Owned(alice, bob)
      [] k = "onft"  -> Owned(alice, dao)]

\* Counts within and beyond the supply, percentages within and beyond one.
MCThresholds == [k \in {"token", "cw20", "cw721", "onft"} |->
    IF k = "onft" THEN {AbsoluteCount(6)} ELSE {AbsoluteCount(6), Percentage(4), Percentage(5)}]

MCMaxHeight == [k \in {"token", "cw20", "cw721", "onft"} |-> IF k = "onft" THEN 2 ELSE 3]
MCDurations == {{}, {0}}
MCLists == {<<n1>>, <<n1, n2>>, <<n1, n1>>}
=============================================================================
