----------------------------- MODULE MCCoinWallet -----------------------------
(***************************************************************************)
(* CoinWallet for TLC.  Clients, keys, sweepers and wallets are            *)
(* interchangeable, so the safety runs identify states up to their         *)
(* renaming; the liveness run does not.                                    *)
(***************************************************************************)
EXTENDS CoinWallet, TLC

Symmetry ==
    Permutations(Clients) \cup Permutations(Keys) \cup Permutations(Sweepers)
        \cup Permutations(Wallets)

Amount(main, bonus) == [main |-> main, bonus |-> bonus]

\* Two callers race for Coins of both kinds; corrections go either way.
RaceCredits == {Amount(1, 0), Amount(0, 2), Amount(1, 1)}
RaceCorrections == {Amount(-1, 0), Amount(0, -1), Amount(1, 1), Amount(1, -1), Amount(0, 0)}

\* The sweep against one caller: bonus Coins that run out on different days.
SweepCredits == {Amount(0, 2), Amount(1, 1)}
SweepCorrections == {Amount(0, -1)}
=============================================================================
