--------------------------- MODULE MCCommitments ---------------------------
(***************************************************************************)
(* A lender with a few offers, against a coin, an NFT of a collection or   *)
(* nothing, a borrower, and an extension either may add.                   *)
(***************************************************************************)
EXTENDS CommitmentProperties

CONSTANTS lender, borrower, ext, self, main

MCAccounts == {lender, borrower}
MCMarketOwner == [m \in Markets |-> lender]
MCLeaves == [root \in {5} |-> {2, 3}]

Coin == 1
Collection == 2

CoinOffer(max, m) ==
    [maxPrincipal |-> max, expiration |-> 2, maxDuration |-> 1, minInterestRate |-> 1,
     asset |-> Coin, tokenId |-> 0, maxPrincipalPerCollateralAmount |-> 2, type |-> "ERC20",
     lender |-> lender, marketId |-> m]
NFTOffer(max, m) ==
    [CoinOffer(max, m) EXCEPT !.asset = Collection, !.tokenId = 5, !.type = "ERC721_MERKLE_PROOF"]

MCOffers == {CoinOffer(2, 1), NFTOffer(1, 1)}
MCBlankOffers == {[CoinOffer(max, m) EXCEPT !.type = "NONE"] : max \in {1, 2}, m \in Markets}
MCGuests == {{}, {borrower}}
MCCollaterals ==
    {[asset |-> Coin, tokenId |-> 0, amount |-> n] : n \in 0 .. 1}
    \cup {[asset |-> Collection, tokenId |-> t, amount |-> 1] : t \in {2, 4}}
=============================================================================
