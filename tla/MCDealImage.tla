---------------------------- MODULE MCDealImage ----------------------------
(* Every target up to MaxSide on pictures of every size up to six by six:  *)
(* both quotients take the values 0, 1 and more, in every order.           *)
EXTENDS DealImage
SmallSources == [w : 1 .. 6, h : 1 .. 6]
=============================================================================
