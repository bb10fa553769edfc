------------------------------- MODULE MCTlv -------------------------------
(* Values for the constants of Tlv: a mint of one byte, an account of two, *)
(* entries of at most four bytes.                                         *)
EXTENDS Tlv, TLC

\* MintCloseAuthority, NonTransferable, TokenGroup, TokenGroupMember; TransferFeeAmount, ImmutableOwner,
\* MemoTransfer.
MCLen == (3 :> 1) @@ (9 :> 0) @@ (21 :> 1) @@ (23 :> 0) @@ (2 :> 1) @@ (7 :> 0) @@ (8 :> 1)
MCContents == {<<>>, <<0>>, <<1>>, <<2, 1>>, <<3, 0, 9>>, <<1, 2, 3, 4>>}
MCRequired == {<<>>, <<2>>, <<2, 7>>, <<7, 2>>}
MCReserved == {{}, {3}, {9}, {3, 9}, {7}, {2, 8}, {2, 7, 8}}

=============================================================================
