------------------------------- MODULE MCWal -------------------------------
(***************************************************************************)
(* Instances of WalBytes: bytes of two bits, lengths and checksums of two  *)
(* bytes, and a CRC-4.                                                     *)
(***************************************************************************)
EXTENDS WalBytes

MCPolynomial == {2, 3}

Put(k, v) == [op |-> PUT, key |-> k, value |-> v]
Delete(k) == [op |-> DELETE, key |-> k, value |-> <<>>]

\* The second has a key of 16 cells, one more than a length can say.
MCPayload ==
    <<Put(<<{0}>>, <<{1}, {}>>), Delete([i \in 1..16 |-> {}]), Delete(<<>>)>>

\* No beginning of the second happens to decode.
ASSUME MCWalOversizedRejected == OversizedRejected
=============================================================================
