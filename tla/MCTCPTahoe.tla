------------------------------ MODULE MCTCPTahoe -------------------------------
(***************************************************************************)
(* TCPTahoe with the bytes the two applications write.                      *)
(***************************************************************************)
EXTENDS TCPTahoe

\* The application of the client writes these bytes, that of the server none.
Upstream(bytes) == [h \in Hosts |-> IF h = Client THEN bytes ELSE <<>>]

NoData == Upstream(<<>>)
FourBytesUp == Upstream(<<31, 32, 33, 34>>)
FiveBytesUp == Upstream(<<31, 32, 33, 34, 35>>)
NineBytesUp == Upstream(<<31, 32, 33, 34, 35, 36, 37, 38, 39>>)
OneByteEachWay == [h \in Hosts |-> IF h = Client THEN <<31>> ELSE <<41>>]
===============================================================================
