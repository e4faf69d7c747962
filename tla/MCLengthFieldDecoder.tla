------------------------ MODULE MCLengthFieldDecoder ------------------------
(* A finite instance of LengthFieldDecoder, like that of test/handler_test *)
(* with which the length field counts the header.                          *)
EXTENDS LengthFieldDecoder

HeaderCounted == -3
=============================================================================
