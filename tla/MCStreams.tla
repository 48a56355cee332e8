------------------------------ MODULE MCStreams ------------------------------
(* Bytes of two values, so that a length takes up to three of its four bytes; *)
(* patterns that overlap themselves, and buffers smaller than what passes     *)
(* through them.                                                              *)
EXTENDS Streams

MCFrameSizes == {0, 2}
MCLinkKinds == {102, Data}
MCDataSizes == {1, 5}
MCChars == {"a", "b"}
MCPatterns == {<<>>, <<"a">>, <<"a", "b">>, <<"a", "a", "b">>, <<"a", "b", "a">>}
=============================================================================
