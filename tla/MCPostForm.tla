----------------------------- MODULE MCPostForm -----------------------------
(***************************************************************************)
(* Instance of PostForm for TLC.  Bodies of up to four bytes hold up to    *)
(* five fields, empty ones among them and ones too long for curHTTP.data,  *)
(* and one body is longer than the FIFO; the trailers are the CRLF of an   *)
(* old browser and one with a "&".                                         *)
(***************************************************************************)
EXTENDS PostForm

MCRxSize == 5
MCDataLen == 4
MCTimeout == 2
MCDword == 16
MCBodies == UNION {[1 .. n -> Byte] : n \in 0 .. 4}
              \cup {<<"c", "&", "c", "c", "c">>, <<"c", "c", "&", "c", "c", "c">>}
MCTrailers == {<<>>, <<"c", "c">>, <<"c", "&">>}
=============================================================================
