------------------------------- MODULE MCBlobFs -------------------------------
(***************************************************************************)
(* A small instance of BlobFs for TLC.                                     *)
(***************************************************************************)
EXTENDS BlobFs, TLC

\* A name that is only ever a file, one that is only ever a directory, and one that can
\* be either or both.
MCBlobs == {<<"a">>, <<"b">>, <<"b", "a">>, <<"c", "a">>}

\* In the first the directory leaves no room for the file, which a lookup then finds by
\* HEAD.
MCStocks == {<<"a">> :> 1 @@ <<"c", "a">> :> 1, <<"b">> :> 1}
MCCalls ==
  {<<"readdir", <<>>, "">>, <<"lookup", <<>>, "a">>, <<"lookup", <<"c">>, "a">>}
MCPageOf == "a" :> 1 @@ "b" :> 2 @@ "c" :> 2
=============================================================================
