------------------------------ MODULE MCReaders -----------------------------
(* A small instance of Readers.tla: lines of three bytes at most, among the *)
(* lines written one that fits, one with a return, one that is too long,    *)
(* one too long with a return at the bound, one without a key, an empty one.*)
EXTENDS Readers

MCBytes == {"frame", "progress", "cr", "7", "end"}

MCLines == {<<"frame", "7">>, <<"frame", "7", "cr">>, <<"frame", "7", "7", "cr">>,
            <<"frame", "7", "cr", "7", "7">>, <<"progress", "end">>, <<"7">>, <<>>}
=============================================================================
