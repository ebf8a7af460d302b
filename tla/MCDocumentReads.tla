--------------------------- MODULE MCDocumentReads ---------------------------
(* A file of four bytes, two values in use, patterns of up to three bytes. *)
EXTENDS DiffPage

MCOriginal == <<1, 2, 2, 1>>
MCInserted == <<2>>
MCPatterns == {<<2>>, <<1, 2>>, <<2, 2>>, <<2, 2, 2>>, <<2, 2, 1>>, <<1, 2, 1>>}
MCOthers == {<<>>, <<1, 2, 2, 1>>, <<2, 1, 2, 2, 1>>, <<1, 1>>, <<1, 2, 1, 2, 1, 1, 2>>}
=============================================================================
