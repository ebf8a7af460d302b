----------------------------- MODULE MCEventLoop -----------------------------
(* A three-byte executable against a file that differs from it in the      *)
(* second byte and is one byte shorter.                                    *)
EXTENDS EventLoop

MCByte == {0, 1}
MCOriginal == <<1, 0, 0>>
MCOther == <<1, 1>>
=============================================================================
