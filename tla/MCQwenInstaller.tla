--------------------------- MODULE MCQwenInstaller ---------------------------
(* Instance of QwenInstaller for TLC.                                        *)
EXTENDS QwenInstaller
=============================================================================
