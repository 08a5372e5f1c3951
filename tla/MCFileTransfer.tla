--------------------------- MODULE MCFileTransfer ---------------------------
(***************************************************************************)
(* The instance of FileTransfer that TLC checks: one peer that shares and  *)
(* one download.                                                           *)
(***************************************************************************)
EXTENDS FileTransfer, TLC

CONSTANTS f, g, d1

\* A folder with one file and one with two.
Folders == {<<f>>, <<g, f>>}

OneDownload == d1 :> f
=============================================================================
