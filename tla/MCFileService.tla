--------------------------- MODULE MCFileService ---------------------------
(* FileService for TLC: one data server with a client, and two data servers *)
(* that come and go by themselves.                                          *)
EXTENDS FileService, TLC

CONSTANTS d1, d2, c1

MCInstallations == {{d1, c1}, {d1, d2}}

MCMaxFds == (d1 :> 2) @@ (d2 :> 3)

MCMaxStarts == (d1 :> 2) @@ (d2 :> 2)

=============================================================================
