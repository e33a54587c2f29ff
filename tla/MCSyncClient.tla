---------------------------- MODULE MCSyncClient -----------------------------
(* A small instance of SyncClient.                                          *)
EXTENDS SyncClient

\* Every wait and every call, but not the drain of close().
AllButDrain == Points \ {"idle", "drain"}
=============================================================================
