---------------------------- MODULE MCAsyncClient ----------------------------
(* Small instances of AsyncClient.                                          *)
EXTENDS AsyncClient

\* Every suspension but the drain of close() and the program's own awaits.
AllButDrain == Points \ {"drain"}

\* Cancellation of calls and followers only.
CallsAndFollowers == Points \ {"drain", "aclose"}
=============================================================================
