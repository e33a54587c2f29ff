------------------------------- MODULE MCRetry -------------------------------
(* Small instances of Retry: a read may make three attempts before its total *)
(* deadline cuts the last one short.                                         *)
EXTENDS Retry

AttemptTicks == [read |-> 3, write |-> 4]
TotalTicks == [read |-> 8, write |-> 4]
=============================================================================
