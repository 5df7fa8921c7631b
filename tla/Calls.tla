------------------------------- MODULE Calls -------------------------------
(***************************************************************************)
(* What the models of the browser know of every call of the API client     *)
(* (frontend/src/api/client.ts): retryRequest attempts it a few times, and *)
(* some answers are lost, 429 or 5xx.                                      *)
(***************************************************************************)
CONSTANTS
    MaxAttempts,   \* attempts per call (maxRetries, 3 in the code)
    MaxFaults      \* bound on answers that are lost, 429 or 5xx

VARIABLE faults    \* such answers so far
=============================================================================
