------------------------------- MODULE MCAsyncIO -------------------------------
(* AsyncIO with a few threads, workers, files and queues.                     *)
EXTENDS AsyncIO, TLC
================================================================================
