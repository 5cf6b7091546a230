------------------------------ MODULE MCSDLTimer ------------------------------
(* SDLTimer with a few threads and timers.                                   *)
EXTENDS SDLTimer, TLC
===============================================================================
