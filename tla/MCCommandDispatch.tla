--------------------------- MODULE MCCommandDispatch ---------------------------
(* Model-checking instance of CommandDispatch: the three LED commands and *)
(* one cmd the dispatcher does not know; both builds.                     *)
EXTENDS CommandDispatch

MCCmds == {"led_a", "led_b", "led_c", "blink"}
\* Two LED letters and one character process_led_command does not know.
MCChars == {"A", "B", "z"}
=============================================================================
