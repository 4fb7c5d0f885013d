------------------------------- MODULE MCBoot ------------------------------
(* The boot of the debug build, which has all three prompts.               *)
EXTENDS Boot
=============================================================================
