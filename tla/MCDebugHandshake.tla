-------------------------- MODULE MCDebugHandshake -------------------------
(* The firmware prints up to two lines before the loader is started.       *)
EXTENDS DebugHandshake

MCFirmwareOutput == {<<>>, <<"text", "\n">>, <<"text", "\n", "text", "text", "\n">>}
=============================================================================
