-------------------------- MODULE MCPluginPlatform --------------------------
(***************************************************************************)
(* A catalog of two plugins, one of them a default, for TLC.               *)
(***************************************************************************)
EXTENDS PluginPlatform, TLC

CONSTANTS d1, x1, c1

MCDefaults == <<d1>>
MCRequests == {<<"enable", d1>>, <<"disable", d1>>, <<"remove", d1>>,
               <<"install_only", x1>>, <<"enable", x1>>, <<"remove", x1>>}
=============================================================================
