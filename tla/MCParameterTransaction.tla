----------------------- MODULE MCParameterTransaction -----------------------
(***************************************************************************)
(* Two settings, each with the planned value and one or two others.        *)
(***************************************************************************)
EXTENDS ParameterTransaction
=============================================================================
