---------------------------- MODULE MCFieldControl ---------------------------
(* The temperature loop and its oil valve.                                  *)
EXTENDS FieldControl

Temp  == <<"temp">>
Low1  == <<0>>
High1 == <<1>>
=============================================================================
